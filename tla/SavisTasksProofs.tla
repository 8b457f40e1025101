-------------------------- MODULE SavisTasksProofs --------------------------
(***************************************************************************)
(* The safety properties of SavisTasks for any number of tasks, offers and *)
(* workers and any number of retries, redeliveries and faults.             *)
(***************************************************************************)
EXTENDS SavisTasks, TLAPS

\* What the step of a worker says about its message.
Shaped(state) ==
  /\ state.step \in {"completing", "failing"} => state.job.kind = "run"
  /\ state.step \in {"checked", "enqueueing"} => state.job.kind = "schedule"

JobShape == \A w \in Workers : Shaped(worker[w])

Creating(t) == enqueuer[t].step \in {"saving", "pushing", "raised", "markingFailed"}

\* A worker that creates a task waits for its answer, and creates no other.
Scheduling ==
  \A t \in Tasks : Creating(t) /\ enqueuer[t].by \in Workers =>
    /\ worker[enqueuer[t].by].step = "enqueueing"
    /\ \A u \in Tasks : Creating(u) /\ enqueuer[u].by = enqueuer[t].by => u = t

Shape == TypeOK /\ JobShape /\ Scheduling
-----------------------------------------------------------------------------
(* Types *)

LEMMA RowTypes ==
  /\ NewRow \in TaskRow /\ AbsentRow \in TaskRow /\ Idle \in WorkerState
  /\ Cleanup \in Message /\ Schedule \in Message
<1>0. 0 \in 0..(StaleAfter + 1)
  BY TaskAssumption
<1>1. NewRow \in TaskRow
  BY <1>0 DEF NewRow, TaskRow, Statuses, Errors
<1>2. AbsentRow \in TaskRow
  BY <1>0, <1>1 DEF NewRow, AbsentRow, TaskRow, Statuses, Errors
<1>3. Cleanup \in Message /\ Schedule \in Message
  BY DEF Cleanup, Schedule, Message
<1>4. Idle \in WorkerState
  BY <1>2, <1>3, TaskAssumption DEF Idle, WorkerState
<1> QED BY <1>1, <1>2, <1>3, <1>4

\* Every transaction of an outcome leaves a row of the table.
LEMMA FlushType ==
  ASSUME NEW current \in TaskRow, NEW loaded \in TaskRow, NEW written \in TaskRow
  PROVE  Flush(current, loaded, written) \in TaskRow
<1> DEFINE completed == current.completed \/ written.completed
           status == IF written.status = loaded.status THEN current.status ELSE written.status
           error == IF written.error = loaded.error THEN current.error ELSE written.error
<1>1. completed \in BOOLEAN
  OBVIOUS
<1>2. status \in Statuses /\ error \in Errors /\ 0 \in 0..(StaleAfter + 1)
  BY TaskAssumption DEF TaskRow
<1>3. Flush(current, loaded, written) =
        [current EXCEPT !.status = status, !.completed = completed, !.error = error, !.age = 0]
  BY DEF Flush
<1> HIDE DEF completed, status, error
<1> QED BY <1>1, <1>2, <1>3 DEF TaskRow

LEMMA OutcomeTypes ==
  ASSUME NEW r \in TaskRow, NEW e \in Errors
  PROVE  CompletedRow(r) \in TaskRow /\ FailedRow(r, e) \in TaskRow
BY DEF CompletedRow, FailedRow, TaskRow, Statuses, Errors

LEMMA RunType ==
  ASSUME NEW t \in Tasks, NEW n \in 0..MaxRetries
  PROVE  /\ Run(t, n) \in Message /\ Run(t, n).kind = "run"
         /\ Run(t, n).task = t /\ Run(t, n).retries = n
BY DEF Run, Message

LEMMA JobType ==
  ASSUME Shape, NEW w \in Workers
  PROVE  /\ worker[w] \in WorkerState /\ worker[w].job \in Message
         /\ worker[w].loaded \in TaskRow
         /\ worker[w].job.kind = "run" =>
              worker[w].job.task \in Tasks /\ worker[w].job.retries \in 0..MaxRetries
<1>1. worker[w] \in WorkerState
  BY DEF Shape, TypeOK
<1>2. worker[w].job \in Message /\ worker[w].loaded \in TaskRow
  BY <1>1 DEF WorkerState
<1> QED BY <1>1, <1>2 DEF Message

LEMMA ReturnType ==
  ASSUME Shape, NEW t \in Tasks, NEW next \in WorkerState, Return(t, next)
  PROVE  worker' \in [Workers -> WorkerState]
BY DEF Return, Shape, TypeOK

LEMMA NextOfferType ==
  ASSUME Shape, NEW t \in Tasks
  PROVE  NextOffer(t) \in WorkerState
<1>1. CASE enqueuer[t].by \in Workers
  <2>1. worker[enqueuer[t].by] \in WorkerState
    BY <1>1 DEF Shape, TypeOK
  <2> QED BY <1>1, <2>1 DEF NextOffer, WorkerState
<1>2. CASE enqueuer[t].by \notin Workers
  BY <1>2, RowTypes DEF NextOffer
<1> QED BY <1>1, <1>2
-----------------------------------------------------------------------------
(* What a step may do to the row of a task *)

FailedPush(t) ==
  /\ MarkPushFailed(t)
  /\ task'[t] = Flush(task[t], enqueuer[t].loaded, FailedRow(enqueuer[t].loaded, "push"))

Completed(w, t) ==
  /\ worker[w].step = "completing" /\ Runs(w, t)
  /\ Complete(w) \/ CompletionRaises(w)
  /\ task'[t] = Flush(task[t], worker[w].loaded, CompletedRow(worker[w].loaded))

Failed(w, t) ==
  /\ worker[w].step = "failing" /\ Runs(w, t) /\ MarkFailed(w)
  /\ task'[t] = Flush(task[t], worker[w].loaded, FailedRow(worker[w].loaded, "run"))

FailedAsStale(w, t) ==
  /\ MarkStale(w) /\ task[t].status = "IN_PROGRESS"
  /\ task'[t] = [FailedRow(task[t], "stale") EXCEPT !.age = 0]

Aged(t) ==
  /\ Tick /\ task[t].status = "IN_PROGRESS" /\ task'[t] = [task[t] EXCEPT !.age = @ + 1]

TaskEffect(t) ==
  \/ task'[t] = task[t]
  \/ Save(t) /\ task'[t] = NewRow
  \/ FailedPush(t)
  \/ \E w \in Workers : Completed(w, t) \/ Failed(w, t) \/ FailedAsStale(w, t)
  \/ Aged(t)

LEMMA TaskSteps ==
  ASSUME Shape, [Next]_vars
  PROVE  task' \in [Tasks -> TaskRow] /\ \A t \in Tasks : TaskEffect(t)
<1>0. task \in [Tasks -> TaskRow] /\ enqueuer \in [Tasks -> Enqueuer]
  BY DEF Shape, TypeOK
<1>1. ASSUME NEW t \in Tasks, Save(t)
      PROVE  task' \in [Tasks -> TaskRow] /\ \A u \in Tasks : TaskEffect(u)
  BY <1>0, <1>1, RowTypes DEF Save, TaskEffect
<1>2. ASSUME NEW t \in Tasks, MarkPushFailed(t)
      PROVE  task' \in [Tasks -> TaskRow] /\ \A u \in Tasks : TaskEffect(u)
  <2> DEFINE new == Flush(task[t], enqueuer[t].loaded, FailedRow(enqueuer[t].loaded, "push"))
  <2>1. enqueuer[t].loaded \in TaskRow /\ task[t] \in TaskRow /\ "push" \in Errors
    BY <1>0 DEF Enqueuer, Errors
  <2>2. new \in TaskRow
    BY <2>1, FlushType, OutcomeTypes
  <2>3. task' = [task EXCEPT ![t] = new]
    BY <1>2 DEF MarkPushFailed
  <2>4. task'[t] = new /\ \A u \in Tasks : u # t => task'[u] = task[u]
    BY <1>0, <2>3
  <2> QED BY <1>0, <1>2, <2>2, <2>3, <2>4 DEF TaskEffect, FailedPush
<1>3. ASSUME NEW w \in Workers, Complete(w) \/ CompletionRaises(w), task' # task
      PROVE  task' \in [Tasks -> TaskRow] /\ \A u \in Tasks : TaskEffect(u)
  <2> DEFINE t == worker[w].job.task
             new == Flush(task[t], worker[w].loaded, CompletedRow(worker[w].loaded))
  <2>1. worker[w].step = "completing" /\ worker[w].job.kind = "run"
    BY <1>3 DEF Complete, CompletionRaises, Shape, JobShape, Shaped
  <2>2. worker[w].loaded \in TaskRow /\ t \in Tasks /\ task[t] \in TaskRow
    BY <1>0, <2>1, JobType
  <2>3. new \in TaskRow
    BY <2>2, FlushType, OutcomeTypes DEF Errors
  <2>4. task' = [task EXCEPT ![t] = new]
    BY <1>3 DEF Complete, CompletionRaises, Outcome
  <2>5. task'[t] = new /\ \A u \in Tasks : u # t => task'[u] = task[u]
    BY <1>0, <2>2, <2>4
  <2>6. Completed(w, t)
    BY <1>3, <2>1, <2>5 DEF Completed, Runs
  <2> QED BY <1>0, <2>2, <2>3, <2>4, <2>5, <2>6 DEF TaskEffect
<1>4. ASSUME NEW w \in Workers, MarkFailed(w)
      PROVE  task' \in [Tasks -> TaskRow] /\ \A u \in Tasks : TaskEffect(u)
  <2> DEFINE t == worker[w].job.task
             new == Flush(task[t], worker[w].loaded, FailedRow(worker[w].loaded, "run"))
  <2>1. worker[w].step = "failing" /\ worker[w].job.kind = "run"
    BY <1>4 DEF MarkFailed, Shape, JobShape, Shaped
  <2>2. worker[w].loaded \in TaskRow /\ t \in Tasks /\ task[t] \in TaskRow
    BY <1>0, <2>1, JobType
  <2>3. new \in TaskRow
    BY <2>2, FlushType, OutcomeTypes DEF Errors
  <2>4. task' = [task EXCEPT ![t] = new]
    BY <1>4 DEF MarkFailed, Outcome
  <2>5. task'[t] = new /\ \A u \in Tasks : u # t => task'[u] = task[u]
    BY <1>0, <2>2, <2>4
  <2>6. Failed(w, t)
    BY <1>4, <2>1, <2>5 DEF Failed, Runs
  <2> QED BY <1>0, <2>2, <2>3, <2>4, <2>5, <2>6 DEF TaskEffect
<1>5. ASSUME NEW w \in Workers, MarkStale(w)
      PROVE  task' \in [Tasks -> TaskRow] /\ \A u \in Tasks : TaskEffect(u)
  <2> DEFINE new(u) == [FailedRow(task[u], "stale") EXCEPT !.age = 0]
  <2>1. task' = [u \in Tasks |-> IF Stale(u) THEN new(u) ELSE task[u]]
    BY <1>5 DEF MarkStale
  <2>2. ASSUME NEW u \in Tasks
        PROVE  new(u) \in TaskRow
    <3>1. FailedRow(task[u], "stale") \in TaskRow /\ 0 \in 0..(StaleAfter + 1)
      BY <1>0, OutcomeTypes, TaskAssumption DEF Errors
    <3> QED BY <3>1 DEF TaskRow
  <2>3. ASSUME NEW u \in Tasks
        PROVE  TaskEffect(u)
    BY <1>5, <2>1 DEF TaskEffect, FailedAsStale, Stale
  <2> HIDE DEF new
  <2>4. task' \in [Tasks -> TaskRow]
    BY <1>0, <2>1, <2>2
  <2> QED BY <2>3, <2>4
<1>6. ASSUME Tick
      PROVE  task' \in [Tasks -> TaskRow] /\ \A u \in Tasks : TaskEffect(u)
  <2> DEFINE new(u) == [task[u] EXCEPT !.age = @ + 1]
             old(u) == task[u].status = "IN_PROGRESS" /\ task[u].age <= StaleAfter
  <2>1. task' = [u \in Tasks |-> IF old(u) THEN new(u) ELSE task[u]]
    BY <1>6 DEF Tick
  <2>2. ASSUME NEW u \in Tasks, old(u)
        PROVE  new(u) \in TaskRow
    <3>1. task[u] \in TaskRow /\ task[u].age \in 0..(StaleAfter + 1)
      BY <1>0 DEF TaskRow
    <3>2. task[u].age + 1 \in 0..(StaleAfter + 1)
      BY <2>2, <3>1, TaskAssumption
    <3> QED BY <3>1, <3>2 DEF TaskRow
  <2>3. ASSUME NEW u \in Tasks
        PROVE  TaskEffect(u)
    BY <1>6, <2>1 DEF TaskEffect, Aged
  <2> HIDE DEF new, old
  <2>4. task' \in [Tasks -> TaskRow]
    BY <1>0, <2>1, <2>2
  <2> QED BY <2>3, <2>4
<1>7. CASE UNCHANGED task
  BY <1>0, <1>7 DEF TaskEffect
<1> QED
  BY <1>1, <1>2, <1>3, <1>4, <1>5, <1>6, <1>7
     DEF Next, EnqueuerNext, WorkerNext, vars, Beat, Request, SaveRefused, Push, PushRaises,
         LoadAfterPush, EnqueuerDies, Deliver, HandlerReturns, Retry, GiveUp, ReportLost, Kill,
         ScheduleRefresh, ScheduleEnds, SkipActive, CheckInactive
-----------------------------------------------------------------------------
(* What a step may do to a worker *)

Same(w) ==
  /\ worker'[w].step = worker[w].step /\ worker'[w].job = worker[w].job
  /\ worker'[w].loaded = worker[w].loaded

Delivered(w) ==
  /\ worker[w].step = "idle" /\ worker'[w].step = "running"
  /\ worker'[w].job \in queue /\ Deliver(w, worker'[w].job)

\* The steps of a schedule.
Scheduled(w) ==
  /\ worker[w].job.kind = "schedule" /\ worker'[w].job = worker[w].job
  /\ \/ worker[w].step = "running" /\ worker'[w].step \in {"running", "checked"}
     \/ worker[w].step = "checked" /\ worker'[w].step = "enqueueing" /\ ScheduleRefresh(w)
     \/ worker[w].step = "enqueueing" /\ worker'[w].step = "running"

\* The end of a cleanup or a schedule.
JobEnds(w) == worker[w].job.kind # "run" /\ worker'[w] = Idle

\* The outcome of a task is about to be written to the row that was loaded.
Loads(w) ==
  /\ worker[w].job.kind = "run" /\ worker'[w].job = worker[w].job
  /\ \/ /\ worker[w].step = "running" /\ worker'[w].step \in {"completing", "failing"}
        /\ HandlerReturns(w) \/ GiveUp(w)
     \/ worker[w].step = "completing" /\ worker'[w].step = "failing" /\ CompletionRaises(w)
  /\ worker'[w].loaded = task'[worker[w].job.task]

\* A run ends with its outcome, with its retry or in vain.
RunEnds(w) ==
  /\ worker[w].step # "idle" /\ worker[w].job.kind = "run" /\ worker'[w] = Idle
  /\ \/ Complete(w) \/ MarkFailed(w) \/ Retry(w) \/ CompletionRaises(w)
     \/ worker[w].job.task \in lost' /\ (ReportLost(w) \/ Kill(w))

WorkerEffect(w) ==
  Same(w) \/ Delivered(w) \/ Scheduled(w) \/ JobEnds(w) \/ Loads(w) \/ RunEnds(w)

WorkerOk == 
  /\ worker' \in [Workers -> WorkerState]
  /\ \A w \in Workers : Shaped(worker'[w]) /\ WorkerEffect(w)

LEMMA IdleShaped == Shaped(Idle)
BY DEF Shaped, Idle

LEMMA ReturnSteps ==
  ASSUME Shape, NEW t \in Tasks, Creating(t), 
         NEW next \in {NextOffer(t), Idle}, Return(t, next)
  PROVE  WorkerOk
<1>0. worker \in [Workers -> WorkerState] /\ JobShape
  BY DEF Shape, TypeOK
<1>1. next \in WorkerState
  BY RowTypes, NextOfferType
<1>2. CASE enqueuer[t].by \notin Workers
  <2>1. worker' = worker
    BY <1>2 DEF Return
  <2> QED BY <1>0, <2>1 DEF WorkerOk, WorkerEffect, Same, JobShape
<1>3. CASE enqueuer[t].by \in Workers
  <2> DEFINE v == enqueuer[t].by
  <2>1. worker' = [worker EXCEPT ![v] = next]
    BY <1>3 DEF Return
  <2>2. worker[v].step = "enqueueing" /\ worker[v].job.kind = "schedule"
    BY <1>0, <1>3 DEF Shape, Scheduling, JobShape, Shaped
  <2>3. Shaped(next) /\ (next = Idle \/ (next.step = "running" /\ next.job = worker[v].job))
    <3>1. CASE next = Idle
      BY <3>1 DEF Shaped, Idle
    <3>2. CASE next = NextOffer(t)
      <4>1. next = [worker[v] EXCEPT !.step = "running", !.offer = NoOffer]
        BY <1>3, <3>2 DEF NextOffer
      <4>2. worker[v] \in WorkerState
        BY <1>0, <1>3
      <4>3. next.step = "running" /\ next.job = worker[v].job
        BY <4>1, <4>2 DEF WorkerState
      <4> QED BY <4>3 DEF Shaped
    <3> QED BY <3>1, <3>2
  <2>4. worker'[v] = next /\ \A w \in Workers : w # v => worker'[w] = worker[w]
    BY <1>0, <1>3, <2>1
  <2> HIDE DEF v
  <2>5. WorkerEffect(v)
    BY <2>2, <2>3, <2>4 DEF WorkerEffect, Scheduled, JobEnds
  <2> QED BY <1>0, <1>1, <2>1, <2>3, <2>4, <2>5 DEF WorkerOk, WorkerEffect, Same, JobShape
<1> QED BY <1>2, <1>3

\* It is enough to look at the one worker that takes the step.
LEMMA OneWorker ==
  ASSUME Shape, NEW w \in Workers, NEW new \in WorkerState, Shaped(new),
         worker' = [worker EXCEPT ![w] = new], worker'[w] = new => WorkerEffect(w)
  PROVE  WorkerOk
<1>0. worker \in [Workers -> WorkerState] /\ JobShape
  BY DEF Shape, TypeOK
<1>1. worker'[w] = new /\ \A v \in Workers : v # w => worker'[v] = worker[v]
  BY <1>0
<1> QED BY <1>0, <1>1 DEF WorkerOk, WorkerEffect, Same, JobShape

LEMMA WorkerSteps ==
  ASSUME Shape, [Next]_vars
  PROVE  WorkerOk
<1>0. /\ worker \in [Workers -> WorkerState] /\ JobShape
      /\ task' \in [Tasks -> TaskRow]
  BY TaskSteps DEF Shape, TypeOK
<1>1. CASE UNCHANGED worker
  BY <1>0, <1>1 DEF WorkerOk, WorkerEffect, Same, JobShape
<1>2. ASSUME NEW t \in Tasks, SaveRefused(t) \/ Push(t)
      PROVE  WorkerOk
  BY <1>2, ReturnSteps DEF SaveRefused, Push, Creating
<1>3. ASSUME NEW t \in Tasks, MarkPushFailed(t) \/ EnqueuerDies(t)
      PROVE  WorkerOk
  BY <1>3, ReturnSteps DEF MarkPushFailed, EnqueuerDies, Creating
<1>4. ASSUME NEW w \in Workers, NEW m \in queue, Deliver(w, m)
      PROVE  WorkerOk
  <2>1. PICK due \in SUBSET Offers :
          worker' = [worker EXCEPT ![w] = [Idle EXCEPT !.step = "running", !.job = m, !.due = due]]
    BY <1>4 DEF Deliver
  <2> DEFINE new == [Idle EXCEPT !.step = "running", !.job = m, !.due = due]
  <2>2. m \in Message
    BY DEF Shape, TypeOK
  <2>3. new \in WorkerState /\ Shaped(new) /\ new.step = "running" /\ new.job = m
    <3>1. Idle \in WorkerState
      BY RowTypes
    <3> QED BY <2>2, <3>1 DEF WorkerState, Shaped
  <2> HIDE DEF new
  <2>4. worker'[w] = new => WorkerEffect(w)
    BY <1>4, <2>3 DEF WorkerEffect, Delivered, Deliver
  <2> QED BY <2>1, <2>3, <2>4, OneWorker DEF new
<1>5. ASSUME NEW w \in Workers, HandlerReturns(w) \/ GiveUp(w)
      PROVE  WorkerOk
  <2>1. PICK step \in {"completing", "failing"} :
          worker' = [worker EXCEPT ![w].step = step, ![w].loaded = task[worker[w].job.task]]
    BY <1>5 DEF HandlerReturns, GiveUp
  <2> DEFINE new == [worker[w] EXCEPT !.step = step, !.loaded = task[worker[w].job.task]]
  <2>2. /\ worker[w].step = "running" /\ worker[w].job.kind = "run" /\ task' = task
        /\ worker[w] \in WorkerState /\ worker[w].job.task \in Tasks
    BY <1>5, JobType DEF HandlerReturns, GiveUp, Running
  <2>3. task[worker[w].job.task] \in TaskRow
    BY <2>2 DEF Shape, TypeOK
  <2>4. /\ new \in WorkerState /\ new.step = step /\ new.job = worker[w].job
        /\ new.loaded = task[worker[w].job.task]
    BY <2>2, <2>3 DEF WorkerState
  <2>5. worker' = [worker EXCEPT ![w] = new]
    BY <1>0, <2>1
  <2> HIDE DEF new
  <2>6. Shaped(new)
    BY <2>2, <2>4 DEF Shaped
  <2>7. worker'[w] = new => WorkerEffect(w)
    BY <1>5, <2>2, <2>4 DEF WorkerEffect, Loads
  <2> QED BY <2>4, <2>5, <2>6, <2>7, OneWorker
<1>6. ASSUME NEW w \in Workers, Release(w),
             \/ Complete(w) \/ MarkFailed(w) \/ Retry(w) \/ CompletionRaises(w)
             \/ ReportLost(w) \/ Kill(w)
      PROVE  WorkerOk
  <2>1. worker' = [worker EXCEPT ![w] = Idle]
    BY <1>6 DEF Release
  <2>2. worker[w].job.kind = "run" => worker[w].job.task \in Tasks
    BY JobType
  <2>3. CASE worker[w].job.kind = "run"
    <3>1. ReportLost(w) \/ Kill(w) => worker[w].job.task \in lost'
      BY <2>2, <2>3 DEF ReportLost, Kill, Runs
    <3>2. worker[w].step # "idle"
      BY <1>6 DEF Complete, MarkFailed, Retry, CompletionRaises, ReportLost, Kill, Running
    <3>3. worker'[w] = Idle => WorkerEffect(w)
      BY <1>6, <2>3, <3>1, <3>2 DEF WorkerEffect, RunEnds
    <3> QED BY <2>1, <3>3, OneWorker, IdleShaped, RowTypes
  <2>4. CASE worker[w].job.kind # "run"
    <3>1. worker'[w] = Idle => WorkerEffect(w)
      BY <2>4 DEF WorkerEffect, JobEnds
    <3> QED BY <2>1, <3>1, OneWorker, IdleShaped, RowTypes
  <2> QED BY <2>3, <2>4
<1>7. ASSUME NEW w \in Workers, CompletionRaises(w), ~Release(w)
      PROVE  WorkerOk
  <2>1. worker' = [worker EXCEPT ![w].step = "failing", ![w].loaded = task'[worker[w].job.task]]
    BY <1>7 DEF CompletionRaises
  <2> DEFINE new == [worker[w] EXCEPT !.step = "failing", !.loaded = task'[worker[w].job.task]]
  <2>2. worker[w].step = "completing" /\ worker[w].job.kind = "run"
    BY <1>0, <1>7 DEF CompletionRaises, JobShape, Shaped
  <2>3. worker[w] \in WorkerState /\ task'[worker[w].job.task] \in TaskRow
    BY <1>0, <2>2, JobType
  <2>4. /\ new \in WorkerState /\ new.step = "failing" /\ new.job = worker[w].job
        /\ new.loaded = task'[worker[w].job.task]
    BY <2>3 DEF WorkerState
  <2>5. worker' = [worker EXCEPT ![w] = new]
    BY <1>0, <2>1
  <2> HIDE DEF new
  <2>6. Shaped(new)
    BY <2>2, <2>4 DEF Shaped
  <2>7. worker'[w] = new => WorkerEffect(w)
    BY <1>7, <2>2, <2>4 DEF WorkerEffect, Loads
  <2> QED BY <2>4, <2>5, <2>6, <2>7, OneWorker
<1>8. ASSUME NEW w \in Workers, MarkStale(w) \/ ScheduleEnds(w)
      PROVE  WorkerOk
  <2>1. worker' = [worker EXCEPT ![w] = Idle]
    BY <1>8 DEF MarkStale, ScheduleEnds, Release
  <2>2. worker[w].job.kind # "run"
    BY <1>0, <1>8 DEF MarkStale, ScheduleEnds, Running, JobShape, Shaped
  <2>3. worker'[w] = Idle => WorkerEffect(w)
    BY <2>2 DEF WorkerEffect, JobEnds
  <2> QED BY <2>1, <2>3, OneWorker, IdleShaped, RowTypes
<1>9. ASSUME NEW w \in Workers, NEW o \in Offers, SkipActive(w, o) \/ CheckInactive(w, o)
      PROVE  WorkerOk
  <2>1. worker[w].step = "running" /\ worker[w].job.kind = "schedule"
    BY <1>9 DEF SkipActive, CheckInactive, Running
  <2>2. worker[w] \in WorkerState
    BY JobType
  <2>3. PICK new \in {[worker[w] EXCEPT !.due = @ \ {o}],
                      [worker[w] EXCEPT !.step = "checked", !.due = @ \ {o}, !.offer = o]} :
          worker' = [worker EXCEPT ![w] = new]
    <3>1. CASE SkipActive(w, o)
      BY <1>0, <3>1 DEF SkipActive
    <3>2. CASE CheckInactive(w, o)
      BY <1>0, <3>2 DEF CheckInactive
    <3> QED BY <1>9, <3>1, <3>2
  <2>4. new \in WorkerState /\ new.step \in {"running", "checked"} /\ new.job = worker[w].job
    BY <2>1, <2>2 DEF WorkerState
  <2>5. Shaped(new)
    BY <2>1, <2>4 DEF Shaped
  <2>6. worker'[w] = new => WorkerEffect(w)
    BY <2>1, <2>4 DEF WorkerEffect, Scheduled
  <2> QED BY <2>3, <2>4, <2>5, <2>6, OneWorker
<1>10. ASSUME NEW w \in Workers, ScheduleRefresh(w)
       PROVE  WorkerOk
  <2> DEFINE new == [worker[w] EXCEPT !.step = "enqueueing"]
  <2>1. worker[w].step = "checked" /\ worker[w].job.kind = "schedule" /\ worker[w] \in WorkerState
    BY <1>0, <1>10 DEF ScheduleRefresh, JobShape, Shaped
  <2>2. worker' = [worker EXCEPT ![w] = new]
    BY <1>0, <1>10 DEF ScheduleRefresh
  <2>3. new \in WorkerState /\ new.step = "enqueueing" /\ new.job = worker[w].job
    BY <2>1 DEF WorkerState
  <2> HIDE DEF new
  <2>4. Shaped(new)
    BY <2>1, <2>3 DEF Shaped
  <2>5. worker'[w] = new => WorkerEffect(w)
    BY <1>10, <2>1, <2>3 DEF WorkerEffect, Scheduled
  <2> QED BY <2>2, <2>3, <2>4, <2>5, OneWorker
<1>11. CASE Tick
  <2> DEFINE new(w) == IF worker[w].step = "idle" THEN worker[w]
                       ELSE [worker[w] EXCEPT !.elapsed = @ + 1]
  <2>1. worker' = [w \in Workers |-> new(w)]
    BY <1>11 DEF Tick
  <2>2. ASSUME NEW w \in Workers
        PROVE  /\ new(w) \in WorkerState /\ new(w).step = worker[w].step
               /\ new(w).job = worker[w].job /\ new(w).loaded = worker[w].loaded
    <3>1. worker[w] \in WorkerState /\ worker[w].elapsed \in 0..TimeLimit
      BY JobType DEF WorkerState
    <3>2. worker[w].step # "idle" => worker[w].elapsed + 1 \in 0..TimeLimit
      BY <1>11, <3>1, TaskAssumption DEF Tick
    <3> QED BY <3>1, <3>2 DEF WorkerState
  <2> HIDE DEF new
  <2> QED BY <1>0, <2>1, <2>2 DEF WorkerOk, WorkerEffect, Same, JobShape, Shaped
<1>12. ASSUME NEW w \in Workers, CompletionRaises(w) \/ WorkerNext(w)
       PROVE  WorkerOk
  BY <1>1, <1>4, <1>5, <1>6, <1>7, <1>8, <1>9, <1>10, <1>12
     DEF WorkerNext, Complete, Retry, MarkFailed, ReportLost, Kill
<1>13. ASSUME NEW t \in Tasks, EnqueuerNext(t)
       PROVE  WorkerOk
  BY <1>1, <1>2, <1>3, <1>13 DEF EnqueuerNext, Request, Save, PushRaises, LoadAfterPush
<1> QED BY <1>1, <1>11, <1>12, <1>13 DEF Next, vars, Beat
-----------------------------------------------------------------------------
(* What a step may do to a creating thread *)

Requested(t) ==
  /\ enqueuer[t].step = "new" /\ enqueuer'[t].step = "saving"
  /\ enqueuer'[t].by \in Workers => ScheduleRefresh(enqueuer'[t].by)

Advanced(t) ==
  /\ enqueuer'[t].by = enqueuer[t].by
  /\ \/ enqueuer[t].step = "saving" /\ enqueuer'[t].step = "pushing" /\ Save(t)
     \/ enqueuer[t].step = "pushing" /\ enqueuer'[t].step = "raised" /\ PushRaises(t)
     \/ /\ enqueuer[t].step = "raised" /\ enqueuer'[t].step = "markingFailed"
        /\ LoadAfterPush(t) /\ enqueuer'[t].loaded = task[t]

Concluded(t) ==
  /\ enqueuer'[t].step = "done"
  /\ \/ enqueuer[t].step = "saving" /\ UNCHANGED task
     \/ enqueuer[t].step = "pushing" /\ Push(t)
     \/ enqueuer[t].step = "markingFailed" /\ MarkPushFailed(t)
     \/ enqueuer[t].step \in {"pushing", "raised", "markingFailed"} /\ t \in lost'

EnqueuerEffect(t) ==
  enqueuer'[t] = enqueuer[t] \/ Requested(t) \/ Advanced(t) \/ Concluded(t)

EnqueuerOk ==
  enqueuer' \in [Tasks -> Enqueuer] /\ \A t \in Tasks : EnqueuerEffect(t)

\* It is enough to look at the one thread that takes the step.
LEMMA OneEnqueuer ==
  ASSUME Shape, NEW t \in Tasks, NEW new \in Enqueuer,
         enqueuer' = [enqueuer EXCEPT ![t] = new], enqueuer'[t] = new => EnqueuerEffect(t)
  PROVE  EnqueuerOk
<1>0. enqueuer \in [Tasks -> Enqueuer]
  BY DEF Shape, TypeOK
<1>1. enqueuer'[t] = new /\ \A u \in Tasks : u # t => enqueuer'[u] = enqueuer[u]
  BY <1>0
<1> QED BY <1>0, <1>1 DEF EnqueuerOk, EnqueuerEffect

LEMMA RequestSteps ==
  ASSUME Shape, NEW t \in Tasks, NEW thread \in Workers \cup {"api", "subscriber"},
         enqueuer[t].step = "new",
         enqueuer' = [enqueuer EXCEPT ![t].step = "saving", ![t].by = thread],
         thread \in Workers => ScheduleRefresh(thread)
  PROVE  EnqueuerOk
<1> DEFINE new == [enqueuer[t] EXCEPT !.step = "saving", !.by = thread]
<1>1. enqueuer \in [Tasks -> Enqueuer] /\ enqueuer[t] \in Enqueuer
  BY DEF Shape, TypeOK
<1>2. new \in Enqueuer /\ new.step = "saving" /\ new.by = thread
  BY <1>1 DEF Enqueuer
<1>3. enqueuer' = [enqueuer EXCEPT ![t] = new]
  BY <1>1
<1> HIDE DEF new
<1>4. enqueuer'[t] = new => EnqueuerEffect(t)
  BY <1>2 DEF EnqueuerEffect, Requested
<1> QED BY <1>2, <1>3, <1>4, OneEnqueuer

\* A step of the thread that changes nothing but how far it has come.
LEMMA ThreadSteps ==
  ASSUME Shape, NEW t \in Tasks,
         NEW step \in {"pushing", "raised", "done"},
         enqueuer' = [enqueuer EXCEPT ![t].step = step],
         enqueuer'[t].step = step /\ enqueuer'[t].by = enqueuer[t].by => EnqueuerEffect(t)
  PROVE  EnqueuerOk
<1> DEFINE new == [enqueuer[t] EXCEPT !.step = step]
<1>1. enqueuer \in [Tasks -> Enqueuer] /\ enqueuer[t] \in Enqueuer
  BY DEF Shape, TypeOK
<1>2. new \in Enqueuer /\ new.step = step /\ new.by = enqueuer[t].by
  BY <1>1 DEF Enqueuer
<1>3. enqueuer' = [enqueuer EXCEPT ![t] = new]
  BY <1>1
<1> HIDE DEF new
<1> QED BY <1>2, <1>3, OneEnqueuer

LEMMA EnqueuerSteps ==
  ASSUME Shape, [Next]_vars
  PROVE  EnqueuerOk
<1>0. enqueuer \in [Tasks -> Enqueuer] /\ task \in [Tasks -> TaskRow]
  BY DEF Shape, TypeOK
<1>1. CASE UNCHANGED enqueuer
  BY <1>0, <1>1 DEF EnqueuerOk, EnqueuerEffect
<1>2. ASSUME NEW t \in Tasks, NEW thread \in {"api", "subscriber"}, Request(t, thread)
      PROVE  EnqueuerOk
  BY <1>2, RequestSteps, TaskAssumption DEF Request
<1>3. ASSUME NEW w \in Workers, ScheduleRefresh(w)
      PROVE  EnqueuerOk
  <2>1. PICK t \in Tasks :
          /\ enqueuer[t].step = "new"
          /\ enqueuer' = [enqueuer EXCEPT ![t].step = "saving", ![t].by = w]
    BY <1>3 DEF ScheduleRefresh
  <2> QED BY <1>3, <2>1, RequestSteps
<1>4. ASSUME NEW t \in Tasks, Save(t)
      PROVE  EnqueuerOk
  BY <1>4, ThreadSteps DEF Save, EnqueuerEffect, Advanced
<1>5. ASSUME NEW t \in Tasks, PushRaises(t)
      PROVE  EnqueuerOk
  BY <1>5, ThreadSteps DEF PushRaises, EnqueuerEffect, Advanced
<1>6. ASSUME NEW t \in Tasks, SaveRefused(t) \/ Push(t) \/ MarkPushFailed(t) \/ EnqueuerDies(t)
      PROVE  EnqueuerOk
  <2>1. enqueuer' = [enqueuer EXCEPT ![t].step = "done"]
    BY <1>6 DEF SaveRefused, Push, MarkPushFailed, EnqueuerDies
  <2>2. enqueuer'[t].step = "done" => Concluded(t)
    <3>1. CASE SaveRefused(t)
      BY <3>1 DEF Concluded, SaveRefused
    <3>2. CASE Push(t)
      BY <3>2 DEF Concluded, Push
    <3>3. CASE MarkPushFailed(t)
      BY <3>3 DEF Concluded, MarkPushFailed
    <3>4. CASE EnqueuerDies(t)
      BY <3>4 DEF Concluded, EnqueuerDies
    <3> QED BY <1>6, <3>1, <3>2, <3>3, <3>4
  <2> QED BY <2>1, <2>2, ThreadSteps DEF EnqueuerEffect
<1>7. ASSUME NEW t \in Tasks, LoadAfterPush(t)
      PROVE  EnqueuerOk
  <2> DEFINE new == [enqueuer[t] EXCEPT !.step = "markingFailed", !.loaded = task[t]]
  <2>1. /\ new \in Enqueuer /\ new.step = "markingFailed" /\ new.by = enqueuer[t].by
        /\ new.loaded = task[t]
    BY <1>0 DEF Enqueuer
  <2>2. enqueuer' = [enqueuer EXCEPT ![t] = new] /\ enqueuer[t].step = "raised"
    BY <1>0, <1>7 DEF LoadAfterPush
  <2> HIDE DEF new
  <2>3. enqueuer'[t] = new => EnqueuerEffect(t)
    BY <1>7, <2>1, <2>2 DEF EnqueuerEffect, Advanced
  <2> QED BY <2>1, <2>2, <2>3, OneEnqueuer
<1>8. ASSUME NEW w \in Workers, Kill(w)
      PROVE  EnqueuerOk
  <2> DEFINE new(t) == [enqueuer[t] EXCEPT !.step = "done"]
  <2>1. enqueuer' = [t \in Tasks |-> IF t \in CreatedBy(w) THEN new(t) ELSE enqueuer[t]]
    BY <1>8 DEF Kill
  <2>2. ASSUME NEW t \in Tasks
        PROVE  new(t) \in Enqueuer /\ new(t).step = "done"
    BY <1>0 DEF Enqueuer
  <2>3. ASSUME NEW t \in CreatedBy(w)
        PROVE  /\ UNCHANGED task
               /\ enqueuer[t].step \in {"saving", "pushing", "raised", "markingFailed"}
               /\ enqueuer[t].step # "saving" => t \in lost'
    <3>1. t \in Tasks /\ enqueuer[t].step \notin {"new", "done"} /\ enqueuer[t] \in Enqueuer
      BY <1>0 DEF CreatedBy
    <3> QED BY <1>8, <3>1 DEF Kill, Enqueuer
  <2> HIDE DEF new
  <2> QED BY <1>0, <2>1, <2>2, <2>3 DEF EnqueuerOk, EnqueuerEffect, Concluded
<1>9. ASSUME NEW t \in Tasks, EnqueuerNext(t)
      PROVE  EnqueuerOk
  BY <1>2, <1>4, <1>5, <1>6, <1>7, <1>9 DEF EnqueuerNext
<1>10. ASSUME NEW w \in Workers, WorkerNext(w)
       PROVE  EnqueuerOk
  BY <1>1, <1>3, <1>8, <1>10
     DEF WorkerNext, Deliver, HandlerReturns, Complete, Retry, GiveUp, MarkFailed,
         CompletionRaises, ReportLost, MarkStale, ScheduleEnds, SkipActive, CheckInactive
<1> QED BY <1>1, <1>9, <1>10 DEF Next, vars, Beat, Tick
-----------------------------------------------------------------------------
(* Types and shape are kept *)

LEMMA RestTypes ==
  ASSUME Shape, [Next]_vars
  PROVE  /\ queue' \subseteq Message /\ redeliveries' \in Nat /\ faults' \in Nat
         /\ lost' \subseteq Tasks /\ ambiguous' \subseteq Tasks
<1> DEFINE Goal == /\ queue' \subseteq Message /\ redeliveries' \in Nat /\ faults' \in Nat
                   /\ lost' \subseteq Tasks /\ ambiguous' \subseteq Tasks
<1>0. /\ queue \subseteq Message /\ redeliveries \in Nat /\ faults \in Nat
      /\ lost \subseteq Tasks /\ ambiguous \subseteq Tasks
  BY DEF Shape, TypeOK
<1>1. ASSUME NEW t \in Tasks, EnqueuerNext(t)
      PROVE  Goal
  <2>1. Run(t, 0) \in Message
    BY RunType, TaskAssumption
  <2> QED BY <1>0, <1>1, <2>1
          DEF EnqueuerNext, Request, Save, SaveRefused, Push, PushRaises, LoadAfterPush,
              MarkPushFailed, EnqueuerDies, Fault
<1>2. ASSUME NEW w \in Workers, NEW m \in queue, Deliver(w, m)
      PROVE  Goal
  <2>1. m.kind = "run" => m.task \in Tasks
    BY <1>0 DEF Message
  <2> QED BY <1>0, <1>2, <2>1 DEF Deliver
<1>3. ASSUME NEW w \in Workers, Retry(w) \/ CompletionRaises(w)
      PROVE  Goal
  <2>1. worker[w].job.kind = "run"
    BY <1>3 DEF Retry, CompletionRaises, Running, Shape, JobShape, Shaped
  <2>2. worker[w].job.task \in Tasks /\ worker[w].job.retries \in 0..MaxRetries
    BY <2>1, JobType
  <2>3. worker[w].job.retries < MaxRetries => RetryMessage(worker[w].job) \subseteq Message
    <3>1. worker[w].job.retries < MaxRetries => worker[w].job.retries + 1 \in 0..MaxRetries
      BY <2>2, TaskAssumption
    <3> QED BY <1>0, <2>2, <3>1, RunType DEF RetryMessage
  <2>4. CASE Retry(w)
    BY <1>0, <2>3, <2>4 DEF Retry, RetriesLeft
  <2>5. CASE CompletionRaises(w)
    BY <1>0, <2>2, <2>3, <2>5 DEF CompletionRaises, Fault
  <2> QED BY <1>3, <2>4, <2>5
<1>4. ASSUME NEW w \in Workers, ReportLost(w)
      PROVE  Goal
  <2>1. worker[w].job.kind = "run"
    BY <1>4 DEF ReportLost, Running, Shape, JobShape, Shaped
  <2> QED BY <1>0, <1>4, <2>1, JobType DEF ReportLost, Fault
<1>5. ASSUME NEW w \in Workers, Kill(w)
      PROVE  Goal
  BY <1>0, <1>5 DEF Kill, Fault, NoFault, CreatedBy
<1>6. ASSUME NEW w \in Workers,
             \/ HandlerReturns(w) \/ Complete(w) \/ GiveUp(w) \/ MarkFailed(w)
             \/ MarkStale(w) \/ ScheduleRefresh(w) \/ ScheduleEnds(w)
             \/ \E o \in Offers : SkipActive(w, o) \/ CheckInactive(w, o)
      PROVE  Goal
  BY <1>0, <1>6
     DEF HandlerReturns, Complete, GiveUp, MarkFailed, MarkStale, ScheduleRefresh,
         ScheduleEnds, SkipActive, CheckInactive
<1>7. ASSUME NEW m \in {Cleanup, Schedule}, Beat(m)
      PROVE  Goal
  BY <1>0, <1>7, RowTypes DEF Beat
<1>8. CASE Tick \/ UNCHANGED vars
  BY <1>0, <1>8 DEF Tick, vars
<1> QED
  BY <1>1, <1>2, <1>3, <1>4, <1>5, <1>6, <1>7, <1>8 DEF Next, WorkerNext

\* Two threads that the same worker waits for are one.
LEMMA SchedulingKept ==
  ASSUME Shape, [Next]_vars
  PROVE  Scheduling'
<1> SUFFICES ASSUME NEW t \in Tasks, Creating(t)', enqueuer'[t].by \in Workers
             PROVE  /\ worker'[enqueuer'[t].by].step = "enqueueing"
                    /\ \A u \in Tasks : Creating(u)' /\ enqueuer'[u].by = enqueuer'[t].by
                                          => u = t
  BY DEF Scheduling
<1>0. /\ worker \in [Workers -> WorkerState] /\ enqueuer \in [Tasks -> Enqueuer]
      /\ enqueuer' \in [Tasks -> Enqueuer] /\ Scheduling
  BY EnqueuerSteps DEF Shape, TypeOK, EnqueuerOk
<1>1. ASSUME \A u \in Tasks : Creating(u)' => Creating(u) /\ enqueuer'[u].by = enqueuer[u].by,
             worker[enqueuer[t].by].step = "enqueueing"
               => worker'[enqueuer[t].by].step = "enqueueing"
      PROVE  /\ worker'[enqueuer'[t].by].step = "enqueueing"
             /\ \A u \in Tasks : Creating(u)' /\ enqueuer'[u].by = enqueuer'[t].by => u = t
  BY <1>0, <1>1 DEF Scheduling
<1>2. ASSUME NEW u \in Tasks, SaveRefused(u) \/ Push(u) \/ MarkPushFailed(u) \/ EnqueuerDies(u)
      PROVE  /\ worker'[enqueuer'[t].by].step = "enqueueing"
             /\ \A v \in Tasks : Creating(v)' /\ enqueuer'[v].by = enqueuer'[t].by => v = t
  <2>1. enqueuer' = [enqueuer EXCEPT ![u].step = "done"] /\ Creating(u)
    BY <1>2 DEF SaveRefused, Push, MarkPushFailed, EnqueuerDies, Creating
  <2>2. \A v \in Tasks : Creating(v)' => v # u /\ Creating(v) /\ enqueuer'[v].by = enqueuer[v].by
    BY <1>0, <2>1 DEF Creating, Enqueuer
  <2>3. enqueuer[t].by # enqueuer[u].by
    BY <1>0, <2>1, <2>2 DEF Scheduling
  <2>4. worker'[enqueuer[t].by] = worker[enqueuer[t].by]
    BY <1>0, <1>2, <2>2, <2>3 DEF SaveRefused, Push, MarkPushFailed, EnqueuerDies, Return
  <2> QED BY <1>1, <2>2, <2>4
<1>3. ASSUME NEW u \in Tasks, Save(u) \/ PushRaises(u) \/ LoadAfterPush(u)
      PROVE  /\ worker'[enqueuer'[t].by].step = "enqueueing"
             /\ \A v \in Tasks : Creating(v)' /\ enqueuer'[v].by = enqueuer'[t].by => v = t
  <2>1. worker' = worker /\ Creating(u)
    BY <1>3 DEF Save, PushRaises, LoadAfterPush, Creating
  <2>2. /\ enqueuer'[u].by = enqueuer[u].by
        /\ \A v \in Tasks : v # u => enqueuer'[v] = enqueuer[v]
    BY <1>0, <1>3 DEF Save, PushRaises, LoadAfterPush, Enqueuer
  <2>3. \A v \in Tasks : Creating(v)' => Creating(v) /\ enqueuer'[v].by = enqueuer[v].by
    BY <2>1, <2>2 DEF Creating
  <2> QED BY <1>1, <2>1, <2>3
<1>4. ASSUME NEW u \in Tasks, NEW thread \in {"api", "subscriber"}, Request(u, thread)
      PROVE  /\ worker'[enqueuer'[t].by].step = "enqueueing"
             /\ \A v \in Tasks : Creating(v)' /\ enqueuer'[v].by = enqueuer'[t].by => v = t
  <2>1. /\ worker' = worker /\ enqueuer'[u].by = thread
        /\ \A v \in Tasks : v # u => enqueuer'[v] = enqueuer[v]
    BY <1>0, <1>4 DEF Request, Enqueuer
  <2>2. t # u /\ thread \notin Workers
    BY <2>1, TaskAssumption
  <2>3. Creating(t) /\ enqueuer'[t].by = enqueuer[t].by
    BY <2>1, <2>2 DEF Creating
  <2>4. \A v \in Tasks : Creating(v)' /\ enqueuer'[v].by = enqueuer'[t].by
          => Creating(v) /\ enqueuer[v].by = enqueuer[t].by
    BY <2>1, <2>2, <2>3 DEF Creating
  <2> QED BY <1>0, <2>1, <2>3, <2>4 DEF Scheduling
<1>5. ASSUME NEW w \in Workers, ScheduleRefresh(w)
      PROVE  /\ worker'[enqueuer'[t].by].step = "enqueueing"
             /\ \A v \in Tasks : Creating(v)' /\ enqueuer'[v].by = enqueuer'[t].by => v = t
  <2>1. PICK u \in Tasks :
          /\ enqueuer[u].step = "new"
          /\ enqueuer' = [enqueuer EXCEPT ![u].step = "saving", ![u].by = w]
    BY <1>5 DEF ScheduleRefresh
  <2>2. /\ enqueuer'[u].by = w /\ \A v \in Tasks : v # u => enqueuer'[v] = enqueuer[v]
        /\ worker[w].step = "checked" /\ worker'[w].step = "enqueueing"
        /\ \A x \in Workers : x # w => worker'[x] = worker[x]
    BY <1>0, <1>5, <2>1 DEF ScheduleRefresh, Enqueuer, WorkerState
  <2>3. \A v \in Tasks : Creating(v)' /\ v # u =>
          Creating(v) /\ enqueuer'[v].by = enqueuer[v].by /\ enqueuer[v].by # w
    BY <1>0, <1>5, <2>2 DEF Creating, Scheduling
  <2>4. CASE t = u
    BY <2>2, <2>3, <2>4
  <2>5. CASE t # u
    BY <1>0, <2>2, <2>3, <2>5 DEF Scheduling
  <2> QED BY <2>4, <2>5
<1>6. ASSUME NEW w \in Workers, Kill(w)
      PROVE  /\ worker'[enqueuer'[t].by].step = "enqueueing"
             /\ \A v \in Tasks : Creating(v)' /\ enqueuer'[v].by = enqueuer'[t].by => v = t
  <2>1. \A v \in Tasks : enqueuer'[v] = IF v \in CreatedBy(w)
                                        THEN [enqueuer[v] EXCEPT !.step = "done"]
                                        ELSE enqueuer[v]
    BY <1>6 DEF Kill
  <2>2. \A v \in Tasks : Creating(v)' =>
          Creating(v) /\ enqueuer'[v].by = enqueuer[v].by /\ v \notin CreatedBy(w)
    BY <1>0, <2>1 DEF Creating, Enqueuer
  <2>3. enqueuer[t].by # w
    BY <2>2 DEF CreatedBy, Creating
  <2>4. worker'[enqueuer[t].by] = worker[enqueuer[t].by]
    BY <1>0, <1>6, <2>2, <2>3 DEF Kill, Release
  <2> QED BY <1>1, <2>2, <2>4
<1>7. ASSUME UNCHANGED enqueuer,
             \A w \in Workers : worker[w].step = "enqueueing" => worker'[w].step = "enqueueing"
      PROVE  /\ worker'[enqueuer'[t].by].step = "enqueueing"
             /\ \A v \in Tasks : Creating(v)' /\ enqueuer'[v].by = enqueuer'[t].by => v = t
  BY <1>0, <1>7 DEF Creating, Scheduling
<1>8. CASE Tick
  <2>1. \A w \in Workers : worker'[w].step = worker[w].step
    BY <1>0, <1>8 DEF Tick, WorkerState
  <2> QED BY <1>7, <1>8, <2>1 DEF Tick
<1>9. ASSUME NEW w \in Workers, UNCHANGED enqueuer, worker[w].step # "enqueueing",
             \A v \in Workers : v # w => worker'[v] = worker[v]
      PROVE  /\ worker'[enqueuer'[t].by].step = "enqueueing"
             /\ \A v \in Tasks : Creating(v)' /\ enqueuer'[v].by = enqueuer'[t].by => v = t
  BY <1>7, <1>9
<1>10. ASSUME NEW w \in Workers, WorkerNext(w), ~Kill(w), ~ScheduleRefresh(w)
       PROVE  /\ UNCHANGED enqueuer /\ worker[w].step # "enqueueing"
              /\ \A v \in Workers : v # w => worker'[v] = worker[v]
  BY <1>0, <1>10
     DEF WorkerNext, Deliver, HandlerReturns, Complete, Retry, GiveUp, MarkFailed, Release,
         CompletionRaises, ReportLost, MarkStale, ScheduleEnds, SkipActive, CheckInactive, Running
<1>11. ASSUME NEW w \in Workers, WorkerNext(w)
       PROVE  /\ worker'[enqueuer'[t].by].step = "enqueueing"
              /\ \A v \in Tasks : Creating(v)' /\ enqueuer'[v].by = enqueuer'[t].by => v = t
  BY <1>5, <1>6, <1>9, <1>10, <1>11
<1>12. CASE UNCHANGED <<enqueuer, worker>>
  BY <1>7, <1>12
<1> QED
  BY <1>2, <1>3, <1>4, <1>8, <1>11, <1>12 DEF Next, EnqueuerNext, vars, Beat

LEMMA ShapeInitially == Init => Shape
<1> SUFFICES ASSUME Init PROVE Shape
  OBVIOUS
<1>1. task \in [Tasks -> TaskRow] /\ worker \in [Workers -> WorkerState]
  BY RowTypes DEF Init
<1>2. enqueuer \in [Tasks -> Enqueuer]
  BY RowTypes DEF Init, Enqueuer
<1>3. \A w \in Workers : Shaped(worker[w])
  BY DEF Init, Shaped, Idle
<1>4. Scheduling
  BY DEF Init, Scheduling, Creating
<1> QED BY <1>1, <1>2, <1>3, <1>4 DEF Init, Shape, TypeOK, JobShape

LEMMA ShapeKept ==
  ASSUME Shape, [Next]_vars
  PROVE  Shape'
<1>1. JobShape'
  BY WorkerSteps DEF WorkerOk, JobShape, Shaped
<1>2. TypeOK'
  BY TaskSteps, EnqueuerSteps, WorkerSteps, RestTypes DEF TypeOK, EnqueuerOk, WorkerOk
<1> QED BY <1>1, <1>2, SchedulingKept DEF Shape

\* The row, the creating threads, the queue and the workers keep their types, for
\* any number of each.
THEOREM TypeCorrect == Spec => []TypeOK
<1>1. Shape /\ [Next]_vars => Shape'
  BY ShapeKept
<1>2. Shape => TypeOK
  BY DEF Shape
<1> QED BY <1>1, <1>2, ShapeInitially, PTL DEF Spec
-----------------------------------------------------------------------------
(* What a step may do to the messages and runs of a task *)

Queued(t) == \E m \in queue : m.kind = "run" /\ m.task = t
Taken(t) == \E w \in Workers : Runs(w, t)

MessageFlow(t) ==
  /\ Queued(t)' => \/ Queued(t) \/ Taken(t)
                   \/ enqueuer[t].step = "pushing" /\ enqueuer'[t].step \in {"raised", "done"}
  /\ Taken(t)' => Queued(t) \/ Taken(t)
  /\ Queued(t) => Queued(t)' \/ Taken(t)'
  /\ Taken(t) => \/ Taken(t)' \/ Queued(t)' \/ t \in lost'
                 \/ \E w \in Workers : Completed(w, t) \/ Failed(w, t)

LEMMA OutcomeIsWritten ==
  ASSUME Shape, [Next]_vars, NEW w \in Workers, NEW t \in Tasks, Runs(w, t)
  PROVE  /\ Complete(w) => Completed(w, t)
         /\ MarkFailed(w) => Failed(w, t)
<1>1. worker[w].job.task = t /\ task \in [Tasks -> TaskRow]
  BY DEF Runs, Shape, TypeOK
<1>2. ASSUME Complete(w)
      PROVE  Completed(w, t)
  BY <1>1, <1>2 DEF Complete, Completed, Outcome
<1>3. ASSUME MarkFailed(w)
      PROVE  Failed(w, t)
  BY <1>1, <1>3 DEF MarkFailed, Failed, Outcome
<1> QED BY <1>2, <1>3

LEMMA RetryIsQueued ==
  ASSUME Shape, NEW w \in Workers, NEW t \in Tasks, Runs(w, t),
         queue' = RetryMessage(worker[w].job)
  PROVE  Queued(t)'
<1> DEFINE m == Run(worker[w].job.task, worker[w].job.retries + 1)
<1>1. m.kind = "run" /\ m.task = t
  BY DEF Run, Runs
<1>2. m \in queue'
  BY DEF RetryMessage
<1> QED BY <1>1, <1>2 DEF Queued

LEMMA Deliveries ==
  ASSUME Shape, [Next]_vars, NEW t \in Tasks, Queued(t)
  PROVE  Queued(t)' \/ Taken(t)'
<1>0. worker \in [Workers -> WorkerState]
  BY DEF Shape, TypeOK
<1>1. PICK m \in queue : m.kind = "run" /\ m.task = t
  BY DEF Queued
<1>2. ASSUME NEW w \in Workers, NEW n \in queue, Deliver(w, n)
      PROVE  Queued(t)' \/ Taken(t)'
  <2>1. CASE n = m
    <3>1. PICK due \in SUBSET Offers :
            worker' = [worker EXCEPT ![w] = [Idle EXCEPT !.step = "running", !.job = m,
                                                         !.due = due]]
      BY <1>2, <2>1 DEF Deliver
    <3>2. worker'[w].step = "running" /\ worker'[w].job = m
      BY <1>0, <3>1 DEF Idle
    <3> QED BY <1>1, <3>2 DEF Taken, Runs
  <2>2. CASE n # m
    BY <1>1, <1>2, <2>2 DEF Deliver, Queued
  <2> QED BY <2>1, <2>2
<1>3. ASSUME queue \subseteq queue'
      PROVE  Queued(t)'
  BY <1>1, <1>3 DEF Queued
<1> QED
  BY <1>2, <1>3
     DEF Next, vars, Tick, Beat, EnqueuerNext, Request, Save, SaveRefused, Push, PushRaises,
         LoadAfterPush, MarkPushFailed, EnqueuerDies, WorkerNext, HandlerReturns, Complete,
         Retry, RetryMessage, GiveUp, MarkFailed, CompletionRaises, ReportLost, Kill,
         MarkStale, ScheduleRefresh, ScheduleEnds, SkipActive, CheckInactive

LEMMA Arrivals ==
  ASSUME Shape, [Next]_vars, NEW t \in Tasks, Queued(t)'
  PROVE  \/ Queued(t) \/ Taken(t)
         \/ enqueuer[t].step = "pushing" /\ enqueuer'[t].step \in {"raised", "done"}
<1> DEFINE Goal ==
      \/ Queued(t) \/ Taken(t)
      \/ enqueuer[t].step = "pushing" /\ enqueuer'[t].step \in {"raised", "done"}
<1>0. enqueuer \in [Tasks -> Enqueuer]
  BY DEF Shape, TypeOK
<1>1. ASSUME queue' \subseteq queue
      PROVE  Goal
  BY <1>1 DEF Queued
<1>2. ASSUME NEW u \in Tasks, Push(u) \/ PushRaises(u)
      PROVE  Goal
  <2>1. queue' \subseteq queue \cup {Run(u, 0)} /\ Run(u, 0).task = u
    BY <1>2 DEF Push, PushRaises, Run
  <2>2. enqueuer[u].step = "pushing" /\ enqueuer'[u].step \in {"raised", "done"}
    BY <1>0, <1>2 DEF Push, PushRaises, Enqueuer
  <2> QED BY <2>1, <2>2 DEF Queued
<1>3. ASSUME NEW w \in Workers, Retry(w) \/ CompletionRaises(w)
      PROVE  Goal
  <2>1. worker[w].step # "idle" /\ worker[w].job.kind = "run"
    BY <1>3 DEF Retry, CompletionRaises, Running, Shape, JobShape, Shaped
  <2>2. \A m \in queue' : m \in queue \/ m.task = worker[w].job.task
    BY <1>3 DEF Retry, CompletionRaises, RetryMessage, Run
  <2> QED BY <2>1, <2>2 DEF Queued, Taken, Runs
<1>4. ASSUME NEW m \in {Cleanup, Schedule}, Beat(m)
      PROVE  Goal
  BY <1>4 DEF Beat, Queued, Cleanup, Schedule
<1> QED
  BY <1>1, <1>2, <1>3, <1>4
     DEF Next, vars, Tick, EnqueuerNext, Request, Save, SaveRefused, LoadAfterPush,
         MarkPushFailed, EnqueuerDies, WorkerNext, Deliver, HandlerReturns, Complete,
         GiveUp, MarkFailed, ReportLost, Kill,
         MarkStale, ScheduleRefresh, ScheduleEnds, SkipActive, CheckInactive

LEMMA MessagesFlow ==
  ASSUME Shape, [Next]_vars, NEW t \in Tasks
  PROVE  MessageFlow(t)
<1>1. ASSUME NEW w \in Workers, Runs(w, t)'
      PROVE  Queued(t) \/ Taken(t)
  <2>1. WorkerEffect(w) /\ worker'[w].step # "idle" /\ worker'[w].job.kind = "run"
        /\ worker'[w].job.task = t
    BY <1>1, WorkerSteps DEF WorkerOk, Runs
  <2>2. CASE Same(w) \/ Loads(w)
    <3>1. Runs(w, t)
      BY <2>1, <2>2 DEF Same, Loads, Runs
    <3> QED BY <3>1 DEF Taken
  <2>3. CASE Delivered(w)
    BY <2>1, <2>3 DEF Delivered, Queued
  <2>4. ~Scheduled(w) /\ ~JobEnds(w) /\ ~RunEnds(w)
    BY <2>1 DEF Scheduled, JobEnds, RunEnds, Idle
  <2> QED BY <2>1, <2>2, <2>3, <2>4 DEF WorkerEffect
<1>2. ASSUME NEW w \in Workers, Runs(w, t)
      PROVE  \/ Taken(t)' \/ Queued(t)' \/ t \in lost'
             \/ \E v \in Workers : Completed(v, t) \/ Failed(v, t)
  <2>1. WorkerEffect(w) /\ worker[w].step # "idle" /\ worker[w].job.kind = "run"
        /\ worker[w].job.task = t
    BY <1>2, WorkerSteps DEF WorkerOk, Runs
  <2>2. CASE Same(w) \/ Loads(w)
    <3>1. Runs(w, t)'
      BY <2>1, <2>2 DEF Same, Loads, Runs
    <3> QED BY <3>1 DEF Taken
  <2>3. ~Delivered(w) /\ ~Scheduled(w) /\ ~JobEnds(w)
    BY <2>1 DEF Delivered, Scheduled, JobEnds
  <2>4. CASE RunEnds(w)
    <3>1. CASE Complete(w) \/ MarkFailed(w)
      BY <1>2, <3>1, OutcomeIsWritten
    <3>2. CASE Retry(w)
      BY <1>2, <3>2, RetryIsQueued DEF Retry
    <3>3. CASE CompletionRaises(w)
      <4>1. worker'[w] = Idle
        BY <2>4 DEF RunEnds
      <4>2. queue' = RetryMessage(worker[w].job)
        <5>1. worker \in [Workers -> WorkerState]
          BY DEF Shape, TypeOK
        <5> QED BY <3>3, <4>1, <5>1 DEF CompletionRaises, Idle, WorkerState
      <4> QED BY <1>2, <4>2, RetryIsQueued
    <3> QED BY <2>1, <2>4, <3>1, <3>2, <3>3 DEF RunEnds
  <2> QED BY <2>1, <2>2, <2>3, <2>4 DEF WorkerEffect
<1> QED BY <1>1, <1>2, Arrivals, Deliveries DEF MessageFlow, Taken
-----------------------------------------------------------------------------
(* Nothing is dropped, and no offer is refreshed twice at a time *)

\* A message or a run of a task is there only after its publication.
Begun ==
  \A t \in Tasks : Queued(t) \/ Taken(t) => enqueuer[t].step \in {"raised", "markingFailed", "done"}

\* There is no row before it is saved.
Fresh == \A t \in Tasks : enqueuer[t].step \in {"new", "saving"} => task[t].status = "ABSENT"

\* A task that was read with an outcome is not in progress again when it is written.
ReadWithOutcome ==
  \A t \in Tasks :
    /\ enqueuer[t].step = "markingFailed" /\ enqueuer[t].loaded.status # "IN_PROGRESS"
         => task[t].status # "IN_PROGRESS"
    /\ \A w \in Workers :
         Runs(w, t) /\ worker[w].step \in {"completing", "failing"}
             /\ worker[w].loaded.status # "IN_PROGRESS"
           => task[t].status # "IN_PROGRESS"

IInv == Shape /\ Begun /\ Fresh /\ ReadWithOutcome /\ OneActiveRefresh /\ Accounted

\* Only its creation puts a task in progress.
LEMMA OnlySaveStarts ==
  ASSUME Shape, [Next]_vars, NEW t \in Tasks,
         task'[t].status = "IN_PROGRESS", task[t].status # "IN_PROGRESS"
  PROVE  Save(t)
<1>1. TaskEffect(t) /\ task[t] \in TaskRow
  BY TaskSteps DEF Shape, TypeOK
<1>2. ASSUME NEW loaded, NEW written, written.status \in {"COMPLETED", "FAILED"},
             task'[t] = Flush(task[t], loaded, written)
      PROVE  FALSE
  BY <1>1, <1>2 DEF Flush, TaskRow
<1>3. ASSUME NEW r \in TaskRow, NEW e \in Errors
      PROVE  CompletedRow(r).status = "COMPLETED" /\ FailedRow(r, e).status = "FAILED"
  BY DEF CompletedRow, FailedRow, TaskRow
<1>4. ~FailedPush(t)
  <2>1. enqueuer[t].loaded \in TaskRow
    BY DEF Shape, TypeOK, Enqueuer
  <2> QED BY <1>2, <1>3, <2>1 DEF FailedPush, Errors
<1>5. ASSUME NEW w \in Workers
      PROVE  ~Completed(w, t) /\ ~Failed(w, t)
  BY <1>2, <1>3, JobType DEF Completed, Failed, Errors
<1> QED BY <1>1, <1>4, <1>5 DEF TaskEffect, FailedAsStale, Aged

LEMMA LostStays ==
  ASSUME [Next]_vars
  PROVE  lost \subseteq lost'
BY DEF Next, vars, Tick, Beat, EnqueuerNext, Request, Save, SaveRefused, Push, PushRaises,
       LoadAfterPush, MarkPushFailed, EnqueuerDies, WorkerNext, Deliver, HandlerReturns,
       Complete, Retry, GiveUp, MarkFailed, CompletionRaises, ReportLost, Kill,
       MarkStale, ScheduleRefresh, ScheduleEnds, SkipActive, CheckInactive

LEMMA BegunKept ==
  ASSUME IInv, [Next]_vars
  PROVE  Begun'
<1> SUFFICES ASSUME NEW t \in Tasks, Queued(t)' \/ Taken(t)'
             PROVE  enqueuer'[t].step \in {"raised", "markingFailed", "done"}
  BY DEF Begun
<1>1. MessageFlow(t) /\ EnqueuerEffect(t)
  BY MessagesFlow, EnqueuerSteps DEF IInv, EnqueuerOk
<1>2. CASE Queued(t) \/ Taken(t)
  <2>1. enqueuer[t].step \in {"raised", "markingFailed", "done"}
    BY <1>2 DEF IInv, Begun
  <2> QED BY <1>1, <2>1 DEF EnqueuerEffect, Requested, Advanced, Concluded
<1> QED BY <1>1, <1>2 DEF MessageFlow

LEMMA FreshKept ==
  ASSUME IInv, [Next]_vars
  PROVE  Fresh'
<1> SUFFICES ASSUME NEW t \in Tasks, enqueuer'[t].step \in {"new", "saving"}
             PROVE  task'[t].status = "ABSENT"
  BY DEF Fresh
<1>1. EnqueuerEffect(t) /\ TaskEffect(t)
  BY EnqueuerSteps, TaskSteps DEF IInv, EnqueuerOk
<1>2. enqueuer[t].step \in {"new", "saving"}
  BY <1>1 DEF EnqueuerEffect, Requested, Advanced, Concluded
<1>3. task[t].status = "ABSENT" /\ ~Taken(t)
  BY <1>2 DEF IInv, Fresh, Begun
<1>4. ~Save(t) /\ ~FailedPush(t)
  <2>1. enqueuer \in [Tasks -> Enqueuer]
    BY DEF IInv, Shape, TypeOK
  <2>2. Save(t) => enqueuer'[t].step = "pushing"
    BY <2>1 DEF Save, Enqueuer
  <2> QED BY <1>2, <2>2 DEF FailedPush, MarkPushFailed
<1>5. \A w \in Workers : ~Completed(w, t) /\ ~Failed(w, t)
  BY <1>3 DEF Completed, Failed, Taken
<1> QED BY <1>1, <1>3, <1>4, <1>5 DEF TaskEffect, FailedAsStale, Aged

LEMMA ReadWithOutcomeKept ==
  ASSUME IInv, [Next]_vars
  PROVE  ReadWithOutcome'
<1> SUFFICES ASSUME NEW t \in Tasks
             PROVE  /\ /\ enqueuer'[t].step = "markingFailed"
                       /\ enqueuer'[t].loaded.status # "IN_PROGRESS"
                       => task'[t].status # "IN_PROGRESS"
                    /\ \A w \in Workers :
                         /\ Runs(w, t)' /\ worker'[w].step \in {"completing", "failing"}
                         /\ worker'[w].loaded.status # "IN_PROGRESS"
                         => task'[t].status # "IN_PROGRESS"
  BY DEF ReadWithOutcome
<1>0. Shape /\ EnqueuerEffect(t)
  BY EnqueuerSteps DEF IInv, EnqueuerOk
<1>1. ASSUME enqueuer'[t].step = "markingFailed",
             enqueuer'[t].loaded.status # "IN_PROGRESS"
      PROVE  task'[t].status # "IN_PROGRESS"
  <2>1. CASE enqueuer'[t] = enqueuer[t]
    <3>1. task[t].status # "IN_PROGRESS" /\ ~Save(t)
      BY <1>1, <2>1 DEF IInv, ReadWithOutcome, Save
    <3> QED BY <1>0, <3>1, OnlySaveStarts
  <2>2. CASE Advanced(t)
    BY <1>1, <2>2 DEF Advanced, LoadAfterPush
  <2>3. ~Requested(t) /\ ~Concluded(t)
    BY <1>1 DEF Requested, Concluded
  <2> QED BY <1>0, <2>1, <2>2, <2>3 DEF EnqueuerEffect
<1>2. ASSUME NEW w \in Workers, Runs(w, t)', worker'[w].step \in {"completing", "failing"},
             worker'[w].loaded.status # "IN_PROGRESS"
      PROVE  task'[t].status # "IN_PROGRESS"
  <2>1. WorkerEffect(w)
    BY <1>0, WorkerSteps DEF WorkerOk
  <2>2. CASE Same(w)
    <3>1. Runs(w, t) /\ worker[w].step \in {"completing", "failing"}
          /\ worker[w].loaded.status # "IN_PROGRESS"
      BY <1>2, <2>2 DEF Same, Runs
    <3>2. task[t].status # "IN_PROGRESS" /\ ~Save(t)
      BY <3>1 DEF IInv, ReadWithOutcome, Begun, Taken, Save
    <3> QED BY <1>0, <3>2, OnlySaveStarts
  <2>3. CASE Loads(w)
    BY <1>2, <2>3 DEF Loads, Runs
  <2>4. ~Delivered(w) /\ ~Scheduled(w) /\ ~JobEnds(w) /\ ~RunEnds(w)
    BY <1>2 DEF Delivered, Scheduled, JobEnds, RunEnds, Idle
  <2> QED BY <2>1, <2>2, <2>3, <2>4 DEF WorkerEffect
<1> QED BY <1>1, <1>2

LEMMA OneActiveRefreshKept ==
  ASSUME IInv, [Next]_vars
  PROVE  OneActiveRefresh'
<1> SUFFICES ASSUME NEW t \in Tasks, NEW u \in Tasks,
                    task'[t].status = "IN_PROGRESS", task'[u].status = "IN_PROGRESS",
                    OfferOf[t] = OfferOf[u], OfferOf[t] # NoOffer, t # u
             PROVE  FALSE
  BY DEF OneActiveRefresh
<1>0. Shape
  BY DEF IInv
\* The index refuses the second of two.
<1>1. ASSUME NEW x \in Tasks, NEW y \in Tasks, Save(x), x # y,
             task'[y].status = "IN_PROGRESS",
             OfferOf[x] = OfferOf[y], OfferOf[x] # NoOffer
      PROVE  FALSE
  <2>1. task'[y] = task[y]
    BY <1>0, <1>1 DEF Save, Shape, TypeOK
  <2> QED BY <1>1, <2>1 DEF Save, SaveAllowed, Active
<1>2. CASE task[t].status = "IN_PROGRESS" /\ task[u].status = "IN_PROGRESS"
  BY <1>2 DEF IInv, OneActiveRefresh
<1> QED BY <1>0, <1>1, <1>2, OnlySaveStarts

LEMMA AccountedKept ==
  ASSUME IInv, [Next]_vars
  PROVE  Accounted'
<1> SUFFICES ASSUME NEW t \in Tasks, task'[t].status = "IN_PROGRESS", t \notin lost'
             PROVE  Owned(t)'
  BY DEF Accounted
<1>0. Shape /\ EnqueuerEffect(t) /\ MessageFlow(t)
  BY EnqueuerSteps, MessagesFlow DEF IInv, EnqueuerOk
<1>1. Owned(t)' <=> \/ enqueuer'[t].step \in {"pushing", "raised", "markingFailed"}
                    \/ Queued(t)' \/ Taken(t)'
  BY DEF Owned, Queued, Taken
<1>2. CASE task[t].status # "IN_PROGRESS"
  <2>1. Save(t) /\ enqueuer \in [Tasks -> Enqueuer]
    BY <1>0, <1>2, OnlySaveStarts DEF Shape, TypeOK
  <2>2. enqueuer'[t].step = "pushing"
    BY <2>1 DEF Save, Enqueuer
  <2> QED BY <1>1, <2>2
<1>3. CASE task[t].status = "IN_PROGRESS"
  <2>1. \/ enqueuer[t].step \in {"pushing", "raised", "markingFailed"}
        \/ Queued(t) \/ Taken(t)
    BY <1>3, LostStays DEF IInv, Accounted, Owned, Queued, Taken
  <2>2. \A r \in TaskRow, e \in Errors :
          CompletedRow(r).status = "COMPLETED" /\ FailedRow(r, e).status = "FAILED"
    BY DEF CompletedRow, FailedRow, TaskRow
  <2>3. task[t] \in TaskRow /\ enqueuer[t].loaded \in TaskRow
    BY <1>0 DEF Shape, TypeOK, Enqueuer
  <2>4. CASE enqueuer[t].step \in {"pushing", "raised", "markingFailed"}
    <3>1. ~MarkPushFailed(t)
      <4> SUFFICES ASSUME MarkPushFailed(t) PROVE FALSE
        OBVIOUS
      <4>1. task'[t] = Flush(task[t], enqueuer[t].loaded, FailedRow(enqueuer[t].loaded, "push"))
        BY <1>0 DEF MarkPushFailed, Shape, TypeOK
      <4>2. FailedRow(enqueuer[t].loaded, "push").status = "FAILED"
        BY <2>2, <2>3 DEF Errors
      <4>3. enqueuer[t].loaded.status = "FAILED"
        BY <2>3, <4>1, <4>2 DEF Flush, TaskRow
      <4> QED BY <1>3, <4>3 DEF IInv, ReadWithOutcome, MarkPushFailed
    <3>2. Push(t) => Queued(t)'
      <4>1. Run(t, 0).kind = "run" /\ Run(t, 0).task = t
        BY DEF Run
      <4> QED BY <4>1 DEF Push, Queued
    <3> QED BY <1>0, <1>1, <2>4, <3>1, <3>2
            DEF EnqueuerEffect, Requested, Advanced, Concluded
  <2>5. CASE Queued(t)
    BY <1>0, <1>1, <2>5 DEF MessageFlow
  <2>6. CASE Taken(t)
    <3>1. ASSUME NEW w \in Workers, Completed(w, t) \/ Failed(w, t)
          PROVE  FALSE
      <4>1. PICK written : /\ task'[t] = Flush(task[t], worker[w].loaded, written)
                           /\ written.status \in {"COMPLETED", "FAILED"}
        BY <1>0, <2>2, <3>1, JobType DEF Completed, Failed, Errors
      <4>2. worker[w].loaded.status # "IN_PROGRESS"
        BY <2>3, <4>1 DEF Flush, TaskRow
      <4> QED BY <1>3, <3>1, <4>2 DEF Completed, Failed, IInv, ReadWithOutcome
    <3> QED BY <1>0, <1>1, <2>6, <3>1 DEF MessageFlow
  <2> QED BY <2>1, <2>4, <2>5, <2>6
<1> QED BY <1>2, <1>3

LEMMA Invariance == Spec => []IInv
<1>1. Init => IInv
  <2> SUFFICES ASSUME Init PROVE IInv
    OBVIOUS
  <2>1. /\ \A t \in Tasks : enqueuer[t].step = "new" /\ task[t].status = "ABSENT"
        /\ queue = {} /\ \A w \in Workers : worker[w].step = "idle"
    BY DEF Init, AbsentRow, NewRow, Idle
  <2> QED BY <2>1, ShapeInitially
          DEF IInv, Begun, Fresh, ReadWithOutcome, OneActiveRefresh, Accounted, Queued, Taken, Runs
<1>2. IInv /\ [Next]_vars => IInv'
  <2>1. IInv /\ [Next]_vars => Shape'
    BY ShapeKept DEF IInv
  <2> QED BY <2>1, BegunKept, FreshKept, ReadWithOutcomeKept, OneActiveRefreshKept, AccountedKept
          DEF IInv
<1> QED BY <1>1, <1>2, PTL DEF Spec

\* Two refreshes of one offer are never active at once, whatever threads check and
\* save: the partial unique index is enough.
THEOREM RefreshesAreUnique == Spec => []OneActiveRefresh
<1>1. IInv => OneActiveRefresh
  BY DEF IInv
<1> QED BY <1>1, Invariance, PTL

\* A task in progress has a thread, a message or a worker, or a crash, the time
\* limit or a failed write took it away.
THEOREM NothingIsDropped == Spec => []Accounted
<1>1. IInv => Accounted
  BY DEF IInv
<1> QED BY <1>1, Invariance, PTL
-----------------------------------------------------------------------------
(* A completed task stays completed *)

Of(m, t) == m.kind = "run" /\ m.task = t

\* Unless something was in doubt, one thread, message or worker at most has a
\* task, and nobody has a completed one.
Sole(t) ==
  /\ enqueuer[t].step \notin {"raised", "markingFailed"}
  /\ \A m, n \in queue : Of(m, t) /\ Of(n, t) => m = n
  /\ \A v, w \in Workers : Runs(v, t) /\ Runs(w, t) => v = w
  /\ ~(Queued(t) /\ Taken(t))

CompletedIsFree(t) == task[t].status = "COMPLETED" => ~Owned(t)

Undoubted == \A t \in Tasks \ ambiguous : Sole(t) /\ CompletedIsFree(t)

LEMMA DoubtStays ==
  ASSUME [Next]_vars
  PROVE  ambiguous \subseteq ambiguous'
BY DEF Next, vars, Tick, Beat, EnqueuerNext, Request, Save, SaveRefused, Push, PushRaises,
       LoadAfterPush, MarkPushFailed, EnqueuerDies, WorkerNext, Deliver, HandlerReturns,
       Complete, Retry, GiveUp, MarkFailed, CompletionRaises, ReportLost, Kill,
       MarkStale, ScheduleRefresh, ScheduleEnds, SkipActive, CheckInactive

\* Where a message of an undoubted task comes from.
LEMMA MessageSource ==
  ASSUME Shape, [Next]_vars, NEW t \in Tasks, t \notin ambiguous',
         NEW m \in queue', m \notin queue, Of(m, t)
  PROVE  \/ Push(t) /\ m = Run(t, 0)
         \/ \E w \in Workers : /\ Runs(w, t) /\ Retry(w)
                               /\ m = Run(t, worker[w].job.retries + 1)
<1> DEFINE Goal == \/ Push(t) /\ m = Run(t, 0)
                   \/ \E w \in Workers : /\ Runs(w, t) /\ Retry(w)
                                         /\ m = Run(t, worker[w].job.retries + 1)
<1>1. ASSUME NEW u \in Tasks, Push(u) \/ PushRaises(u)
      PROVE  Goal
  <2>1. m = Run(u, 0)
    BY <1>1 DEF Push, PushRaises
  <2>2. u = t
    BY <2>1 DEF Of, Run
  <2>3. ~PushRaises(t)
    BY DEF PushRaises
  <2> QED BY <1>1, <2>1, <2>2, <2>3
<1>2. ASSUME NEW w \in Workers, Retry(w) \/ CompletionRaises(w)
      PROVE  Goal
  <2>1. worker[w].step # "idle" /\ worker[w].job.kind = "run"
    BY <1>2 DEF Retry, CompletionRaises, Running, Shape, JobShape, Shaped
  <2>2. m = Run(worker[w].job.task, worker[w].job.retries + 1)
    BY <1>2 DEF Retry, CompletionRaises, RetryMessage
  <2>3. worker[w].job.task = t
    BY <2>2 DEF Of, Run
  <2>4. ~CompletionRaises(w)
    BY <2>3 DEF CompletionRaises
  <2> QED BY <1>2, <2>1, <2>2, <2>3, <2>4 DEF Runs
<1>3. ASSUME NEW n \in {Cleanup, Schedule}, Beat(n)
      PROVE  FALSE
  BY <1>3 DEF Beat, Of, Cleanup, Schedule
<1> QED
  BY <1>1, <1>2, <1>3
     DEF Next, vars, Tick, EnqueuerNext, Request, Save, SaveRefused, LoadAfterPush,
         MarkPushFailed, EnqueuerDies, WorkerNext, Deliver, HandlerReturns, Complete,
         GiveUp, MarkFailed, ReportLost, Kill,
         MarkStale, ScheduleRefresh, ScheduleEnds, SkipActive, CheckInactive

\* Where a run of a task comes from.
LEMMA RunSource ==
  ASSUME Shape, [Next]_vars, NEW t \in Tasks, NEW w \in Workers, Runs(w, t)', ~Runs(w, t)
  PROVE  /\ worker'[w].job \in queue /\ Of(worker'[w].job, t) /\ Deliver(w, worker'[w].job)
         /\ \A v \in Workers : v # w => worker'[v] = worker[v]
<1>1. /\ WorkerEffect(w) /\ worker'[w].step # "idle" /\ Of(worker'[w].job, t)
      /\ worker \in [Workers -> WorkerState]
  BY WorkerSteps DEF WorkerOk, Runs, Of, Shape, TypeOK
<1>2. ~Same(w) /\ ~Loads(w)
  BY <1>1 DEF Same, Loads, Runs, Of
<1>3. ~Scheduled(w) /\ ~JobEnds(w) /\ ~RunEnds(w)
  BY <1>1 DEF Scheduled, JobEnds, RunEnds, Idle, Of
<1>4. worker'[w].job \in queue /\ Deliver(w, worker'[w].job)
  BY <1>1, <1>2, <1>3 DEF WorkerEffect, Delivered
<1>5. \A v \in Workers : v # w => worker'[v] = worker[v]
  BY <1>1, <1>4 DEF Deliver
<1> QED BY <1>1, <1>4, <1>5

LEMMA SoleKept ==
  ASSUME IInv, Undoubted, [Next]_vars, NEW t \in Tasks, t \notin ambiguous'
  PROVE  Sole(t)'
<1>0. Shape /\ Sole(t) /\ EnqueuerEffect(t) /\ t \notin ambiguous
  BY DoubtStays, EnqueuerSteps DEF IInv, Undoubted, EnqueuerOk
<1>1. enqueuer[t].step = "pushing" => ~Queued(t) /\ ~Taken(t)
  BY DEF IInv, Begun
<1>2. enqueuer'[t].step \notin {"raised", "markingFailed"}
  <2>1. ~PushRaises(t)
    BY DEF PushRaises
  <2> QED BY <1>0, <2>1 DEF Sole, EnqueuerEffect, Requested, Advanced, Concluded
<1>3. ASSUME NEW m \in queue', Of(m, t), m \notin queue
      PROVE  ~Queued(t)
  <2>1. CASE Push(t)
    BY <1>1, <2>1 DEF Push
  <2>2. CASE \E w \in Workers : Runs(w, t)
    BY <1>0, <2>2 DEF Sole, Taken
  <2> QED BY <1>0, <1>3, <2>1, <2>2, MessageSource
<1>4. ASSUME NEW m \in queue', NEW n \in queue', Of(m, t), Of(n, t)
      PROVE  m = n
  <2>1. CASE m \in queue /\ n \in queue
    BY <1>0, <1>4, <2>1 DEF Sole
  <2>2. CASE ~(m \in queue /\ n \in queue)
    <3>1. m \notin queue /\ n \notin queue
      BY <1>3, <1>4, <2>2 DEF Queued, Of
    <3>2. CASE Push(t)
      <4>1. ~Taken(t)
        BY <1>1, <3>2 DEF Push
      <4>2. m = Run(t, 0) /\ n = Run(t, 0)
        BY <1>0, <1>4, <3>1, <4>1, MessageSource DEF Taken
      <4> QED BY <4>2
    <3>3. CASE ~Push(t)
      <4>1. PICK v \in Workers : Runs(v, t) /\ m = Run(t, worker[v].job.retries + 1)
        BY <1>0, <1>4, <3>1, <3>3, MessageSource
      <4>2. PICK w \in Workers : Runs(w, t) /\ n = Run(t, worker[w].job.retries + 1)
        BY <1>0, <1>4, <3>1, <3>3, MessageSource
      <4>3. v = w
        BY <1>0, <4>1, <4>2 DEF Sole
      <4> QED BY <4>1, <4>2, <4>3
    <3> QED BY <3>2, <3>3
  <2> QED BY <2>1, <2>2
<1>5. ASSUME NEW v \in Workers, NEW w \in Workers, Runs(v, t)', Runs(w, t)', ~Runs(w, t)
      PROVE  v = w
  <2> SUFFICES ASSUME v # w PROVE FALSE
    OBVIOUS
  <2>1. Queued(t) /\ worker'[v] = worker[v]
    BY <1>0, <1>5, RunSource DEF Queued, Of
  <2>2. Taken(t)
    BY <1>5, <2>1 DEF Taken, Runs
  <2> QED BY <1>0, <2>1, <2>2 DEF Sole
<1>6. ASSUME NEW v \in Workers, NEW w \in Workers, Runs(v, t)', Runs(w, t)'
      PROVE  v = w
  BY <1>0, <1>5, <1>6 DEF Sole
<1>7. ASSUME NEW m \in queue', Of(m, t), NEW w \in Workers, Runs(w, t)'
      PROVE  FALSE
  <2>1. CASE Runs(w, t)
    <3>1. ~Queued(t) /\ m \notin queue
      BY <1>0, <1>7, <2>1 DEF Sole, Taken, Queued, Of
    <3>2. ~Push(t)
      BY <1>1, <2>1 DEF Push, Taken
    <3>3. PICK v \in Workers : Runs(v, t) /\ Retry(v)
      BY <1>0, <1>7, <3>1, <3>2, MessageSource
    <3>4. v = w /\ worker \in [Workers -> WorkerState]
      BY <1>0, <2>1, <3>3 DEF Sole, Shape, TypeOK
    <3>5. worker'[w] = Idle
      BY <3>3, <3>4 DEF Retry, Release
    <3> QED BY <1>7, <3>5 DEF Runs, Idle
  <2>2. CASE ~Runs(w, t)
    <3>1. /\ worker'[w].job \in queue /\ Of(worker'[w].job, t)
          /\ Deliver(w, worker'[w].job)
      BY <1>0, <1>7, <2>2, RunSource
    <3>2. queue' = queue \ {worker'[w].job}
      BY <3>1 DEF Deliver, Of
    <3> QED BY <1>0, <1>7, <3>1, <3>2 DEF Sole
  <2> QED BY <2>1, <2>2
<1>8. ~(Queued(t)' /\ Taken(t)')
  BY <1>7 DEF Queued, Taken, Of
<1>9. \A m, n \in queue' : Of(m, t) /\ Of(n, t) => m = n
  BY <1>4
<1>10. \A v, w \in Workers : Runs(v, t)' /\ Runs(w, t)' => v = w
  BY <1>6
<1> QED BY <1>2, <1>8, <1>9, <1>10 DEF Sole, Of

LEMMA CompletedIsFreeKept ==
  ASSUME IInv, Undoubted, [Next]_vars, NEW t \in Tasks, t \notin ambiguous'
  PROVE  CompletedIsFree(t)'
<1> SUFFICES ASSUME task'[t].status = "COMPLETED" PROVE ~Owned(t)'
  BY DEF CompletedIsFree
<1>0. /\ Shape /\ Sole(t) /\ CompletedIsFree(t) /\ EnqueuerEffect(t) /\ MessageFlow(t)
      /\ TaskEffect(t) /\ task \in [Tasks -> TaskRow] /\ task[t] \in TaskRow
  BY DoubtStays, EnqueuerSteps, MessagesFlow, TaskSteps
     DEF IInv, Undoubted, EnqueuerOk, Shape, TypeOK
<1>1. \A x \in Tasks :
        Owned(x) <=> \/ enqueuer[x].step \in {"pushing", "raised", "markingFailed"}
                     \/ Queued(x) \/ Taken(x)
  BY DEF Owned, Queued, Taken
<1>2. Owned(t)' <=> \/ enqueuer'[t].step \in {"pushing", "raised", "markingFailed"}
                    \/ Queued(t)' \/ Taken(t)'
  BY DEF Owned, Queued, Taken
<1>3. CASE task[t].status = "COMPLETED"
  <2>1. /\ enqueuer[t].step \notin {"pushing", "raised", "markingFailed"}
        /\ ~Queued(t) /\ ~Taken(t)
    BY <1>0, <1>1, <1>3 DEF CompletedIsFree
  <2>2. enqueuer[t].step # "saving"
    BY <1>3 DEF IInv, Fresh
  <2>3. enqueuer'[t].step \notin {"pushing", "raised", "markingFailed"}
    BY <1>0, <2>1, <2>2 DEF EnqueuerEffect, Requested, Advanced, Concluded
  <2> QED BY <1>0, <1>2, <2>1, <2>3 DEF MessageFlow
<1>4. CASE task[t].status # "COMPLETED"
  <2>1. task'[t] # task[t] /\ task'[t] # NewRow /\ ~FailedPush(t) /\ ~Aged(t)
    BY <1>0, <1>4 DEF NewRow, Sole, FailedPush, MarkPushFailed, Aged, TaskRow
  <2>2. ASSUME NEW w \in Workers
        PROVE  ~Failed(w, t) /\ ~FailedAsStale(w, t)
    <3>1. \A r \in TaskRow, e \in Errors : FailedRow(r, e).status = "FAILED"
      BY DEF FailedRow, TaskRow
    <3>2. ASSUME Failed(w, t)
          PROVE  FALSE
      <4>1. PICK written : /\ task'[t] = Flush(task[t], worker[w].loaded, written)
                           /\ written.status = "FAILED"
        BY <1>0, <3>1, <3>2, JobType DEF Failed, Errors
      <4> QED BY <1>0, <1>4, <4>1 DEF Flush, TaskRow
    <3>3. ~FailedAsStale(w, t)
      BY <1>0, <1>4 DEF FailedAsStale, FailedRow, TaskRow
    <3> QED BY <3>2, <3>3
  <2>3. PICK w \in Workers : Completed(w, t)
    BY <1>0, <2>1, <2>2 DEF TaskEffect
  <2>4. Runs(w, t) /\ Complete(w)
    BY <2>3 DEF Completed, CompletionRaises, Runs
  <2>5. worker'[w] = Idle /\ queue' = queue /\ enqueuer' = enqueuer
    BY <1>0, <2>4 DEF Complete, Release, Shape, TypeOK
  <2>6. ~Queued(t) /\ enqueuer[t].step = "done"
    BY <1>0, <2>4 DEF Sole, Taken, IInv, Begun
  <2>7. ~Queued(t)'
    BY <2>5, <2>6 DEF Queued
  <2>8. ASSUME NEW v \in Workers, Runs(v, t)'
        PROVE  FALSE
    <3>1. Runs(v, t)
      BY <1>0, <2>6, <2>8, RunSource DEF Queued, Of
    <3>2. v = w
      BY <1>0, <2>4, <3>1 DEF Sole
    <3> QED BY <2>5, <2>8, <3>2 DEF Runs, Idle
  <2> QED BY <1>2, <2>5, <2>6, <2>7, <2>8 DEF Taken
<1> QED BY <1>3, <1>4

LEMMA UndoubtedAlways == Spec => []Undoubted
<1>1. Init => Undoubted
  <2> SUFFICES ASSUME Init PROVE Undoubted
    OBVIOUS
  <2>1. /\ \A t \in Tasks : enqueuer[t].step = "new" /\ task[t].status = "ABSENT"
        /\ queue = {} /\ \A w \in Workers : worker[w].step = "idle"
    BY DEF Init, AbsentRow, NewRow, Idle
  <2> QED BY <2>1 DEF Undoubted, Sole, CompletedIsFree, Queued, Taken, Runs
<1>2. IInv /\ Undoubted /\ [Next]_vars => Undoubted'
  BY SoleKept, CompletedIsFreeKept DEF Undoubted
<1> QED BY <1>1, <1>2, Invariance, PTL DEF Spec

\* COMPLETED is final for any number of workers, unless the message or the commit
\* was in doubt: retries, failures and the cleanup never come after a completion.
THEOREM CompletionIsFinal == Spec => CompletedIsFinal
<1>1. ASSUME IInv, Undoubted, [Next]_vars, NEW t \in Tasks \ ambiguous',
             task[t].status = "COMPLETED"
      PROVE  task'[t].status = "COMPLETED"
  <2>1. TaskEffect(t) /\ Sole(t) /\ ~Owned(t)
    BY <1>1, DoubtStays, TaskSteps DEF IInv, Undoubted, CompletedIsFree
  <2>2. ~Save(t) /\ ~FailedPush(t) /\ ~Aged(t)
    BY <1>1, <2>1 DEF IInv, Fresh, Save, FailedPush, MarkPushFailed, Sole, Aged
  <2>3. \A w \in Workers : ~Completed(w, t) /\ ~Failed(w, t) /\ ~FailedAsStale(w, t)
    BY <1>1, <2>1 DEF Completed, Failed, FailedAsStale, Owned
  <2> QED BY <1>1, <2>1, <2>2, <2>3 DEF TaskEffect
<1>2. IInv /\ Undoubted /\ [Next]_vars =>
        [\A t \in Tasks \ ambiguous' :
           task[t].status = "COMPLETED" => task'[t].status = "COMPLETED"]_vars
  BY <1>1
<1> QED BY <1>2, Invariance, UndoubtedAlways, PTL DEF Spec, CompletedIsFinal
-----------------------------------------------------------------------------
(* With the one worker of the deployment, the columns of a row tell one story. *)

Alone == \A v, w \in Workers : v = w

\* A row that was never saved is one that was not completed.
Story(r) ==
  /\ r.completed <=> r.status = "COMPLETED"
  /\ r.status \in {"COMPLETED", "IN_PROGRESS"} => r.error = "none"
  /\ r.status = "FAILED" => r.error # "none"

\* Nobody writes a row that a worker has read.
ReadIsCurrent(w, t) ==
  Runs(w, t) /\ worker[w].step \in {"completing", "failing"} =>
    /\ worker[w].loaded.status = task[t].status
    /\ worker[w].loaded.completed = task[t].completed
    /\ worker[w].loaded.error = task[t].error

OneStory ==
  \A t \in Tasks \ ambiguous : Story(task[t]) /\ \A w \in Workers : ReadIsCurrent(w, t)

LEMMA StoryKept ==
  ASSUME IInv, Undoubted, OneStory, [Next]_vars, NEW t \in Tasks, t \notin ambiguous'
  PROVE  Story(task'[t])
<1>0. /\ Shape /\ Sole(t) /\ CompletedIsFree(t) /\ TaskEffect(t) /\ Story(task[t])
      /\ task[t] \in TaskRow /\ \A w \in Workers : ReadIsCurrent(w, t)
  BY DoubtStays, TaskSteps DEF IInv, Undoubted, OneStory, Shape, TypeOK
<1>1. CASE task'[t] = task[t]
  BY <1>0, <1>1 DEF Story
<1>2. CASE task'[t] = NewRow
  BY <1>2 DEF Story, NewRow
<1>3. ~FailedPush(t)
  BY <1>0 DEF Sole, FailedPush, MarkPushFailed
<1>4. ASSUME NEW w \in Workers, Completed(w, t)
      PROVE  Story(task'[t])
  <2>1. worker[w].loaded.status = task[t].status /\ worker[w].loaded.error = task[t].error
    BY <1>0, <1>4 DEF Completed, ReadIsCurrent
  <2>2. worker[w].loaded \in TaskRow
    BY <1>0, JobType
  <2>3. task'[t].status = "COMPLETED" /\ task'[t].completed /\ task'[t].error = "none"
    BY <1>0, <1>4, <2>1, <2>2 DEF Completed, Flush, CompletedRow, TaskRow
  <2> QED BY <2>3 DEF Story
<1>5. ASSUME NEW w \in Workers, Failed(w, t)
      PROVE  Story(task'[t])
  <2>1. /\ worker[w].loaded.status = task[t].status
        /\ worker[w].loaded.completed = task[t].completed
        /\ worker[w].loaded.error = task[t].error /\ worker[w].loaded \in TaskRow
    BY <1>0, <1>5, JobType DEF Failed, ReadIsCurrent
  <2>2. task[t].status # "COMPLETED" /\ ~task[t].completed
    BY <1>0, <1>5 DEF Failed, CompletedIsFree, Owned, Story
  <2>3. task'[t].status = "FAILED" /\ ~task'[t].completed /\ task'[t].error = "run"
    BY <1>0, <1>5, <2>1, <2>2 DEF Failed, Flush, FailedRow, TaskRow
  <2> QED BY <2>3 DEF Story
<1>6. ASSUME NEW w \in Workers, FailedAsStale(w, t)
      PROVE  Story(task'[t])
  <2>1. task'[t].status = "FAILED" /\ task'[t].completed = task[t].completed
        /\ task'[t].error = "stale" /\ task[t].status = "IN_PROGRESS"
    BY <1>0, <1>6 DEF FailedAsStale, FailedRow, TaskRow
  <2> QED BY <1>0, <2>1 DEF Story
<1>7. CASE Aged(t)
  <2>1. task'[t].status = task[t].status /\ task'[t].completed = task[t].completed
        /\ task'[t].error = task[t].error
    BY <1>0, <1>7 DEF Aged, TaskRow
  <2> QED BY <1>0, <2>1 DEF Story
<1> QED BY <1>0, <1>1, <1>2, <1>3, <1>4, <1>5, <1>6, <1>7 DEF TaskEffect

LEMMA ReadIsCurrentKept ==
  ASSUME Alone, IInv, Undoubted, OneStory, [Next]_vars, NEW t \in Tasks, t \notin ambiguous',
         NEW w \in Workers
  PROVE  ReadIsCurrent(w, t)'
<1> SUFFICES ASSUME Runs(w, t)', worker'[w].step \in {"completing", "failing"}
             PROVE  /\ worker'[w].loaded.status = task'[t].status
                    /\ worker'[w].loaded.completed = task'[t].completed
                    /\ worker'[w].loaded.error = task'[t].error
  BY DEF ReadIsCurrent
<1>0. /\ Shape /\ Sole(t) /\ WorkerEffect(w) /\ TaskEffect(t) /\ task[t] \in TaskRow
      /\ ReadIsCurrent(w, t)
  BY DoubtStays, TaskSteps, WorkerSteps DEF IInv, Undoubted, OneStory, Shape, TypeOK, WorkerOk
<1>1. CASE Loads(w)
  BY <1>1 DEF Loads, Runs
<1>2. CASE Same(w)
  <2>1. Runs(w, t) /\ worker[w].step \in {"completing", "failing"}
    BY <1>2 DEF Same, Runs
  <2>2. ~Save(t) /\ ~FailedPush(t)
    BY <1>0, <2>1 DEF IInv, Begun, Taken, Save, Sole, FailedPush, MarkPushFailed
  <2>3. ASSUME NEW v \in Workers, Completed(v, t) \/ Failed(v, t)
        PROVE  FALSE
    <3>1. v = w
      BY DEF Alone
    <3>2. Complete(w) \/ MarkFailed(w)
      BY <2>3, <3>1 DEF Completed, Failed, CompletionRaises, Runs
    <3>3. worker'[w] = Idle
      BY <1>0, <3>2 DEF Complete, MarkFailed, Release, Shape, TypeOK
    <3> QED BY <3>3 DEF Idle
  <2>4. ASSUME NEW v \in Workers, FailedAsStale(v, t)
        PROVE  FALSE
    <3>1. v = w
      BY DEF Alone
    <3> QED BY <2>1, <2>4, <3>1 DEF FailedAsStale, MarkStale, Running
  <2>5. /\ task'[t].status = task[t].status /\ task'[t].completed = task[t].completed
        /\ task'[t].error = task[t].error
    <3>1. CASE Aged(t)
      BY <1>0, <3>1 DEF Aged, TaskRow
    <3> QED BY <1>0, <2>2, <2>3, <2>4, <3>1 DEF TaskEffect
  <2> QED BY <1>0, <1>2, <2>1, <2>5 DEF ReadIsCurrent, Same
<1>3. ~Delivered(w) /\ ~Scheduled(w) /\ ~JobEnds(w) /\ ~RunEnds(w)
  BY DEF Delivered, Scheduled, JobEnds, RunEnds, Idle, Runs
<1> QED BY <1>0, <1>1, <1>2, <1>3 DEF WorkerEffect

\* Status, completion date and error of a task tell one story with the one worker
\* of the deployment: what it reads of a row is still there when it writes it.
THEOREM OutcomesAreConsistent ==
  ASSUME Alone
  PROVE  Spec => []OutcomeConsistent
<1>1. Init => OneStory
  <2> SUFFICES ASSUME Init PROVE OneStory
    OBVIOUS
  <2>1. /\ \A t \in Tasks : task[t] = AbsentRow
        /\ \A w \in Workers : worker[w].step = "idle"
    BY DEF Init, Idle
  <2> QED BY <2>1 DEF OneStory, Story, ReadIsCurrent, AbsentRow, NewRow
<1>2. IInv /\ Undoubted /\ OneStory /\ [Next]_vars => OneStory'
  <2> SUFFICES ASSUME IInv, Undoubted, OneStory, [Next]_vars, NEW t \in Tasks,
                      t \notin ambiguous'
               PROVE  Story(task'[t]) /\ \A w \in Workers : ReadIsCurrent(w, t)'
    BY DEF OneStory, Story
  <2> QED BY StoryKept, ReadIsCurrentKept
<1>3. OneStory => OutcomeConsistent
  BY DEF OneStory, Story, OutcomeConsistent
<1> QED BY <1>1, <1>2, <1>3, Invariance, UndoubtedAlways, PTL DEF Spec
=============================================================================
