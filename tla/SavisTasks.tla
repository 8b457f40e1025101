----------------------------- MODULE SavisTasks -----------------------------
(***************************************************************************)
(* The life of a SAVIS task in the Executor: its row in savis_tasks, its   *)
(* message in the single Celery queue, the threads that create it and the  *)
(* workers that run it.  The cleanup of stale tasks and the hourly         *)
(* schedule of offer refreshes are messages of the same queue, run by the  *)
(* same workers.                                                           *)
(*                                                                         *)
(* A row is saved, its message pushed and its outcome written in separate  *)
(* transactions.  mark_completed and mark_failed load the row and write    *)
(* the columns they changed: load and commit are separate steps.           *)
(***************************************************************************)
EXTENDS Naturals, FiniteSets

CONSTANTS
  Tasks,           \* task ids; bound: no more tasks are created
  Offers,          \* offers that can be refreshed
  NoOffer,         \* what GET_OFFER and GET_OFFERS tasks refresh
  OfferOf,         \* OfferOf[t]: the offer task t refreshes, or NoOffer
  Workers,         \* Celery worker processes (the deployment runs one)
  MaxRetries,      \* retry_kwargs of the Celery tasks
  TimeLimit,       \* task_time_limit
  StaleAfter,      \* STALE_TASK_TIMEOUT
  MaxRedeliveries, \* bound: messages delivered again after their delivery
  MaxFaults        \* bound: crashes, failed transactions and failed publications

ASSUME TaskAssumption ==
  /\ OfferOf \in [Tasks -> Offers \cup {NoOffer}] /\ NoOffer \notin Offers
  /\ "api" \notin Workers /\ "subscriber" \notin Workers
  /\ MaxRetries \in Nat /\ TimeLimit \in Nat \ {0} /\ StaleAfter \in Nat
  /\ MaxRedeliveries \in Nat /\ MaxFaults \in Nat

VARIABLES
  task,          \* task[t]: the row of t in savis_tasks
  enqueuer,      \* enqueuer[t]: how far the thread that creates t has come
  queue,         \* the messages of savis.executor.tasks
  worker,        \* worker[w]: what worker w is doing
  redeliveries,  \* history: how often a delivered message stayed in the queue
  faults,        \* history: infrastructure faults so far
  lost,          \* history: tasks a fault or the time limit took from their owner
  ambiguous      \* history: tasks delivered, published or committed in doubt

vars == <<task, enqueuer, queue, worker, redeliveries, faults, lost, ambiguous>>

Statuses == {"ABSENT", "IN_PROGRESS", "COMPLETED", "FAILED"}
Errors == {"none", "push", "run", "stale"}

\* age: how long ago updated_at is, up to the first stale value.
TaskRow == [status : Statuses, completed : BOOLEAN, error : Errors, age : 0..(StaleAfter + 1)]

Message ==
  [kind : {"run"}, task : Tasks, retries : 0..MaxRetries]
    \cup [kind : {"cleanup", "schedule"}]

NewRow == [status |-> "IN_PROGRESS", completed |-> FALSE, error |-> "none", age |-> 0]
AbsentRow == [NewRow EXCEPT !.status = "ABSENT"]
Run(t, n) == [kind |-> "run", task |-> t, retries |-> n]
Cleanup == [kind |-> "cleanup"]
Schedule == [kind |-> "schedule"]

\* The creating thread: which step, which thread (the event loop of the API, the
\* RabbitMQ subscriber, or a worker that runs the schedule), and the row
\* mark_failed has loaded.
Enqueuer == [step : {"new", "saving", "pushing", "raised", "markingFailed", "done"},
             by : Workers \cup {"api", "subscriber"}, loaded : TaskRow]

\* A worker: its message, the step, its running time, the row it has loaded, and
\* for the schedule the due offers still to look at and the one just looked at.
WorkerState == [step : {"idle", "running", "completing", "failing", "checked", "enqueueing"},
                job : Message, elapsed : 0..TimeLimit, loaded : TaskRow,
                due : SUBSET Offers, offer : Offers \cup {NoOffer}]

Idle == [step |-> "idle", job |-> Cleanup, elapsed |-> 0, loaded |-> AbsentRow,
         due |-> {}, offer |-> NoOffer]

Init ==
  /\ task = [t \in Tasks |-> AbsentRow]
  /\ enqueuer = [t \in Tasks |-> [step |-> "new", by |-> "api", loaded |-> AbsentRow]]
  /\ queue = {}
  /\ worker = [w \in Workers |-> Idle]
  /\ redeliveries = 0 /\ faults = 0 /\ lost = {} /\ ambiguous = {}

Fault == faults < MaxFaults /\ faults' = faults + 1
NoFault == faults' = faults
Release(w) == worker' = [worker EXCEPT ![w] = Idle]

\* What a transaction that loaded a row and changed it leaves in the table: only
\* the columns whose value it changed are written.
Flush(current, loaded, written) ==
  [current EXCEPT
     !.status = IF written.status = loaded.status THEN @ ELSE written.status,
     !.completed = @ \/ written.completed,
     !.error = IF written.error = loaded.error THEN @ ELSE written.error,
     !.age = 0]

\* Faulty: the error of an earlier failure is kept.
CompletedRowKeepsError(row) == [row EXCEPT !.status = "COMPLETED", !.completed = TRUE]

CompletedRow(row) ==
  [row EXCEPT !.status = "COMPLETED", !.completed = TRUE, !.error = "none"]

FailedRow(row, error) == [row EXCEPT !.status = "FAILED", !.error = error]
-----------------------------------------------------------------------------
(* Creating a task: the API thread, or a worker running the schedule *)

Active(o) == \E t \in Tasks : OfferOf[t] = o /\ task[t].status = "IN_PROGRESS"

\* Faulty: nothing but the check of the scheduler prevents a second refresh.
SaveUnchecked(t) == TRUE

\* The partial unique index on active refresh tasks.
SaveAllowed(t) == OfferOf[t] = NoOffer \/ ~Active(OfferOf[t])

\* The tasks in creation by one thread.
CreatedBy(thread) ==
  {t \in Tasks : enqueuer[t].by = thread /\ enqueuer[t].step \notin {"new", "done"}}

\* POST /tasks, any type: the handler blocks the event loop until it answers.
\* The subscriber takes its messages one by one: collections only.
Request(t, thread) ==
  /\ enqueuer[t].step = "new" /\ CreatedBy(thread) = {}
  /\ thread = "subscriber" => OfferOf[t] = NoOffer
  /\ enqueuer' = [enqueuer EXCEPT ![t].step = "saving", ![t].by = thread]
  /\ UNCHANGED <<task, queue, worker, redeliveries, faults, lost, ambiguous>>

\* The caller gets its answer: a worker goes on with its schedule.
Return(t, next) ==
  worker' = IF enqueuer[t].by \in Workers
            THEN [worker EXCEPT ![enqueuer[t].by] = next]
            ELSE worker

NextOffer(t) ==
  IF enqueuer[t].by \in Workers
  THEN [worker[enqueuer[t].by] EXCEPT !.step = "running", !.offer = NoOffer]
  ELSE Idle

Save(t) ==
  /\ enqueuer[t].step = "saving" /\ SaveAllowed(t)
  /\ task' = [task EXCEPT ![t] = NewRow]
  /\ enqueuer' = [enqueuer EXCEPT ![t].step = "pushing"]
  /\ UNCHANGED <<queue, worker, redeliveries, faults, lost, ambiguous>>

\* ActiveRefreshTaskAlreadyExistsError: no task, HTTP 409 or the next offer.
SaveRefused(t) ==
  /\ enqueuer[t].step = "saving" /\ ~SaveAllowed(t)
  /\ enqueuer' = [enqueuer EXCEPT ![t].step = "done"]
  /\ Return(t, NextOffer(t))
  /\ UNCHANGED <<task, queue, redeliveries, faults, lost, ambiguous>>

Push(t) ==
  /\ enqueuer[t].step = "pushing"
  /\ queue' = queue \cup {Run(t, 0)}
  /\ enqueuer' = [enqueuer EXCEPT ![t].step = "done"]
  /\ Return(t, NextOffer(t))
  /\ UNCHANGED <<task, redeliveries, faults, lost, ambiguous>>

\* The publication raises; the broker may have taken the message all the same.
PushRaises(t) ==
  /\ enqueuer[t].step = "pushing" /\ Fault
  /\ queue' \in {queue, queue \cup {Run(t, 0)}}
  /\ ambiguous' = ambiguous \cup {t}
  /\ enqueuer' = [enqueuer EXCEPT ![t].step = "raised"]
  /\ UNCHANGED <<task, worker, redeliveries, lost>>

LoadAfterPush(t) ==
  /\ enqueuer[t].step = "raised"
  /\ enqueuer' = [enqueuer EXCEPT ![t].step = "markingFailed", ![t].loaded = task[t]]
  /\ UNCHANGED <<task, queue, worker, redeliveries, faults, lost, ambiguous>>

\* mark_failed and the exception: HTTP 500, or the end of the whole schedule.
MarkPushFailed(t) ==
  /\ enqueuer[t].step = "markingFailed"
  /\ LET loaded == enqueuer[t].loaded IN
       task' = [task EXCEPT ![t] = Flush(@, loaded, FailedRow(loaded, "push"))]
  /\ enqueuer' = [enqueuer EXCEPT ![t].step = "done"]
  /\ Return(t, Idle)
  /\ UNCHANGED <<queue, redeliveries, faults, lost, ambiguous>>

\* The thread dies after the row was saved, or mark_failed cannot write it.
EnqueuerDies(t) ==
  /\ enqueuer[t].step \in {"saving", "pushing", "raised", "markingFailed"} /\ Fault
  /\ lost' = IF enqueuer[t].step = "saving" THEN lost ELSE lost \cup {t}
  /\ enqueuer' = [enqueuer EXCEPT ![t].step = "done"]
  /\ Return(t, Idle)
  /\ UNCHANGED <<task, queue, redeliveries, ambiguous>>

-----------------------------------------------------------------------------
(* The worker: delivery, execution, outcome *)

Runs(w, t) == worker[w].step # "idle" /\ worker[w].job.kind = "run" /\ worker[w].job.task = t
Running(w, kind) == worker[w].step = "running" /\ worker[w].job.kind = kind

\* A message is acknowledged when its execution starts; if the connection is lost
\* before the broker has the acknowledgement, the message stays.
Deliver(w, m) ==
  /\ worker[w].step = "idle" /\ m \in queue
  /\ \E due \in IF m = Schedule THEN SUBSET Offers ELSE {{}} :
       worker' = [worker EXCEPT ![w] = [Idle EXCEPT !.step = "running", !.job = m, !.due = due]]
  /\ \/ queue' = queue \ {m} /\ UNCHANGED <<redeliveries, ambiguous>>
     \/ /\ redeliveries < MaxRedeliveries
        /\ redeliveries' = redeliveries + 1
        /\ ambiguous' = IF m.kind = "run" THEN ambiguous \cup {m.task} ELSE ambiguous
        /\ UNCHANGED queue
  /\ UNCHANGED <<task, enqueuer, faults, lost>>

\* The handler of execute_savis_task returns; mark_completed loads the row.
HandlerReturns(w) ==
  /\ Running(w, "run")
  /\ worker' = [worker EXCEPT ![w].step = "completing", ![w].loaded = task[worker[w].job.task]]
  /\ UNCHANGED <<task, enqueuer, queue, redeliveries, faults, lost, ambiguous>>

Outcome(w, written) ==
  [task EXCEPT ![worker[w].job.task] = Flush(@, worker[w].loaded, written)]

Complete(w) ==
  /\ worker[w].step = "completing"
  /\ task' = Outcome(w, CompletedRow(worker[w].loaded))
  /\ Release(w)
  /\ UNCHANGED <<enqueuer, queue, redeliveries, faults, lost, ambiguous>>

\* Faulty: the last attempt is retried without being published again.
RetryWithoutMessage(job) == queue

\* autoretry_for: the same task is published again, with one retry more.
RetryMessage(job) == queue \cup {Run(job.task, job.retries + 1)}

RetriesLeft(job) == job.retries < MaxRetries

\* An exception: retry with backoff while retries are left.
Retry(w) ==
  LET job == worker[w].job IN
  /\ Running(w, "run") /\ RetriesLeft(job)
  /\ queue' = RetryMessage(job)
  /\ Release(w)
  /\ UNCHANGED <<task, enqueuer, redeliveries, faults, lost, ambiguous>>

\* No retry is left, or the exception is an OfferProviderNonRetryableError:
\* on_failure, whose mark_failed loads the row.
GiveUp(w) ==
  /\ Running(w, "run")
  /\ worker' = [worker EXCEPT ![w].step = "failing", ![w].loaded = task[worker[w].job.task]]
  /\ UNCHANGED <<task, enqueuer, queue, redeliveries, faults, lost, ambiguous>>

\* Faulty: on_failure reports Celery's task id, which no row has.
MarkFailedByCeleryId(w) ==
  /\ worker[w].step = "failing"
  /\ Release(w)
  /\ UNCHANGED <<task, enqueuer, queue, redeliveries, faults, lost, ambiguous>>

MarkFailed(w) ==
  /\ worker[w].step = "failing"
  /\ task' = Outcome(w, FailedRow(worker[w].loaded, "run"))
  /\ Release(w)
  /\ UNCHANGED <<enqueuer, queue, redeliveries, faults, lost, ambiguous>>

\* mark_completed raises, with its commit in doubt: an exception as any other.
CompletionRaises(w) ==
  LET job == worker[w].job IN
  /\ worker[w].step = "completing" /\ Fault
  /\ task' \in {task, Outcome(w, CompletedRow(worker[w].loaded))}
  /\ ambiguous' = ambiguous \cup {job.task}
  /\ \/ /\ job.retries < MaxRetries
        /\ queue' = RetryMessage(job) /\ Release(w)
     \/ /\ job.retries = MaxRetries
        /\ worker' = [worker EXCEPT ![w].step = "failing", ![w].loaded = task'[job.task]]
        /\ UNCHANGED queue
  /\ UNCHANGED <<enqueuer, redeliveries, lost>>

\* The broker refuses the retry, or on_failure cannot write the outcome.
ReportLost(w) ==
  /\ Running(w, "run") \/ worker[w].step = "failing"
  /\ Fault
  /\ lost' = lost \cup {worker[w].job.task}
  /\ Release(w)
  /\ UNCHANGED <<task, enqueuer, queue, redeliveries, ambiguous>>

\* The hard time limit, a crash, a redeployment: on_failure is not called.
Kill(w) ==
  /\ worker[w].step # "idle"
  /\ \/ worker[w].elapsed = TimeLimit /\ NoFault
     \/ worker[w].elapsed < TimeLimit /\ Fault
  /\ lost' = lost \cup {t \in Tasks : Runs(w, t)}
                  \cup {t \in CreatedBy(w) : enqueuer[t].step # "saving"}
  /\ enqueuer' = [t \in Tasks |-> IF t \in CreatedBy(w)
                                  THEN [enqueuer[t] EXCEPT !.step = "done"]
                                  ELSE enqueuer[t]]
  /\ Release(w)
  /\ UNCHANGED <<task, queue, redeliveries, ambiguous>>
-----------------------------------------------------------------------------
(* The two periodic jobs *)

\* Beat publishes every 15 minutes, resp. every hour.
Beat(m) ==
  /\ m \in {Cleanup, Schedule} \ queue
  /\ queue' = queue \cup {m}
  /\ UNCHANGED <<task, enqueuer, worker, redeliveries, faults, lost, ambiguous>>

\* Faulty: the cleanup does not look at the status (the age of rows that have an
\* outcome is not tracked: they become as old as need be).
StaleWhatever(t) == task[t].status # "ABSENT"

\* Faulty: the cleanup looks for rows that are older than rows can become.
StaleNever(t) == task[t].status = "IN_PROGRESS" /\ task[t].age > StaleAfter + 1

Stale(t) == task[t].status = "IN_PROGRESS" /\ task[t].age > StaleAfter

\* mark_stale_in_progress_as_failed: one UPDATE statement.
MarkStale(w) ==
  /\ Running(w, "cleanup")
  /\ task' = [t \in Tasks |-> IF Stale(t)
                              THEN [FailedRow(task[t], "stale") EXCEPT !.age = 0]
                              ELSE task[t]]
  /\ Release(w)
  /\ UNCHANGED <<enqueuer, queue, redeliveries, faults, lost, ambiguous>>

\* A due offer with an active refresh is skipped.
SkipActive(w, o) ==
  /\ Running(w, "schedule") /\ o \in worker[w].due /\ Active(o)
  /\ worker' = [worker EXCEPT ![w].due = @ \ {o}]
  /\ UNCHANGED <<task, enqueuer, queue, redeliveries, faults, lost, ambiguous>>

CheckInactive(w, o) ==
  /\ Running(w, "schedule") /\ o \in worker[w].due /\ ~Active(o)
  /\ worker' = [worker EXCEPT ![w].step = "checked", ![w].due = @ \ {o}, ![w].offer = o]
  /\ UNCHANGED <<task, enqueuer, queue, redeliveries, faults, lost, ambiguous>>

\* enqueue_savis_task for the offer just checked.
ScheduleRefresh(w) ==
  /\ worker[w].step = "checked"
  /\ \E t \in Tasks :
       /\ enqueuer[t].step = "new" /\ OfferOf[t] = worker[w].offer
       /\ enqueuer' = [enqueuer EXCEPT ![t].step = "saving", ![t].by = w]
  /\ worker' = [worker EXCEPT ![w].step = "enqueueing"]
  /\ UNCHANGED <<task, queue, redeliveries, faults, lost, ambiguous>>

\* All due offers are done with (bound: or no task id is left for the next one).
ScheduleEnds(w) ==
  /\ \/ Running(w, "schedule") /\ worker[w].due = {}
     \/ /\ worker[w].step = "checked"
        /\ \A t \in Tasks : OfferOf[t] = worker[w].offer => enqueuer[t].step # "new"
  /\ Release(w)
  /\ UNCHANGED <<task, enqueuer, queue, redeliveries, faults, lost, ambiguous>>

\* Time: rows in progress grow old, running tasks come closer to their limit.
Tick ==
  /\ \A w \in Workers : worker[w].step # "idle" => worker[w].elapsed < TimeLimit
  /\ task' = [t \in Tasks |->
       IF task[t].status = "IN_PROGRESS" /\ task[t].age <= StaleAfter
       THEN [task[t] EXCEPT !.age = @ + 1] ELSE task[t]]
  /\ worker' = [w \in Workers |->
       IF worker[w].step = "idle" THEN worker[w] ELSE [worker[w] EXCEPT !.elapsed = @ + 1]]
  /\ UNCHANGED <<enqueuer, queue, redeliveries, faults, lost, ambiguous>>

EnqueuerNext(t) ==
  \/ Request(t, "api") \/ Request(t, "subscriber")
  \/ Save(t) \/ SaveRefused(t) \/ Push(t) \/ PushRaises(t)
  \/ LoadAfterPush(t) \/ MarkPushFailed(t) \/ EnqueuerDies(t)

WorkerNext(w) ==
  \/ \E m \in queue : Deliver(w, m)
  \/ HandlerReturns(w) \/ Complete(w) \/ Retry(w) \/ GiveUp(w) \/ MarkFailed(w)
  \/ CompletionRaises(w) \/ ReportLost(w) \/ Kill(w)
  \/ MarkStale(w) \/ ScheduleRefresh(w) \/ ScheduleEnds(w)
  \/ \E o \in Offers : SkipActive(w, o) \/ CheckInactive(w, o)

Next ==
  \/ Tick \/ Beat(Cleanup) \/ Beat(Schedule)
  \/ \E t \in Tasks : EnqueuerNext(t)
  \/ \E w \in Workers : WorkerNext(w)

Spec == Init /\ [][Next]_vars

\* Time passes, the limit is enforced, Beat runs, the queue is first in first out
\* (no message waits for ever) and the cleanup statement takes less than the limit.
\* Nothing is assumed of handlers, retries and creating threads.
Fairness ==
  /\ WF_vars(Tick) /\ WF_vars(Beat(Cleanup))
  /\ \A w \in Workers :
       /\ WF_vars(worker[w].elapsed = TimeLimit /\ Kill(w))
       /\ SF_vars(MarkStale(w))
  /\ SF_vars(\E w \in Workers : Deliver(w, Cleanup))

FairSpec == Spec /\ Fairness
-----------------------------------------------------------------------------
(* What the task use case promises *)

\* The row, the creating threads, the queue and the workers keep their types.
TypeOK ==
  /\ task \in [Tasks -> TaskRow] /\ enqueuer \in [Tasks -> Enqueuer]
  /\ queue \subseteq Message /\ worker \in [Workers -> WorkerState]
  /\ redeliveries \in Nat /\ faults \in Nat
  /\ lost \subseteq Tasks /\ ambiguous \subseteq Tasks

\* Two refreshes of one offer are never active at once, although the API, the
\* subscriber and the scheduler check and save without a common lock.
OneActiveRefresh ==
  \A t, u \in Tasks :
    /\ task[t].status = "IN_PROGRESS" /\ task[u].status = "IN_PROGRESS"
    /\ OfferOf[t] = OfferOf[u] /\ OfferOf[t] # NoOffer
    => t = u

\* Somebody is still going to decide the outcome of t.
Owned(t) ==
  \/ enqueuer[t].step \in {"pushing", "raised", "markingFailed"}
  \/ \E m \in queue : m.kind = "run" /\ m.task = t
  \/ \E w \in Workers : Runs(w, t)

\* A task in progress without thread, message or worker was lost to a crash, the
\* time limit or a failed write: no path of retries, refusals and failed
\* publications drops one.
Accounted ==
  \A t \in Tasks : task[t].status = "IN_PROGRESS" => Owned(t) \/ t \in lost

\* Status, completion date and error message tell one story, unless the task was
\* published, delivered or committed in doubt.  Holds for the one worker deployed:
\* cleanup and execution cannot interleave.
OutcomeConsistent ==
  \A t \in Tasks \ ambiguous :
    /\ task[t].status = "COMPLETED" => task[t].completed /\ task[t].error = "none"
    /\ task[t].status = "FAILED" => ~task[t].completed /\ task[t].error # "none"
    /\ task[t].status = "IN_PROGRESS" => ~task[t].completed /\ task[t].error = "none"

\* COMPLETED is final unless the message or the commit was in doubt.
CompletedIsFinal ==
  [][\A t \in Tasks \ ambiguous' :
       task[t].status = "COMPLETED" => task'[t].status = "COMPLETED"]_vars

\* Every task that was saved reaches an outcome: the cleanup recovers what crashes,
\* kills and lost reports left behind, although it waits in the same queue.
EventuallyTerminal ==
  \A t \in Tasks : task[t].status = "IN_PROGRESS" ~> task[t].status \in {"COMPLETED", "FAILED"}
=============================================================================
