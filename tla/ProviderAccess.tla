--------------------------- MODULE ProviderAccess ---------------------------
(***************************************************************************)
(* The provider access policy of the Executor (request pacing and circuit  *)
(* breaker, one row of provider_access_states per provider) together with  *)
(* the page loads of the Maxi scraper that go through it.  Rows of         *)
(* different providers never interact, so one provider is modelled.        *)
(*                                                                         *)
(* The policy samples the clock BEFORE it waits for the row lock, sleeps   *)
(* AFTER the transaction that reserved the slot, and is told the outcome   *)
(* of the navigation in a transaction of its own: Call, Reserve, Wake,     *)
(* Navigate and RecordX are therefore separate steps, and other workers,   *)
(* the 30-minute task limit and deaths may come between any two of them.  *)
(***************************************************************************)
EXTENDS Integers, Sequences

CONSTANTS
  Workers,       \* processes that load pages (the deployment runs one)
  MinDelay,      \* PROVIDER_MIN_REQUEST_DELAY_SECONDS
  MaxDelay,      \* PROVIDER_MAX_REQUEST_DELAY_SECONDS
  Cooldowns,     \* PROVIDER_BLOCK_COOLDOWN_SECONDS, the progressive cooldowns
  ProbeTimeout,  \* PROVIDER_PROBE_TIMEOUT_SECONDS
  TimeLimit,     \* task_time_limit of Celery
  MaxTime,       \* bound: the clock stops here
  MaxDeaths      \* bound: no crash after so many page loads have died

\* The ranges the constructor of the policy enforces.
ASSUME PolicyAssumption ==
  /\ MinDelay \in Nat /\ MaxDelay \in Nat /\ MinDelay <= MaxDelay
  /\ Cooldowns \in Seq(Nat \ {0}) /\ Cooldowns # <<>>
  /\ ProbeTimeout \in Nat \ {0}
  /\ TimeLimit \in Nat \ {0}
  /\ MaxTime \in Nat /\ MaxDeaths \in Nat

VARIABLES
  now,      \* the clock
  row,      \* the row of provider_access_states
  load,     \* load[w]: where worker w is in load_page, and what it remembers
  deaths,   \* history: page loads that were killed or crashed
  slots     \* history: the request slots reserved, in the order of their commits

accessVars == <<now, row, load, deaths, slots>>

NoTime == -1             \* a NULL timestamp
Time == Nat \cup {NoTime}

Row == [consecutiveBlocks : Nat, blockedUntil : Time, probeReservedUntil : Time,
        lastRequestAt : Time, nextRequestAt : Time, lastBlockAt : Time]

Phases == {"idle", "locking", "sleeping", "connecting", "loading",
           "recordingSuccess", "recordingBlock"}

\* sampled: the clock value of its policy call; slot: the reserved request slot;
\* wakeAt: the end of its sleep; startedAt: the start of its Celery task.
Load == [phase : Phases, sampled : Nat, slot : Nat, wakeAt : Nat, startedAt : Nat]

Idle == [phase |-> "idle", sampled |-> 0, slot |-> 0, wakeAt |-> 0, startedAt |-> 0]

Later(a, b) == IF a >= b THEN a ELSE b

AccessInit ==
  /\ now = 0
  /\ row = [consecutiveBlocks |-> 0, blockedUntil |-> NoTime,
            probeReservedUntil |-> NoTime, lastRequestAt |-> NoTime,
            nextRequestAt |-> NoTime, lastBlockAt |-> NoTime]
  /\ load = [w \in Workers |-> Idle]
  /\ deaths = 0 /\ slots = <<>>

At(w, p) == load[w].phase = p
Goto(w, p) == load' = [load EXCEPT ![w].phase = p]
Finish(w) == load' = [load EXCEPT ![w] = Idle]

-----------------------------------------------------------------------------
(* wait_for_request *)

\* A task enters load_page: the clock is read before the row is locked.
Call(w) ==
  /\ At(w, "idle")
  /\ load' = [load EXCEPT ![w].phase = "locking", ![w].sampled = now, ![w].startedAt = now]
  /\ UNCHANGED <<now, row, deaths, slots>>

Suspended(w) == row.blockedUntil > load[w].sampled

HalfOpen == row.blockedUntil # NoTime

\* Faulty: a second recovery probe is let through.
ProbeNeverTaken(w) == FALSE

ProbeTaken(w) == HalfOpen /\ row.probeReservedUntil > load[w].sampled

\* ProviderCircuitOpenError: not retried, nothing written.
Refuse(w) ==
  /\ At(w, "locking")
  /\ Suspended(w) \/ ProbeTaken(w)
  /\ Finish(w)
  /\ UNCHANGED <<now, row, deaths, slots>>

\* The slot a request gets: its clock sample, or the next free slot if later.
RequestAt(w) == Later(load[w].sampled, row.nextRequestAt)

\* Faulty: the spacing starts from now, not from the slot.
ReservedRowFromNow(w, spacing) ==
  [row EXCEPT
     !.probeReservedUntil = IF HalfOpen THEN load[w].sampled + ProbeTimeout ELSE @,
     !.lastRequestAt = RequestAt(w),
     !.nextRequestAt = load[w].sampled + spacing]

ReservedRow(w, spacing) ==
  [row EXCEPT
     !.probeReservedUntil = IF HalfOpen THEN load[w].sampled + ProbeTimeout ELSE @,
     !.lastRequestAt = RequestAt(w),
     !.nextRequestAt = RequestAt(w) + spacing]

\* The sleep starts when the transaction has committed, for the time between
\* the clock sample and the slot.
SleepUntil(w) == now + (RequestAt(w) - load[w].sampled)

\* The transaction that reserves a slot.
Reserve(w) ==
  /\ At(w, "locking")
  /\ ~Suspended(w) /\ ~ProbeTaken(w)
  /\ \E spacing \in MinDelay..MaxDelay : row' = ReservedRow(w, spacing)
  /\ load' = [load EXCEPT ![w].phase = "sleeping", ![w].slot = RequestAt(w),
                          ![w].wakeAt = SleepUntil(w)]
  /\ slots' = Append(slots, RequestAt(w))
  /\ UNCHANGED <<now, deaths>>

Wake(w) ==
  /\ At(w, "sleeping") /\ now >= load[w].wakeAt
  /\ Goto(w, "connecting")
  /\ UNCHANGED <<now, row, deaths, slots>>
-----------------------------------------------------------------------------
(* load_page after the wait: the browser, then the page *)

\* Chrome answers and page.goto starts.  Connecting may take time.
Navigate(w) ==
  /\ At(w, "connecting")
  /\ Goto(w, "loading")
  /\ UNCHANGED <<now, row, deaths, slots>>

\* BrowserConnectionError, or an error of goto that is not a refusal: the
\* policy is told nothing.
LoadFails(w) ==
  /\ At(w, "connecting") \/ At(w, "loading")
  /\ Finish(w)
  /\ UNCHANGED <<now, row, deaths, slots>>

\* The page is the expected one, or a 403/429/challenge: the outcome is about
\* to be recorded, with the clock read before the row lock.
Outcome(w) ==
  /\ At(w, "loading")
  /\ \E p \in {"recordingSuccess", "recordingBlock"} :
       load' = [load EXCEPT ![w].phase = p, ![w].sampled = now]
  /\ UNCHANGED <<now, row, deaths, slots>>

SuccessRow == [row EXCEPT !.consecutiveBlocks = 0, !.blockedUntil = NoTime,
                          !.probeReservedUntil = NoTime]

RecordSuccess(w) ==
  /\ At(w, "recordingSuccess")
  /\ row' = SuccessRow
  /\ Finish(w)
  /\ UNCHANGED <<now, deaths, slots>>

\* The cooldown after the n-th consecutive block; the last one repeats.
Cooldown(n) == Cooldowns[IF n <= Len(Cooldowns) THEN n ELSE Len(Cooldowns)]

BlockRow(w) ==
  [row EXCEPT !.consecutiveBlocks = @ + 1,
              !.blockedUntil = load[w].sampled + Cooldown(row.consecutiveBlocks + 1),
              !.probeReservedUntil = NoTime,
              !.lastBlockAt = load[w].sampled]

RecordBlock(w) ==
  /\ At(w, "recordingBlock")
  /\ row' = BlockRow(w)
  /\ Finish(w)
  /\ UNCHANGED <<now, deaths, slots>>

\* The database refuses the record: the scraper logs the error and goes on.
RecordFails(w) ==
  /\ At(w, "recordingSuccess") \/ At(w, "recordingBlock")
  /\ Finish(w)
  /\ UNCHANGED <<now, row, deaths, slots>>
-----------------------------------------------------------------------------
(* The environment *)

Overdue(w) == ~At(w, "idle") /\ now >= load[w].startedAt + TimeLimit

\* The hard time limit kills the child process; before it, a crash or a
\* redeployment may.  Reservations stay in the row.
Die(w) ==
  /\ ~At(w, "idle")
  /\ Overdue(w) \/ deaths < MaxDeaths
  /\ deaths' = deaths + 1
  /\ Finish(w)
  /\ UNCHANGED <<now, row, slots>>

Tick ==
  /\ now < MaxTime
  /\ \A w \in Workers : ~Overdue(w)
  /\ now' = now + 1
  /\ UNCHANGED <<row, load, deaths, slots>>

AccessNext ==
  \/ Tick
  \/ \E w \in Workers :
       \/ Call(w) \/ Refuse(w) \/ Reserve(w) \/ Wake(w)
       \/ Navigate(w) \/ LoadFails(w) \/ Outcome(w)
       \/ RecordSuccess(w) \/ RecordBlock(w) \/ RecordFails(w) \/ Die(w)

AccessSpec == AccessInit /\ [][AccessNext]_accessVars
-----------------------------------------------------------------------------
(* What the policy promises *)

\* The types of the row (nullable timestamps) and of what each worker remembers
\* between the transactions of a page load.
AccessTypeOK ==
  /\ now \in Nat /\ row \in Row
  /\ load \in [Workers -> Load] /\ deaths \in Nat
  /\ slots \in Seq(Nat)

\* Every two request slots ever granted are at least MinDelay apart, whichever
\* workers reserved them, in whatever order they got the row lock with whatever
\* clock sample, and although workers that died never use theirs: no slot is
\* granted twice and none comes too early (wait_for_request).
SlotsSpaced ==
  \A i, j \in 1..Len(slots) : i < j => slots[j] >= slots[i] + MinDelay

\* No worker reaches the browser before the slot it reserved: the sleep starts
\* after the commit and is computed from a clock sample taken before the lock.
NotBeforeSlot ==
  \A w \in Workers : load[w].phase \in {"connecting", "loading"} => now >= load[w].slot

\* The fields that success and block records both write agree: the circuit is
\* open or half-open exactly after consecutive blocks, for the cooldown of that
\* many blocks, and a probe is reserved only while it is.
CircuitShape ==
  /\ (row.consecutiveBlocks = 0) <=> (row.blockedUntil = NoTime)
  /\ row.consecutiveBlocks > 0
       => row.blockedUntil = row.lastBlockAt + Cooldown(row.consecutiveBlocks)
  /\ row.probeReservedUntil # NoTime => row.blockedUntil # NoTime

\* Within one outage (no success or block recorded in between) recovery requests
\* are admitted at least ProbeTimeout apart, also when the probe has died.
ProbesSpaced ==
  [][HalfOpen /\ row.probeReservedUntil # NoTime /\ slots' # slots
       => row'.probeReservedUntil >= row.probeReservedUntil + ProbeTimeout]_accessVars

\* With the single worker of the deployment, no request sleeps, connects or loads
\* while the provider is suspended.
QuietWhileSuspended ==
  \A w \in Workers :
    load[w].phase \in {"sleeping", "connecting", "loading"} => row.blockedUntil <= now
=============================================================================
