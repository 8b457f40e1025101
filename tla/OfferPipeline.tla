---------------------------- MODULE OfferPipeline ----------------------------
(***************************************************************************)
(* One supplier product, from its row in the offers of the Executor to the *)
(* rows that project it in the offers of the API's Supply module.          *)
(*                                                                         *)
(* In the Executor, the API serves one request at a time (its handlers     *)
(* block the event loop) and one worker refreshes or observes the offer;   *)
(* each reads the row, works, saves the whole row it read and only then    *)
(* publishes, in transactions of their own.  Results and invalidations     *)
(* travel in two queues, each with one listener in the API.  A listener,   *)
(* or a request of the operator, loads a Supply row and writes all of its  *)
(* columns when it commits.                                                *)
(*                                                                         *)
(* Executor saves are atomic here: the load and the flush of merge() are   *)
(* one step.                                                               *)
(***************************************************************************)
EXTENDS Naturals, Sequences, FiniteSets

CONSTANTS
  Ids,        \* ids the Executor gives to the product's row; bound: one each time it is created
  ManualId,   \* public id of an offer the operator enters in Supply
  Data,       \* prices and package sizes
  Resources,  \* resources an offer can be associated with
  None,       \* no id, no data, no resource
  MaxOps,     \* bound: requests and tasks
  MaxFaults   \* bound: failed publications and transactions, redelivered messages

ASSUME PipelineAssumption ==
  /\ ManualId \notin Ids /\ None \notin Ids \cup {ManualId} \cup Data \cup Resources
  /\ MaxOps \in Nat /\ MaxFaults \in Nat

VARIABLES
  offer,          \* the Executor's row of the product, or Absent
  used,           \* ids the Executor has given
  api,            \* the request the Executor's API is serving
  worker,         \* the task the Celery worker is running
  results,        \* queue savis.offer.results
  invalidations,  \* queue savis.offer.invalidations
  supply,         \* supply[k]: the row with public id k in Supply, or NoRow
  tx,             \* tx[p]: the Supply transaction of p
  ops, faults,    \* history: operations and faults so far
  validated,      \* history: ids an operator has made VALID
  explained       \* history: a known cause of disagreement has happened

vars == <<offer, used, api, worker, results, invalidations, supply, tx,
          ops, faults, validated, explained>>
executor == <<offer, used, api, worker, validated>>

Statuses == {"NEW", "VALID", "REJECTED"}
Offer == [id : Ids, status : Statuses, data : Data]
Absent == [id |-> None, status |-> "NEW", data |-> None]

PublicIds == Ids \cup {ManualId}
SupplyRow == [status : {"AVAILABLE", "UNAVAILABLE"}, data : Data, resource : Resources \cup {None}]
NoRow == [status |-> "NONE", data |-> None, resource |-> None]
Rows == {k \in PublicIds : supply[k] # NoRow}

\* A thread of the Executor: its step, the row it read (once it saved, the row
\* it saved), and the status a PATCH asks for.
Thread == [step : {"idle", "patching", "result", "invalidation", "deleting",
                   "removing", "refreshing", "observing"},
           row : Offer \cup {Absent}, to : Statuses]
Resting == [step |-> "idle", row |-> Absent, to |-> "NEW"]

\* A transaction of Supply: the public id it writes, the row it loaded, the row
\* it will write.
Clients == {"resultListener", "invalidationListener", "operator"}
Transaction == [key : PublicIds, loaded : SupplyRow \cup {NoRow}, written : SupplyRow]
Open(k, loaded, written) == [key |-> k, loaded |-> loaded, written |-> written]
Closed == Open(None, NoRow, NoRow)

Init ==
  /\ offer = Absent /\ used = {}
  /\ api = Resting /\ worker = Resting
  /\ results = <<>> /\ invalidations = <<>>
  /\ supply = [k \in PublicIds |-> NoRow]
  /\ tx = [p \in Clients |-> Closed]
  /\ ops = 0 /\ faults = 0
  /\ validated = {} /\ explained = FALSE

Operation == ops < MaxOps /\ ops' = ops + 1 /\ UNCHANGED faults
NoOperation == UNCHANGED <<ops, faults>>
Fault == faults < MaxFaults /\ faults' = faults + 1 /\ UNCHANGED ops
Explain(cause) == explained' = (explained \/ cause)
-----------------------------------------------------------------------------
(* Publication: a result and an invalidation that are both on their way are  *)
(* in different queues and may overtake each other.                          *)

OfferMessage == [id : Ids, data : Data]

PublishResult(row) ==
  /\ results' = Append(results, [id |-> row.id, data |-> row.data])
  /\ UNCHANGED invalidations

PublishInvalidation(row) ==
  /\ invalidations' = Append(invalidations, row.id)
  /\ UNCHANGED results

Crossing == results' # <<>> /\ invalidations' # <<>>
-----------------------------------------------------------------------------
(* The Executor's API: one request at a time *)

\* PATCH of a status, or of the refresh frequency when s is the status it has.
PatchReads(s) ==
  /\ api.step = "idle" /\ offer # Absent /\ Operation
  /\ api' = [step |-> "patching", row |-> offer, to |-> s]
  /\ UNCHANGED <<offer, used, worker, results, invalidations, supply, tx, validated,
                 explained>>

\* Faulty: only an offer that was NEW is published.
AfterPatchOfNewOnly(from, to) ==
  CASE from = "NEW" /\ to = "VALID" -> "result"
    [] from = "VALID" /\ to = "REJECTED" -> "invalidation"
    [] OTHER -> "idle"

\* What a PATCH publishes once the row is saved.
AfterPatch(from, to) ==
  CASE from # "VALID" /\ to = "VALID" -> "result"
    [] from = "VALID" /\ to = "REJECTED" -> "invalidation"
    [] OTHER -> "idle"

\* Known causes: the worker changed the row meanwhile, and an offer that goes
\* back to NEW is not invalidated.
PatchSaves ==
  /\ api.step = "patching"
  /\ LET saved == [api.row EXCEPT !.status = api.to]
         next == AfterPatch(api.row.status, api.to)
     IN /\ offer' = saved
        /\ api' = IF next = "idle" THEN Resting ELSE [api EXCEPT !.step = next, !.row = saved]
  /\ validated' = IF api.to = "VALID" THEN validated \cup {api.row.id} ELSE validated
  /\ Explain(offer # api.row \/ (api.row.status = "VALID" /\ api.to = "NEW"))
  /\ UNCHANGED <<used, worker, results, invalidations, supply, tx>> /\ NoOperation

\* Known causes: the worker changed the row after it was saved, or the message
\* crosses one of the other queue.
PatchPublishes ==
  /\ \/ api.step = "result" /\ PublishResult(api.row)
     \/ api.step = "invalidation" /\ PublishInvalidation(api.row)
  /\ api' = Resting
  /\ Explain(offer # api.row \/ Crossing)
  /\ UNCHANGED <<offer, used, worker, supply, tx, validated>> /\ NoOperation

\* The broker is unreachable or the process dies: the row is saved, and nothing
\* publishes it later.
PatchPublicationLost ==
  /\ api.step \in {"result", "invalidation"} /\ Fault
  /\ api' = Resting /\ Explain(TRUE)
  /\ UNCHANGED <<offer, used, worker, results, invalidations, supply, tx, validated>>

\* DELETE: a valid offer is invalidated before it is deleted.
DeleteReads ==
  /\ api.step = "idle" /\ offer # Absent /\ Operation
  /\ api' = [Resting EXCEPT !.step = IF offer.status = "VALID" THEN "deleting" ELSE "removing",
                            !.row = offer]
  /\ UNCHANGED <<offer, used, worker, results, invalidations, supply, tx, validated,
                 explained>>

DeletePublishes ==
  /\ api.step = "deleting"
  /\ PublishInvalidation(api.row)
  /\ api' = [api EXCEPT !.step = "removing"]
  /\ Explain(Crossing)
  /\ UNCHANGED <<offer, used, worker, supply, tx, validated>> /\ NoOperation

DeleteRemoves ==
  /\ api.step = "removing"
  /\ offer' = Absent
  /\ api' = Resting
  /\ Explain(offer # api.row)
  /\ UNCHANGED <<used, worker, results, invalidations, supply, tx, validated>>
  /\ NoOperation

\* A failed publication leaves everything as it was; a failed deletion leaves a
\* valid offer invalidated.
DeleteFails ==
  /\ api.step \in {"deleting", "removing"} /\ Fault
  /\ api' = Resting /\ Explain(api.step = "removing")
  /\ UNCHANGED <<offer, used, worker, results, invalidations, supply, tx, validated>>
-----------------------------------------------------------------------------
(* The Executor's worker: one task at a time *)

WorkerBegins(step) ==
  /\ worker.step = "idle" /\ Operation
  /\ worker' = [Resting EXCEPT !.step = step, !.row = offer]
  /\ UNCHANGED <<offer, used, api, results, invalidations, supply, tx, validated,
                 explained>>

\* refresh_offer_by_url reads the row before it visits the page of the product.
RefreshReads == offer # Absent /\ WorkerBegins("refreshing")

\* save_observed_offers looks for the product after the visit.
ObserveReads == WorkerBegins("observing")

\* Faulty: a changed offer is published whatever its status.
RefreshIsPublishedAnyway(row, d) == d # row.data

\* A refresh publishes a changed valid offer.
RefreshIsPublished(row, d) == d # row.data /\ row.status = "VALID"

\* A refresh writes the whole row it read, its status included.
RefreshSaves(d) ==
  /\ worker.step = "refreshing"
  /\ LET saved == [worker.row EXCEPT !.data = d]
     IN /\ offer' = saved
        /\ worker' = IF RefreshIsPublished(worker.row, d)
                     THEN [worker EXCEPT !.step = "result", !.row = saved]
                     ELSE Resting
  /\ Explain(offer # worker.row)
  /\ UNCHANGED <<used, api, results, invalidations, supply, tx, validated>>
  /\ NoOperation

\* Known causes: the API changed the row after it was saved, or is about to delete
\* it, or the message crosses one of the other queue.
RefreshPublishes ==
  /\ worker.step = "result"
  /\ PublishResult(worker.row)
  /\ worker' = Resting
  /\ Explain(offer # worker.row \/ api.step = "removing" \/ Crossing)
  /\ UNCHANGED <<offer, used, api, supply, tx, validated>> /\ NoOperation

\* The retry of the task finds the data already saved, and publishes nothing.
RefreshPublicationLost ==
  /\ worker.step = "result" /\ Fault
  /\ worker' = Resting /\ Explain(TRUE)
  /\ UNCHANGED <<offer, used, api, results, invalidations, supply, tx, validated>>

\* An observed product is created NEW, or its data are refreshed in silence,
\* even those of a valid offer.
ObserveSaves(d) ==
  /\ worker.step = "observing"
  /\ IF worker.row = Absent
     THEN \E i \in Ids \ used :
            /\ offer' = [id |-> i, status |-> "NEW", data |-> d]
            /\ used' = used \cup {i}
     ELSE /\ offer' = [worker.row EXCEPT !.data = d]
          /\ UNCHANGED used
  /\ worker' = Resting
  /\ Explain(offer # worker.row \/ (worker.row.status = "VALID" /\ d # worker.row.data))
  /\ UNCHANGED <<api, results, invalidations, supply, tx, validated>> /\ NoOperation

\* The page gives nothing usable, or the task fails or is killed before it saves.
TaskEnds ==
  /\ worker.step \in {"refreshing", "observing"}
  /\ worker' = Resting
  /\ UNCHANGED <<offer, used, api, results, invalidations, supply, tx, validated,
                 explained>> /\ NoOperation
-----------------------------------------------------------------------------
(* Supply *)

\* The rows of the product a result may update: the one with its public id, else
\* the ones with the identity of the product.
Targets(i) == IF i \in Rows THEN {i} ELSE Rows

\* A received offer makes the row available and keeps its association.
Updated(loaded, m) ==
  [status |-> "AVAILABLE", data |-> m.data, resource |-> loaded.resource]

\* A result loads the row it will update; its public id stays the first one.
ResultLoads ==
  /\ tx["resultListener"] = Closed /\ results # <<>>
  /\ LET m == Head(results)
     IN \/ /\ Targets(m.id) = {}
           /\ tx' = [tx EXCEPT !["resultListener"] = Open(m.id, NoRow, Updated(NoRow, m))]
        \/ \E k \in Targets(m.id) :
             /\ Targets(m.id) = {k}
             /\ tx' = [tx EXCEPT !["resultListener"] = Open(k, supply[k], Updated(supply[k], m))]
  /\ UNCHANGED <<executor, results, invalidations, supply, explained>> /\ NoOperation

\* The query by identity expects one row and finds two, or the transaction
\* fails: the message is rejected and not requeued.
ResultDiscarded ==
  /\ tx["resultListener"] = Closed /\ results # <<>>
  /\ \/ Cardinality(Targets(Head(results).id)) > 1 /\ NoOperation
     \/ Fault
  /\ results' = Tail(results) /\ Explain(TRUE)
  /\ UNCHANGED <<executor, invalidations, supply, tx>>

\* An invalidation is looked up by public id only.
InvalidationTargets(i) == Rows \cap {i}

InvalidationLoads ==
  /\ tx["invalidationListener"] = Closed /\ invalidations # <<>>
  /\ \E k \in InvalidationTargets(Head(invalidations)) :
       tx' = [tx EXCEPT !["invalidationListener"] =
                Open(k, supply[k], [supply[k] EXCEPT !.status = "UNAVAILABLE"])]
  /\ UNCHANGED <<executor, results, invalidations, supply, explained>> /\ NoOperation

\* Known cause: the product is in Supply under the id of an earlier or a manual offer.
InvalidationIgnored ==
  /\ tx["invalidationListener"] = Closed /\ invalidations # <<>>
  /\ InvalidationTargets(Head(invalidations)) = {}
  /\ invalidations' = Tail(invalidations)
  /\ Explain(Rows # {})
  /\ UNCHANGED <<executor, results, supply, tx>> /\ NoOperation

InvalidationDiscarded ==
  /\ tx["invalidationListener"] = Closed /\ invalidations # <<>> /\ Fault
  /\ invalidations' = Tail(invalidations) /\ Explain(TRUE)
  /\ UNCHANGED <<executor, results, supply, tx>>

\* PUT of the resource of an offer.
Associate(k, r) ==
  /\ tx["operator"] = Closed /\ k \in Rows /\ Operation
  /\ tx' = [tx EXCEPT !["operator"] = Open(k, supply[k], [supply[k] EXCEPT !.resource = r])]
  /\ UNCHANGED <<executor, results, invalidations, supply, explained>>

\* POST of an offer whose identity no row has yet.
CreateManual(d, r) ==
  /\ tx["operator"] = Closed /\ Rows = {} /\ Operation
  /\ tx' = [tx EXCEPT !["operator"] =
              Open(ManualId, NoRow, [status |-> "AVAILABLE", data |-> d, resource |-> r])]
  /\ UNCHANGED <<executor, results, invalidations, supply, explained>>

\* All columns are written, unless the transaction changed none of them.
Flushed(t) == IF t.written = t.loaded THEN supply[t.key] ELSE t.written

StaleCommit(p) == supply[tx[p].key] # tx[p].loaded

\* A message is acknowledged after the commit; when the connection is lost
\* before, it is delivered again.
Acknowledge(queue) ==
  \/ queue' = Tail(queue) /\ NoOperation
  \/ queue' = queue /\ Fault

Commit(p) ==
  /\ tx[p] # Closed
  /\ supply' = [supply EXCEPT ![tx[p].key] = Flushed(tx[p])]
  /\ tx' = [tx EXCEPT ![p] = Closed]
  /\ Explain(StaleCommit(p))
  /\ CASE p = "resultListener" -> Acknowledge(results) /\ UNCHANGED invalidations
       [] p = "invalidationListener" -> Acknowledge(invalidations) /\ UNCHANGED results
       [] p = "operator" -> UNCHANGED <<results, invalidations>> /\ NoOperation
  /\ UNCHANGED executor
-----------------------------------------------------------------------------
Next ==
  \/ \E s \in Statuses : PatchReads(s)
  \/ PatchSaves \/ PatchPublishes \/ PatchPublicationLost
  \/ DeleteReads \/ DeletePublishes \/ DeleteRemoves \/ DeleteFails
  \/ RefreshReads \/ (\E d \in Data : RefreshSaves(d))
  \/ RefreshPublishes \/ RefreshPublicationLost
  \/ ObserveReads \/ (\E d \in Data : ObserveSaves(d)) \/ TaskEnds
  \/ ResultLoads \/ ResultDiscarded
  \/ InvalidationLoads \/ InvalidationIgnored \/ InvalidationDiscarded
  \/ \E k \in PublicIds, r \in Resources : Associate(k, r)
  \/ \E d \in Data, r \in Resources : CreateManual(d, r)
  \/ \E p \in Clients : Commit(p)

Spec == Init /\ [][Next]_vars
-----------------------------------------------------------------------------
(* Properties *)

\* Every variable stays in its domain, and no row is made of nothing.
TypeOK ==
  /\ offer \in Offer \cup {Absent} /\ used \subseteq Ids
  /\ api \in Thread /\ worker \in Thread
  /\ results \in Seq(OfferMessage) /\ invalidations \in Seq(Ids)
  /\ supply \in [PublicIds -> SupplyRow \cup {NoRow}]
  /\ tx \in [Clients -> Transaction \cup {Closed}]
  /\ ops \in 0..MaxOps /\ faults \in 0..MaxFaults
  /\ validated \subseteq used /\ explained \in BOOLEAN

\* Supply only ever receives and prices offers an operator has accepted
\* (OffersUseCase.patch and refresh_offer_by_url): no message carries, and no row
\* has the id of, an offer that was never VALID.
NothingUnreviewed ==
  /\ \A n \in 1..Len(results) : results[n].id \in validated
  /\ Rows \subseteq validated \cup {ManualId}

Quiescent ==
  /\ api = Resting /\ worker = Resting /\ results = <<>> /\ invalidations = <<>>
  /\ \A p \in Clients : tx[p] = Closed

\* Supply prices the product exactly as the Executor's valid offer says, and no
\* offer of the Executor that is not valid.
Agrees ==
  IF offer.status = "VALID"
  THEN \E k \in Targets(offer.id) :
         supply[k].status = "AVAILABLE" /\ supply[k].data = offer.data
  ELSE \A k \in Rows \cap Ids : supply[k].status = "UNAVAILABLE"

\* When nothing is in progress, Supply and the Executor agree, unless one of the
\* causes named at the actions has happened: the list of the ways the projection
\* can go stale without anybody noticing is complete.
AgreesUnlessExplained == Quiescent /\ ~explained => Agrees
=============================================================================
