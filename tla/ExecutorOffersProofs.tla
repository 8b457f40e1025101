----------------------- MODULE ExecutorOffersProofs -----------------------
(***************************************************************************)
(* What the Executor promises of its access to a provider and of the       *)
(* offers it acquires there.                                               *)
(*                                                                         *)
(* OfferPipeline, for any number of ids, data and resources, of requests   *)
(* and of faults: its types, that Supply never receives an offer no        *)
(* operator has accepted, and that at rest it agrees with the Executor     *)
(* unless a known cause has happened.                                      *)
(*                                                                         *)
(* ProviderAccess, for every set of workers, delays, cooldowns and         *)
(* timeouts: how page loads are spaced and blocked.  AccessInv is          *)
(* inductive: AccessTypeOK and CircuitShape with what the row and the      *)
(* workers remember between transactions.                                  *)
(***************************************************************************)
EXTENDS OfferPipeline, ProviderAccess, SequenceTheorems, TLAPS

\* A row an Executor thread read or saved: its id was given, and if it is VALID an
\* operator has accepted it.
Genuine(found) ==
  /\ found # Absent => found.id \in used
  /\ found.status = "VALID" => found.id \in validated

\* What a thread of the Executor relies on between its transactions.
Sound(thread) ==
  /\ Genuine(thread.row)
  /\ thread.step = "result" => thread.row.status = "VALID"
  /\ thread.step \notin {"idle", "observing"} => thread.row # Absent

ExecutorSound == Genuine(offer) /\ Sound(api) /\ Sound(worker)

ResultsReviewed == \A n \in 1..Len(results) : results[n].id \in validated

\* A listener works on the message at the head of its queue.
Serving ==
  /\ tx["resultListener"] # Closed => results # <<>>
  /\ tx["invalidationListener"] # Closed => invalidations # <<>>

\* A transaction of Supply is about an accepted or a manual offer, and one of the
\* listeners writes the association it loaded.
SupplySound ==
  \A p \in Clients : tx[p] # Closed =>
    /\ tx[p].key \in validated \cup {ManualId}
    /\ p # "operator" => tx[p].written.resource = tx[p].loaded.resource

RowsReviewed == Rows \subseteq validated \cup {ManualId}

IInv ==
  /\ TypeOK /\ ExecutorSound /\ Serving
  /\ ResultsReviewed /\ SupplySound /\ RowsReviewed
-----------------------------------------------------------------------------
(* Steps of the Executor *)

LEMMA Constants ==
  /\ Absent.id = None /\ Absent.status = "NEW" /\ None \notin Ids
  /\ Absent \notin Offer /\ Closed \notin Transaction
  /\ Resting \in Thread /\ Resting.step = "idle" /\ Resting.row = Absent
BY PipelineAssumption
   DEF Absent, Offer, Closed, Open, Transaction, PublicIds, Resting, Thread, Statuses

\* The counters, whichever kind of step.
LEMMA CountersKept ==
  ASSUME TypeOK, NoOperation \/ Operation \/ Fault
  PROVE  ops' \in 0..MaxOps /\ faults' \in 0..MaxFaults
BY PipelineAssumption DEF TypeOK, NoOperation, Operation, Fault

\* A step that leaves Supply alone and appends to the queues only what an operator
\* has accepted.
LEMMA ExecutorKeeps ==
  ASSUME IInv, UNCHANGED <<supply, tx>>, NoOperation \/ Operation \/ Fault,
         offer' \in Offer \cup {Absent}, api' \in Thread, worker' \in Thread,
         used \subseteq used', used' \subseteq Ids,
         validated \subseteq validated', validated' \subseteq used',
         ExecutorSound', explained' \in BOOLEAN,
         \/ UNCHANGED results
         \/ \E i \in validated', d \in Data : results' = Append(results, [id |-> i, data |-> d]),
         \/ UNCHANGED invalidations
         \/ \E i \in Ids : invalidations' = Append(invalidations, i)
  PROVE  IInv'
<1>1. /\ results' \in Seq(OfferMessage) /\ ResultsReviewed'
      /\ results # <<>> => results' # <<>>
  <2>1. CASE UNCHANGED results
    BY <2>1 DEF IInv, TypeOK, ResultsReviewed
  <2>2. ASSUME NEW i \in validated', NEW d \in Data,
               results' = Append(results, [id |-> i, data |-> d])
        PROVE  /\ results' \in Seq(OfferMessage) /\ ResultsReviewed'
               /\ results' # <<>>
    <3> DEFINE m == [id |-> i, data |-> d]
    <3>1. m \in OfferMessage /\ m.id \in validated'
      BY DEF IInv, TypeOK, OfferMessage
    <3>2. results \in Seq(OfferMessage) /\ Len(results) \in Nat
      BY LenProperties DEF IInv, TypeOK
    <3> HIDE DEF m
    <3>3. /\ results' \in Seq(OfferMessage) /\ Len(results') = Len(results) + 1
          /\ results'[Len(results) + 1] = m
          /\ \A n \in 1..Len(results) : results'[n] = results[n]
      BY <2>2, <3>1, <3>2, AppendProperties DEF m
    <3>4. ResultsReviewed'
      BY <3>1, <3>2, <3>3 DEF IInv, ResultsReviewed
    <3>5. results' # <<>>
      BY <3>2, <3>3
    <3> QED BY <3>3, <3>4, <3>5
  <2> QED BY <2>1, <2>2
<1>2. invalidations' \in Seq(Ids) /\ (invalidations # <<>> => invalidations' # <<>>)
  BY AppendProperties DEF IInv, TypeOK
<1>3. TypeOK'
  BY <1>1, <1>2, CountersKept DEF IInv, TypeOK
<1>4. Serving' /\ SupplySound' /\ RowsReviewed'
  BY <1>1, <1>2 DEF IInv, Serving, SupplySound, RowsReviewed, Rows
<1> QED BY <1>1, <1>3, <1>4 DEF IInv

\* A thread has a row of the Executor once it has read one.
LEMMA ThreadRow ==
  ASSUME IInv, NEW t \in {api, worker}, t.row # Absent
  PROVE  /\ t.row \in Offer /\ t.row.id \in used /\ t.row.id \in Ids
         /\ t.row.status \in Statuses /\ t.row.data \in Data
<1>1. t \in Thread
  BY DEF IInv, TypeOK
<1>2. t.row \in Offer
  BY <1>1 DEF Thread
<1> QED BY <1>2 DEF IInv, ExecutorSound, Sound, Genuine, Offer

LEMMA PatchKeeps ==
  ASSUME IInv, \/ \E s \in Statuses : PatchReads(s)
               \/ PatchSaves \/ PatchPublishes \/ PatchPublicationLost
  PROVE  IInv'
<1>0. /\ offer \in Offer \cup {Absent} /\ api \in Thread /\ worker \in Thread
      /\ used \subseteq Ids /\ validated \subseteq used /\ explained \in BOOLEAN
      /\ ExecutorSound
  BY DEF IInv, TypeOK
<1>1. ASSUME NEW s \in Statuses, PatchReads(s)
      PROVE  IInv'
  <2>1. /\ api' = [step |-> "patching", row |-> offer, to |-> s] /\ offer # Absent /\ Operation
        /\ UNCHANGED <<offer, used, worker, results, invalidations, supply, tx, validated, explained>>
    BY <1>1 DEF PatchReads
  <2>2. api' \in Thread
    BY <1>0, <2>1 DEF Thread
  <2>3. ExecutorSound'
    BY <1>0, <2>1 DEF ExecutorSound, Sound, Genuine
  <2> QED BY <1>0, <2>1, <2>2, <2>3, ExecutorKeeps
<1>2. CASE PatchSaves
  <2> DEFINE saved == [api.row EXCEPT !.status = api.to]
             next == AfterPatch(api.row.status, api.to)
  <2>1. /\ api.step = "patching" /\ offer' = saved
        /\ api' = IF next = "idle" THEN Resting ELSE [api EXCEPT !.step = next, !.row = saved]
        /\ validated' = IF api.to = "VALID" THEN validated \cup {api.row.id} ELSE validated
        /\ UNCHANGED <<used, worker, results, invalidations, supply, tx>> /\ NoOperation
        /\ explained' \in BOOLEAN
    BY <1>0, <1>2 DEF PatchSaves, Explain
  <2>2. /\ api.row # Absent /\ api.row \in Offer /\ api.row.id \in used /\ api.row.id \in Ids
        /\ api.to \in Statuses
    BY <1>0, <2>1, ThreadRow DEF ExecutorSound, Sound, Thread
  <2>3. /\ saved \in Offer /\ saved.id = api.row.id /\ saved.status = api.to
    BY <2>2 DEF Offer
  <2>4. next \in {"idle", "result", "invalidation"} /\ (next = "result" => api.to = "VALID")
    BY DEF AfterPatch
  <2> HIDE DEF saved, next
  <2>5. api' \in Thread
    BY <1>0, <2>1, <2>3, <2>4, Constants DEF Thread
  <2>6. Genuine(offer)'
    BY <2>1, <2>2, <2>3 DEF Genuine
  <2>7. Sound(api)'
    <3>1. CASE next = "idle"
      BY <3>1, <2>1, Constants DEF Sound, Genuine
    <3>2. CASE next # "idle"
      <4>1. api'.row = saved /\ api'.step = next
        BY <3>2, <2>1, <1>0 DEF Thread
      <4>2. saved # Absent
        BY <2>3, Constants
      <4> QED BY <4>1, <4>2, <2>1, <2>2, <2>3, <2>4 DEF Sound, Genuine
    <3> QED BY <3>1, <3>2
  <2>8. Sound(worker)'
    BY <1>0, <2>1 DEF ExecutorSound, Sound, Genuine
  <2> QED BY <1>0, <2>1, <2>2, <2>3, <2>5, <2>6, <2>7, <2>8, ExecutorKeeps DEF ExecutorSound
<1>3. CASE PatchPublishes
  <2>1. /\ api.step \in {"result", "invalidation"}
        /\ UNCHANGED <<offer, used, worker, supply, tx, validated>> /\ NoOperation
        /\ api' = Resting /\ explained' \in BOOLEAN
    BY <1>0, <1>3 DEF PatchPublishes, Explain
  <2>2. api.row # Absent
    BY <1>0, <2>1 DEF ExecutorSound, Sound
  <2>3. /\ UNCHANGED results \/ (\E i \in validated', d \in Data : results' = Append(results, [id |-> i, data |-> d]))
        /\ UNCHANGED invalidations \/ (\E i \in Ids : invalidations' = Append(invalidations, i))
    <3>1. CASE api.step = "result"
      <4>1. api.row.id \in validated
        BY <1>0, <3>1 DEF ExecutorSound, Sound, Genuine
      <4> QED BY <4>1, <1>3, <3>1, <2>1, <2>2, ThreadRow DEF PatchPublishes, PublishResult
    <3>2. CASE api.step = "invalidation"
      BY <1>3, <3>2, <2>2, ThreadRow DEF PatchPublishes, PublishInvalidation
    <3> QED BY <2>1, <3>1, <3>2
  <2>4. ExecutorSound'
    BY <1>0, <2>1, Constants DEF ExecutorSound, Sound, Genuine
  <2> QED BY <1>0, <2>1, <2>3, <2>4, Constants, ExecutorKeeps
<1>4. CASE PatchPublicationLost
  <2>1. /\ UNCHANGED <<offer, used, worker, results, invalidations, supply, tx, validated>>
        /\ Fault /\ api' = Resting /\ explained' \in BOOLEAN
    BY <1>4 DEF PatchPublicationLost, Explain
  <2>2. ExecutorSound'
    BY <1>0, <2>1, Constants DEF ExecutorSound, Sound, Genuine
  <2> QED BY <1>0, <2>1, <2>2, Constants, ExecutorKeeps
<1> QED BY <1>1, <1>2, <1>3, <1>4

LEMMA DeleteKeeps ==
  ASSUME IInv, DeleteReads \/ DeletePublishes \/ DeleteRemoves \/ DeleteFails
  PROVE  IInv'
<1>0. /\ offer \in Offer \cup {Absent} /\ api \in Thread /\ worker \in Thread
      /\ used \subseteq Ids /\ validated \subseteq used /\ explained \in BOOLEAN
      /\ ExecutorSound
  BY DEF IInv, TypeOK
<1>1. CASE DeleteReads
  <2>1. PICK step \in {"deleting", "removing"} :
          api' = [Resting EXCEPT !.step = step, !.row = offer]
    BY <1>1 DEF DeleteReads
  <2>2. api'.step = step /\ api'.row = offer /\ api' \in Thread
    BY <1>0, <2>1, Constants DEF Thread
  <2>3. /\ UNCHANGED <<offer, used, worker, results, invalidations, supply, tx, validated, explained>>
        /\ Operation /\ offer # Absent
    BY <1>1 DEF DeleteReads
  <2>4. ExecutorSound'
    BY <1>0, <2>2, <2>3 DEF ExecutorSound, Sound, Genuine
  <2> QED BY <1>0, <2>2, <2>3, <2>4, ExecutorKeeps
<1>2. CASE DeletePublishes
  <2>1. /\ api.step = "deleting" /\ api' = [api EXCEPT !.step = "removing"]
        /\ UNCHANGED <<offer, used, worker, supply, tx, validated, results>> /\ NoOperation
        /\ invalidations' = Append(invalidations, api.row.id) /\ explained' \in BOOLEAN
    BY <1>0, <1>2 DEF DeletePublishes, PublishInvalidation, Explain
  <2>2. api.row # Absent
    BY <1>0, <2>1 DEF ExecutorSound, Sound
  <2>3. api' \in Thread /\ api'.step = "removing" /\ api'.row = api.row
    BY <1>0, <2>1 DEF Thread
  <2>4. ExecutorSound'
    BY <1>0, <2>1, <2>2, <2>3 DEF ExecutorSound, Sound, Genuine
  <2> QED BY <1>0, <2>1, <2>2, <2>3, <2>4, ThreadRow, ExecutorKeeps
<1>3. CASE DeleteRemoves \/ DeleteFails
  <2>1. /\ api' = Resting /\ offer' \in {offer, Absent} /\ explained' \in BOOLEAN
        /\ UNCHANGED <<used, worker, results, invalidations, supply, tx, validated>>
        /\ NoOperation \/ Fault
    BY <1>0, <1>3 DEF DeleteRemoves, DeleteFails, Explain
  <2>2. ExecutorSound'
    BY <1>0, <2>1, Constants DEF ExecutorSound, Sound, Genuine
  <2> QED BY <1>0, <2>1, <2>2, Constants, ExecutorKeeps
<1> QED BY <1>1, <1>2, <1>3

LEMMA WorkerReadsKeep ==
  ASSUME IInv, RefreshReads \/ ObserveReads \/ TaskEnds
  PROVE  IInv'
<1>0. /\ offer \in Offer \cup {Absent} /\ api \in Thread /\ worker \in Thread
      /\ used \subseteq Ids /\ validated \subseteq used /\ explained \in BOOLEAN
      /\ ExecutorSound
  BY DEF IInv, TypeOK
<1>1. /\ UNCHANGED <<offer, used, api, results, invalidations, supply, tx, validated, explained>>
      /\ Operation \/ NoOperation
  BY DEF RefreshReads, ObserveReads, WorkerBegins, TaskEnds
<1>2. CASE TaskEnds
  <2>1. worker' = Resting
    BY <1>2 DEF TaskEnds
  <2>2. ExecutorSound'
    BY <1>0, <1>1, <2>1, Constants DEF ExecutorSound, Sound, Genuine
  <2> QED BY <1>0, <1>1, <2>1, <2>2, Constants, ExecutorKeeps
<1>3. CASE RefreshReads \/ ObserveReads
  <2>1. PICK step \in {"refreshing", "observing"} :
          /\ worker' = [Resting EXCEPT !.step = step, !.row = offer]
          /\ step = "refreshing" => offer # Absent
    BY <1>3 DEF RefreshReads, ObserveReads, WorkerBegins
  <2>2. worker'.step = step /\ worker'.row = offer /\ worker' \in Thread
    BY <1>0, <2>1, Constants DEF Thread
  <2>3. ExecutorSound'
    BY <1>0, <1>1, <2>1, <2>2 DEF ExecutorSound, Sound, Genuine
  <2> QED BY <1>0, <1>1, <2>2, <2>3, ExecutorKeeps
<1> QED BY <1>2, <1>3

LEMMA RefreshKeeps ==
  ASSUME IInv, \/ \E d \in Data : RefreshSaves(d)
               \/ RefreshPublishes \/ RefreshPublicationLost
  PROVE  IInv'
<1>0. /\ offer \in Offer \cup {Absent} /\ api \in Thread /\ worker \in Thread
      /\ used \subseteq Ids /\ validated \subseteq used /\ explained \in BOOLEAN
      /\ ExecutorSound
  BY DEF IInv, TypeOK
<1>1. ASSUME NEW d \in Data, RefreshSaves(d)
      PROVE  IInv'
  <2> DEFINE saved == [worker.row EXCEPT !.data = d]
  <2>1. /\ worker.step = "refreshing" /\ offer' = saved
        /\ \/ worker' = Resting
           \/ worker.row.status = "VALID" /\ worker' = [worker EXCEPT !.step = "result", !.row = saved]
        /\ UNCHANGED <<used, api, results, invalidations, supply, tx, validated>>
        /\ NoOperation /\ explained' \in BOOLEAN
    BY <1>0, <1>1 DEF RefreshSaves, RefreshIsPublished, Explain
  <2>2. worker.row # Absent /\ Genuine(worker.row)
    BY <1>0, <2>1 DEF ExecutorSound, Sound
  <2>3. saved \in Offer /\ saved.id = worker.row.id /\ saved.status = worker.row.status
    BY <2>2, ThreadRow DEF Offer
  <2> HIDE DEF saved
  <2>4. saved # Absent /\ Genuine(offer)'
    BY <2>1, <2>2, <2>3, Constants DEF Genuine
  <2>5. worker' \in Thread /\ Sound(worker)'
    <3>1. CASE worker' = Resting
      BY <3>1, Constants DEF Sound, Genuine
    <3>2. CASE worker.row.status = "VALID" /\ worker' = [worker EXCEPT !.step = "result", !.row = saved]
      <4>1. worker' \in Thread /\ worker'.step = "result" /\ worker'.row = saved
        BY <1>0, <2>3, <3>2 DEF Thread
      <4> QED BY <3>2, <4>1, <2>1, <2>3, <2>4 DEF Sound, Genuine
    <3> QED BY <2>1, <3>1, <3>2
  <2>6. ExecutorSound'
    BY <1>0, <2>1, <2>4, <2>5 DEF ExecutorSound, Sound, Genuine
  <2> QED BY <1>0, <2>1, <2>3, <2>5, <2>6, ExecutorKeeps
<1>2. CASE RefreshPublishes
  <2>1. /\ worker.step = "result" /\ worker' = Resting
        /\ results' = Append(results, [id |-> worker.row.id, data |-> worker.row.data])
        /\ UNCHANGED <<offer, used, api, invalidations, supply, tx, validated>> /\ NoOperation
        /\ explained' \in BOOLEAN
    BY <1>0, <1>2 DEF RefreshPublishes, PublishResult, Explain
  <2>2. worker.row # Absent /\ worker.row.id \in validated
    BY <1>0, <2>1 DEF ExecutorSound, Sound, Genuine
  <2>3. ExecutorSound'
    BY <1>0, <2>1, Constants DEF ExecutorSound, Sound, Genuine
  <2> QED BY <1>0, <2>1, <2>2, <2>3, ThreadRow, Constants, ExecutorKeeps
<1>3. CASE RefreshPublicationLost
  <2>1. /\ UNCHANGED <<offer, used, api, results, invalidations, supply, tx, validated>>
        /\ Fault /\ worker' = Resting /\ explained' \in BOOLEAN
    BY <1>3 DEF RefreshPublicationLost, Explain
  <2>2. ExecutorSound'
    BY <1>0, <2>1, Constants DEF ExecutorSound, Sound, Genuine
  <2> QED BY <1>0, <2>1, <2>2, Constants, ExecutorKeeps
<1> QED BY <1>1, <1>2, <1>3

LEMMA ObserveKeeps ==
  ASSUME IInv, NEW d \in Data, ObserveSaves(d)
  PROVE  IInv'
<1>0. /\ offer \in Offer \cup {Absent} /\ api \in Thread /\ worker \in Thread
      /\ used \subseteq Ids /\ validated \subseteq used /\ explained \in BOOLEAN
      /\ ExecutorSound
  BY DEF IInv, TypeOK
<1>1. /\ worker.step = "observing" /\ worker' = Resting
      /\ UNCHANGED <<api, results, invalidations, supply, tx, validated>> /\ NoOperation
      /\ explained' \in BOOLEAN
  BY <1>0 DEF ObserveSaves, Explain
<1>2. CASE worker.row = Absent
  <2>1. PICK i \in Ids \ used :
          offer' = [id |-> i, status |-> "NEW", data |-> d] /\ used' = used \cup {i}
    BY <1>2 DEF ObserveSaves
  <2>2. offer' \in Offer /\ offer'.id = i /\ offer'.status = "NEW"
    BY <2>1 DEF Offer, Statuses
  <2>3. ExecutorSound'
    BY <1>0, <1>1, <2>1, <2>2, Constants DEF ExecutorSound, Sound, Genuine
  <2> QED BY <1>0, <1>1, <2>1, <2>2, <2>3, Constants, ExecutorKeeps
<1>3. CASE worker.row # Absent
  <2>1. offer' = [worker.row EXCEPT !.data = d] /\ used' = used
    BY <1>3 DEF ObserveSaves
  <2>2. offer' \in Offer /\ offer'.id = worker.row.id /\ offer'.status = worker.row.status
    BY <1>3, <2>1, ThreadRow DEF Offer
  <2>3. ExecutorSound'
    BY <1>0, <1>1, <1>3, <2>1, <2>2, Constants DEF ExecutorSound, Sound, Genuine
  <2> QED BY <1>0, <1>1, <2>1, <2>2, <2>3, Constants, ExecutorKeeps
<1> QED BY <1>2, <1>3
-----------------------------------------------------------------------------
(* Steps of Supply *)

\* A step that opens one transaction changes nothing else.
LEMMA OpenKeeps ==
  ASSUME IInv, UNCHANGED <<executor, results, invalidations, supply, explained>>,
         NoOperation \/ Operation, NEW p \in Clients, NEW t \in Transaction,
         tx' = [tx EXCEPT ![p] = t],
         t.key \in validated \cup {ManualId},
         p # "operator" => t.written.resource = t.loaded.resource,
         p = "resultListener" => results # <<>>,
         p = "invalidationListener" => invalidations # <<>>
  PROVE  IInv'
<1>1. TypeOK'
  BY CountersKept DEF IInv, TypeOK, executor
<1>2. Serving'
  BY DEF IInv, Serving, TypeOK, Clients
<1>3. SupplySound'
  BY DEF IInv, SupplySound, TypeOK, executor
<1>4. ExecutorSound' /\ ResultsReviewed' /\ RowsReviewed'
  BY DEF IInv, ExecutorSound, Sound, Genuine, ResultsReviewed, RowsReviewed, Rows, executor
<1> QED BY <1>1, <1>2, <1>3, <1>4 DEF IInv

LEMMA RowIsOfSupply ==
  ASSUME IInv, NEW k \in Rows
  PROVE  k \in PublicIds /\ supply[k] \in SupplyRow /\ k \in validated \cup {ManualId}
BY DEF IInv, TypeOK, Rows, RowsReviewed

LEMMA ResultLoadsKeeps ==
  ASSUME IInv, ResultLoads
  PROVE  IInv'
<1> DEFINE m == Head(results)
<1>1. /\ results # <<>> /\ NoOperation
      /\ UNCHANGED <<executor, results, invalidations, supply, explained>>
  BY DEF ResultLoads
<1>2. m \in OfferMessage /\ m.id \in validated
  <2>1. /\ results \in Seq(OfferMessage) /\ Len(results) \in Nat /\ Len(results) > 0
        /\ m = results[1]
    BY <1>1, HeadTailProperties, LenProperties, EmptySeq DEF IInv, TypeOK
  <2> HIDE DEF m
  <2>2. 1 \in 1..Len(results) /\ results[1] \in OfferMessage
    BY <2>1, ElementOfSeq
  <2> QED BY <2>1, <2>2 DEF IInv, ResultsReviewed
<1>3. PICK t : /\ tx' = [tx EXCEPT !["resultListener"] = t]
               /\ \/ t = Open(m.id, NoRow, Updated(NoRow, m))
                  \/ \E k \in Rows : t = Open(k, supply[k], Updated(supply[k], m))
  BY DEF ResultLoads, Targets
<1> HIDE DEF m
<1>4. /\ t \in Transaction /\ t.key \in validated \cup {ManualId}
      /\ t.written.resource = t.loaded.resource
  <2>1. CASE t = Open(m.id, NoRow, Updated(NoRow, m))
    BY <1>2, <2>1 DEF Open, Updated, NoRow, Transaction, SupplyRow, PublicIds, OfferMessage
  <2>2. ASSUME NEW k \in Rows, t = Open(k, supply[k], Updated(supply[k], m))
        PROVE  /\ t \in Transaction /\ t.key \in validated \cup {ManualId}
               /\ t.written.resource = t.loaded.resource
    <3>1. Updated(supply[k], m) \in SupplyRow /\ Updated(supply[k], m).resource = supply[k].resource
      BY <1>2, RowIsOfSupply DEF Updated, SupplyRow, OfferMessage
    <3> QED BY <2>2, <3>1, RowIsOfSupply DEF Open, Transaction
  <2> QED BY <1>3, <2>1, <2>2
<1> QED BY <1>1, <1>3, <1>4, OpenKeeps DEF Clients

LEMMA InvalidationLoadsKeeps ==
  ASSUME IInv, InvalidationLoads
  PROVE  IInv'
<1>1. /\ invalidations # <<>> /\ NoOperation
      /\ UNCHANGED <<executor, results, invalidations, supply, explained>>
  BY DEF InvalidationLoads
<1>2. PICK k \in Rows :
        tx' = [tx EXCEPT !["invalidationListener"] =
                 Open(k, supply[k], [supply[k] EXCEPT !.status = "UNAVAILABLE"])]
  BY DEF InvalidationLoads, InvalidationTargets
<1>3. /\ [supply[k] EXCEPT !.status = "UNAVAILABLE"] \in SupplyRow
      /\ [supply[k] EXCEPT !.status = "UNAVAILABLE"].resource = supply[k].resource
  BY RowIsOfSupply DEF SupplyRow
<1>4. PICK found \in SupplyRow : /\ found.resource = supply[k].resource
                                 /\ tx' = [tx EXCEPT !["invalidationListener"] = Open(k, supply[k], found)]
  BY <1>2, <1>3
<1>5. /\ Open(k, supply[k], found) \in Transaction
      /\ Open(k, supply[k], found).key = k
      /\ Open(k, supply[k], found).written.resource = Open(k, supply[k], found).loaded.resource
  BY <1>4, RowIsOfSupply DEF Open, Transaction
<1> QED BY <1>1, <1>4, <1>5, RowIsOfSupply, OpenKeeps DEF Clients

LEMMA OperatorKeeps ==
  ASSUME IInv, \/ \E k \in PublicIds, r \in Resources : Associate(k, r)
               \/ \E d \in Data, r \in Resources : CreateManual(d, r)
  PROVE  IInv'
<1>1. ASSUME NEW k \in PublicIds, NEW r \in Resources, Associate(k, r)
      PROVE  IInv'
  <2>1. k \in Rows /\ Operation /\ UNCHANGED <<executor, results, invalidations, supply, explained>>
    BY <1>1 DEF Associate
  <2>2. [supply[k] EXCEPT !.resource = r] \in SupplyRow
    BY <2>1, RowIsOfSupply DEF SupplyRow
  <2>3. PICK found \in SupplyRow : tx' = [tx EXCEPT !["operator"] = Open(k, supply[k], found)]
    BY <1>1, <2>2 DEF Associate
  <2>4. Open(k, supply[k], found) \in Transaction /\ Open(k, supply[k], found).key = k
    BY <2>1, RowIsOfSupply DEF Open, Transaction
  <2> QED BY <2>1, <2>3, <2>4, RowIsOfSupply, OpenKeeps DEF Clients
<1>2. ASSUME NEW d \in Data, NEW r \in Resources, CreateManual(d, r)
      PROVE  IInv'
  <2> DEFINE found == [status |-> "AVAILABLE", data |-> d, resource |-> r]
  <2>1. /\ tx' = [tx EXCEPT !["operator"] = Open(ManualId, NoRow, found)]
        /\ Operation /\ UNCHANGED <<executor, results, invalidations, supply, explained>>
    BY <1>2 DEF CreateManual
  <2>2. found \in SupplyRow
    BY DEF SupplyRow
  <2> HIDE DEF found
  <2>3. Open(ManualId, NoRow, found) \in Transaction /\ Open(ManualId, NoRow, found).key = ManualId
    BY <2>2 DEF Open, Transaction, PublicIds
  <2> QED BY <2>1, <2>3, OpenKeeps DEF Clients
<1> QED BY <1>1, <1>2

\* What is left of a queue is what was in it.
LEMMA TailKeeps ==
  ASSUME NEW S, NEW s \in Seq(S), s # <<>>
  PROVE  /\ Tail(s) \in Seq(S)
         /\ \A n \in 1..Len(Tail(s)) : \E m \in 1..Len(s) : Tail(s)[n] = s[m]
<1>1. /\ Tail(s) \in Seq(S) /\ Len(Tail(s)) = Len(s) - 1 /\ Len(s) \in Nat /\ Len(s) > 0
      /\ \A n \in 1..Len(Tail(s)) : Tail(s)[n] = s[n + 1]
  BY HeadTailProperties, LenProperties, EmptySeq
<1>2. \A n \in 1..Len(Tail(s)) : n + 1 \in 1..Len(s)
  BY <1>1
<1> QED BY <1>1, <1>2

LEMMA DiscardsKeep ==
  ASSUME IInv, ResultDiscarded \/ InvalidationIgnored \/ InvalidationDiscarded
  PROVE  IInv'
<1>1. /\ UNCHANGED <<executor, supply, tx>> /\ (NoOperation \/ Fault) /\ explained' \in BOOLEAN
      /\ \/ results # <<>> /\ results' = Tail(results) /\ UNCHANGED invalidations
            /\ tx["resultListener"] = Closed
         \/ invalidations # <<>> /\ invalidations' = Tail(invalidations) /\ UNCHANGED results
            /\ tx["invalidationListener"] = Closed
  BY DEF ResultDiscarded, InvalidationIgnored, InvalidationDiscarded, Explain, IInv, TypeOK
<1>2. results' \in Seq(OfferMessage) /\ invalidations' \in Seq(Ids) /\ ResultsReviewed'
  <2>1. UNCHANGED validated /\ results \in Seq(OfferMessage) /\ invalidations \in Seq(Ids)
    BY <1>1 DEF executor, IInv, TypeOK
  <2>2. CASE UNCHANGED results
    BY <1>1, <2>1, <2>2, TailKeeps DEF IInv, ResultsReviewed
  <2>3. CASE results # <<>> /\ results' = Tail(results) /\ UNCHANGED invalidations
    BY <2>1, <2>3, TailKeeps DEF IInv, ResultsReviewed
  <2> QED BY <1>1, <2>2, <2>3
<1>3. TypeOK'
  BY <1>1, <1>2, CountersKept DEF IInv, TypeOK, executor
<1>4. ExecutorSound' /\ Serving' /\ SupplySound' /\ RowsReviewed'
  BY <1>1 DEF IInv, ExecutorSound, Sound, Genuine, Serving, SupplySound, RowsReviewed, Rows, executor
<1> QED BY <1>2, <1>3, <1>4 DEF IInv

\* A commit acknowledges the message at the head of its queue, or leaves it there.
LEMMA CommitQueues ==
  ASSUME IInv, NEW p \in Clients, Commit(p)
  PROVE  /\ NoOperation \/ Fault
         /\ \/ UNCHANGED results
            \/ p = "resultListener" /\ results # <<>> /\ results' = Tail(results)
         /\ \/ UNCHANGED invalidations
            \/ p = "invalidationListener" /\ invalidations # <<>> /\ invalidations' = Tail(invalidations)
<1>1. CASE p = "resultListener"
  <2>1. Acknowledge(results) /\ UNCHANGED invalidations /\ results # <<>>
    BY <1>1 DEF Commit, IInv, Serving
  <2> QED BY <1>1, <2>1 DEF Acknowledge
<1>2. CASE p = "invalidationListener"
  <2>1. Acknowledge(invalidations) /\ UNCHANGED results /\ invalidations # <<>>
    BY <1>2 DEF Commit, IInv, Serving
  <2> QED BY <1>2, <2>1 DEF Acknowledge
<1>3. CASE p = "operator"
  BY <1>3 DEF Commit
<1> QED BY <1>1, <1>2, <1>3 DEF Clients

\* A commit writes the row of its key only.
LEMMA CommitWrites ==
  ASSUME IInv, NEW p \in Clients, Commit(p)
  PROVE  /\ tx[p] \in Transaction /\ tx[p].key \in PublicIds
         /\ supply' = [supply EXCEPT ![tx[p].key] = Flushed(tx[p])]
         /\ Flushed(tx[p]) \in SupplyRow \cup {NoRow}
         /\ tx' = [tx EXCEPT ![p] = Closed] /\ tx'[p] = Closed
         /\ UNCHANGED executor
<1>1. tx[p] \in Transaction /\ tx[p] # Closed
  BY DEF IInv, TypeOK, Commit
<1>2. tx[p].key \in PublicIds /\ tx[p].written \in SupplyRow
  BY <1>1 DEF Transaction
<1>3. supply[tx[p].key] \in SupplyRow \cup {NoRow}
  BY <1>2 DEF IInv, TypeOK
<1> QED BY <1>1, <1>2, <1>3 DEF Commit, Flushed, IInv, TypeOK

LEMMA CommitKeeps ==
  ASSUME IInv, NEW p \in Clients, Commit(p)
  PROVE  IInv'
<1> DEFINE k == tx[p].key
           found == Flushed(tx[p])
<1>1. /\ k \in PublicIds /\ found \in SupplyRow \cup {NoRow} /\ tx[p] # Closed
      /\ supply' = [supply EXCEPT ![k] = found] /\ tx' = [tx EXCEPT ![p] = Closed]
      /\ UNCHANGED <<offer, used, api, worker, validated>> /\ explained' \in BOOLEAN
  BY CommitWrites DEF Commit, executor, Explain, IInv, TypeOK
<1>2. k \in validated \cup {ManualId}
  BY <1>1 DEF IInv, SupplySound
<1> HIDE DEF k, found
<1>3. results' \in Seq(OfferMessage) /\ ResultsReviewed'
  <2>1. CASE UNCHANGED results
    BY <1>1, <2>1 DEF IInv, TypeOK, ResultsReviewed
  <2>2. CASE results # <<>> /\ results' = Tail(results)
    BY <1>1, <2>2, TailKeeps DEF IInv, TypeOK, ResultsReviewed
  <2> QED BY <2>1, <2>2, CommitQueues
<1>4. invalidations' \in Seq(Ids)
  BY CommitQueues, TailKeeps DEF IInv, TypeOK
<1>5. TypeOK'
  BY <1>1, <1>3, <1>4, CommitQueues, CountersKept DEF IInv, TypeOK
<1>6. Serving'
  BY <1>1, CommitQueues DEF IInv, Serving, TypeOK, Clients
<1>7. SupplySound'
  BY <1>1 DEF IInv, SupplySound, TypeOK
<1>8. RowsReviewed'
  BY <1>1, <1>2 DEF IInv, RowsReviewed, Rows, TypeOK
<1>9. ExecutorSound'
  BY <1>1 DEF IInv, ExecutorSound, Sound, Genuine
<1> QED BY <1>3, <1>5, <1>6, <1>7, <1>8, <1>9 DEF IInv
-----------------------------------------------------------------------------
(* The invariant holds *)

LEMMA InitInvariant ==
  ASSUME Init
  PROVE  IInv
<1>1. TypeOK
  <2>1. /\ results = <<>> /\ invalidations = <<>> /\ validated = {} /\ used = {}
        /\ offer = Absent /\ api = Resting /\ worker = Resting /\ explained = FALSE
        /\ supply = [k \in PublicIds |-> NoRow] /\ tx = [p \in Clients |-> Closed]
        /\ ops \in 0..MaxOps /\ faults \in 0..MaxFaults
    BY PipelineAssumption DEF Init
  <2>2. results \in Seq(OfferMessage) /\ invalidations \in Seq(Ids)
    BY <2>1, EmptySeq
  <2> QED BY <2>1, <2>2, Constants DEF TypeOK
<1>2. ExecutorSound
  BY Constants DEF Init, ExecutorSound, Sound, Genuine
<1>3. Serving /\ ResultsReviewed /\ SupplySound /\ RowsReviewed
  <2>1. Len(results) = 0
    BY DEF Init
  <2> QED BY <2>1 DEF Init, Serving, ResultsReviewed, SupplySound, RowsReviewed, Rows, Clients
<1> QED BY <1>1, <1>2, <1>3 DEF IInv

LEMMA StepInvariant ==
  ASSUME IInv, [Next]_vars
  PROVE  IInv'
<1>1. CASE Next
  BY <1>1, PatchKeeps, DeleteKeeps, WorkerReadsKeep, RefreshKeeps, ObserveKeeps,
     ResultLoadsKeeps, InvalidationLoadsKeeps, OperatorKeeps, DiscardsKeep, CommitKeeps DEF Next
<1>2. CASE UNCHANGED vars
  <2>1. UNCHANGED <<offer, used, api, worker, results, invalidations, supply, tx, ops, faults,
                    validated, explained>>
    BY <1>2 DEF vars
  <2> QED BY <2>1 DEF IInv, TypeOK, ExecutorSound, Sound, Genuine, Serving, ResultsReviewed,
                      SupplySound, RowsReviewed, Rows
<1> QED BY <1>1, <1>2

LEMMA InvariantHolds == Spec => []IInv
BY InitInvariant, StepInvariant, PTL DEF Spec

-----------------------------------------------------------------------------
(* Agreement of Supply with the Executor: the invariant                      *)

\* The rows of Supply whose id the Executor gave.
Given == Rows \cap Ids

\* Only the first result of a product creates a row: the later ones find it.
OneGivenRow == \A k, l \in Given : k = l

\* What a step of a thread says of the row it read.
Deciding ==
  /\ api.step = "deleting" => api.row.status = "VALID"
  /\ api.step = "invalidation" => api.row.status # "VALID"

\* The result being served is the head of its queue, and the row it updates is still
\* the one its query would find.
ResultServed ==
  LET t == tx["resultListener"]
      m == Head(results)
  IN t # Closed =>
       /\ t.written = Updated(t.loaded, m)
       /\ t.key = m.id \/ (t.key \in Rows /\ m.id \notin Rows)
       /\ t.key \notin Rows => t.key \in Ids /\ Given = {}

InvalidationServed ==
  LET t == tx["invalidationListener"]
  IN t # Closed => t.key \in Given /\ t.written = [t.loaded EXCEPT !.status = "UNAVAILABLE"]

\* The operator changes no price, and creates only the manual offer.
OperatorServed ==
  LET t == tx["operator"]
  IN t # Closed =>
       \/ /\ t.key \in Rows
          /\ t.written.status = t.loaded.status /\ t.written.data = t.loaded.data
       \/ t.key = ManualId /\ t.loaded = NoRow

Served == OneGivenRow /\ ResultServed /\ InvalidationServed /\ OperatorServed

\* The last result on its way is what the Executor's row says.
Announced ==
  results # <<>> /\ results[Len(results)] = [id |-> offer.id, data |-> offer.data]

\* Supply prices no offer of the Executor, or is about to stop.
Withdrawn ==
  /\ results = <<>>
  /\ invalidations # <<>> \/ \A k \in Given : supply[k].status = "UNAVAILABLE"

\* What makes Supply price a valid offer as the Executor says, or will.
Priced ==
  \/ api.step = "result" \/ worker.step = "result" \/ Announced
  \/ results = <<>> /\ invalidations = <<>> /\ Agrees
  \/ api.step = "removing" /\ api.row.status = "VALID"

\* While nothing has explained a disagreement, at most one of the queues carries
\* messages, and what has still to happen leads to the agreement.
Settling ==
  ~explained =>
    /\ results = <<>> \/ invalidations = <<>>
    /\ offer.status = "VALID" => Priced
    /\ offer.status # "VALID" => api.step = "invalidation" \/ Withdrawn
    /\ api.step = "removing" /\ api.row.status = "VALID" => Withdrawn

AInv == IInv /\ Deciding /\ Served /\ Settling
-----------------------------------------------------------------------------
(* The rows that transactions are about *)

\* The message at the head of the results carries an id of the Executor.
LEMMA HeadResult ==
  ASSUME IInv, results # <<>>
  PROVE  Head(results) \in OfferMessage /\ Head(results).id \in Ids
<1>1. /\ results \in Seq(OfferMessage) /\ Len(results) \in Nat /\ Len(results) > 0
      /\ Head(results) = results[1]
  BY HeadTailProperties, LenProperties, EmptySeq DEF IInv, TypeOK
<1>2. 1 \in 1..Len(results) /\ results[1] \in OfferMessage
  BY <1>1, ElementOfSeq
<1> QED BY <1>1, <1>2 DEF OfferMessage

\* A message added to a queue leaves its head; a queue is empty when its length is 0.
LEMMA Appended ==
  ASSUME NEW S, NEW s \in Seq(S), NEW e \in S
  PROVE  /\ Append(s, e) # <<>> /\ Append(s, e)[Len(Append(s, e))] = e
         /\ s # <<>> => Head(Append(s, e)) = Head(s)
<1>1. /\ Len(s) \in Nat /\ Append(s, e) \in Seq(S) /\ Len(Append(s, e)) = Len(s) + 1
      /\ Append(s, e)[Len(s) + 1] = e
      /\ \A n \in 1..Len(s) : Append(s, e)[n] = s[n]
  BY AppendProperties, LenProperties
<1>2. Append(s, e) # <<>>
  BY <1>1
<1>3. ASSUME s # <<>> PROVE Head(Append(s, e)) = Head(s)
  <2>1. Len(s) > 0
    BY <1>1, <1>3, EmptySeq
  <2>2. 1 \in 1..Len(s)
    BY <1>1, <2>1
  <2>3. Head(s) = s[1] /\ Head(Append(s, e)) = Append(s, e)[1]
    BY <1>1, <1>2, <1>3, HeadTailProperties
  <2> QED BY <1>1, <2>2, <2>3
<1> QED BY <1>1, <1>2, <1>3

\* The Executor touches neither the rows nor the transactions of Supply.
LEMMA ExecutorServes ==
  ASSUME IInv, Served, UNCHANGED <<supply, tx>>,
         \/ UNCHANGED results
         \/ \E m \in OfferMessage : results' = Append(results, m)
  PROVE  Served'
<1>1. results # <<>> => Head(results') = Head(results)
  BY Appended DEF IInv, TypeOK
<1>2. Rows' = Rows /\ Given' = Given
  BY DEF Rows, Given
<1>3. ResultServed'
  BY <1>1, <1>2 DEF IInv, Serving, Served, ResultServed
<1> QED BY <1>2, <1>3 DEF Served, OneGivenRow, InvalidationServed, OperatorServed

\* A load finds the row the transaction is about.
LEMMA LoadServes ==
  ASSUME IInv, Served,
         \/ ResultLoads \/ InvalidationLoads
         \/ \E k \in PublicIds, r \in Resources : Associate(k, r)
         \/ \E d \in Data, r \in Resources : CreateManual(d, r)
  PROVE  Served'
<1>0. /\ UNCHANGED <<supply, results, invalidations>>
      /\ tx \in [Clients -> Transaction \cup {Closed}]
  BY DEF ResultLoads, InvalidationLoads, Associate, CreateManual, IInv, TypeOK
<1>1. Rows' = Rows /\ Given' = Given
  BY <1>0 DEF Rows, Given
<1>2. CASE ResultLoads
  <2> DEFINE m == Head(results)
  <2>1. m.id \in Ids /\ m.id \in PublicIds
    BY <1>2, HeadResult DEF ResultLoads, PublicIds
  <2>2. /\ tx'["invalidationListener"] = tx["invalidationListener"]
        /\ tx'["operator"] = tx["operator"]
    BY <1>0, <1>2 DEF ResultLoads, Clients
  <2>3. \/ Targets(m.id) = {} /\ tx'["resultListener"] = Open(m.id, NoRow, Updated(NoRow, m))
        \/ \E k \in Targets(m.id) :
             tx'["resultListener"] = Open(k, supply[k], Updated(supply[k], m))
    BY <1>0, <1>2 DEF ResultLoads, Clients
  <2>4. ResultServed'
    <3>1. CASE Targets(m.id) = {} /\ tx'["resultListener"] = Open(m.id, NoRow, Updated(NoRow, m))
      <4>1. Rows = {}
        BY <3>1 DEF Targets
      <4> QED BY <3>1, <4>1, <1>0, <1>1, <2>1 DEF ResultServed, Open, Given
    <3>2. ASSUME NEW k \in Targets(m.id),
                 tx'["resultListener"] = Open(k, supply[k], Updated(supply[k], m))
          PROVE  ResultServed'
      BY <3>2, <1>0, <1>1 DEF ResultServed, Open, Targets
    <3> QED BY <2>3, <3>1, <3>2
  <2> QED BY <1>1, <2>2, <2>4 DEF Served, OneGivenRow, InvalidationServed, OperatorServed
<1>3. CASE InvalidationLoads
  <2>1. PICK k \in Rows :
          /\ k = Head(invalidations)
          /\ tx' = [tx EXCEPT !["invalidationListener"] =
                      Open(k, supply[k], [supply[k] EXCEPT !.status = "UNAVAILABLE"])]
    BY <1>3 DEF InvalidationLoads, InvalidationTargets
  <2>2. k \in Ids
    BY <1>3, <2>1, HeadTailProperties DEF InvalidationLoads, IInv, TypeOK
  <2>3. /\ tx'["resultListener"] = tx["resultListener"] /\ tx'["operator"] = tx["operator"]
        /\ tx'["invalidationListener"] =
             Open(k, supply[k], [supply[k] EXCEPT !.status = "UNAVAILABLE"])
    BY <1>0, <2>1 DEF Clients
  <2>4. InvalidationServed'
    BY <1>1, <2>2, <2>3 DEF InvalidationServed, Open, Given
  <2> QED BY <1>0, <1>1, <2>3, <2>4 DEF Served, OneGivenRow, ResultServed, OperatorServed
<1>4. ASSUME NEW k \in PublicIds, NEW r \in Resources, Associate(k, r)
      PROVE  Served'
  <2>1. k \in Rows /\ supply[k] \in SupplyRow
    BY <1>4, RowIsOfSupply DEF Associate
  <2>2. /\ tx'["resultListener"] = tx["resultListener"]
        /\ tx'["invalidationListener"] = tx["invalidationListener"]
        /\ tx'["operator"] = Open(k, supply[k], [supply[k] EXCEPT !.resource = r])
    BY <1>0, <1>4 DEF Associate, Clients
  <2>3. OperatorServed'
    BY <1>1, <2>1, <2>2 DEF OperatorServed, Open, SupplyRow
  <2> QED BY <1>0, <1>1, <2>2, <2>3 DEF Served, OneGivenRow, ResultServed, InvalidationServed
<1>5. ASSUME NEW d \in Data, NEW r \in Resources, CreateManual(d, r)
      PROVE  Served'
  <2>1. /\ tx'["resultListener"] = tx["resultListener"]
        /\ tx'["invalidationListener"] = tx["invalidationListener"]
        /\ tx'["operator"] =
             Open(ManualId, NoRow, [status |-> "AVAILABLE", data |-> d, resource |-> r])
    BY <1>0, <1>5 DEF CreateManual, Clients
  <2>2. OperatorServed'
    BY <2>1 DEF OperatorServed, Open
  <2> QED BY <1>0, <1>1, <2>1, <2>2 DEF Served, OneGivenRow, ResultServed, InvalidationServed
<1> QED BY <1>2, <1>3, <1>4, <1>5

\* A result or an invalidation is dropped only when nothing serves it.
LEMMA DiscardServes ==
  ASSUME IInv, Served, ResultDiscarded \/ InvalidationIgnored \/ InvalidationDiscarded
  PROVE  Served'
<1>1. /\ UNCHANGED <<supply, tx>>
      /\ tx["resultListener"] = Closed \/ UNCHANGED results
  BY DEF ResultDiscarded, InvalidationIgnored, InvalidationDiscarded
<1>2. Rows' = Rows /\ Given' = Given
  BY <1>1 DEF Rows, Given
<1> QED BY <1>1, <1>2
        DEF Served, OneGivenRow, ResultServed, InvalidationServed, OperatorServed

\* A commit removes no row, and adds at most the one it writes.
LEMMA CommitRows ==
  ASSUME IInv, NEW p \in Clients, Commit(p)
  PROVE  /\ Rows \subseteq Rows' /\ Rows' \subseteq Rows \cup {tx[p].key}
         /\ \A k \in PublicIds : k # tx[p].key => supply'[k] = supply[k]
         /\ ~StaleCommit(p) => supply'[tx[p].key] = tx[p].written
         /\ ~StaleCommit(p) => tx[p].key \in Rows'
<1>1. /\ tx[p] \in Transaction /\ tx[p].key \in PublicIds /\ tx[p].written \in SupplyRow
      /\ supply' = [supply EXCEPT ![tx[p].key] = Flushed(tx[p])]
      /\ supply \in [PublicIds -> SupplyRow \cup {NoRow}]
  BY CommitWrites DEF Transaction, IInv, TypeOK
<1>2. tx[p].written # NoRow
  BY <1>1 DEF SupplyRow, NoRow
<1>3. /\ supply'[tx[p].key] = Flushed(tx[p])
      /\ \A k \in PublicIds : k # tx[p].key => supply'[k] = supply[k]
  BY <1>1
<1>4. /\ Flushed(tx[p]) \in {supply[tx[p].key], tx[p].written}
      /\ ~StaleCommit(p) => Flushed(tx[p]) = tx[p].written
  BY DEF Flushed, StaleCommit
<1>5. Rows \subseteq Rows'
  BY <1>2, <1>3, <1>4 DEF Rows
<1>6. Rows' \subseteq Rows \cup {tx[p].key}
  BY <1>3 DEF Rows
<1> QED BY <1>1, <1>2, <1>3, <1>4, <1>5, <1>6 DEF Rows

\* The only row a commit can add with an id of the Executor is the first.
LEMMA CommitGiven ==
  ASSUME IInv, Served, NEW p \in Clients, Commit(p)
  PROVE  /\ Given \subseteq Given' /\ OneGivenRow'
         /\ tx[p].key \in Rows \/ p # "resultListener" => Given' = Given
         /\ tx[p].key \in Rows \/ tx[p].key = ManualId \/ p = "resultListener"
<1>0. tx[p] # Closed
  BY DEF Commit
<1>1. tx[p].key \in Rows \/ tx[p].key = ManualId \/ p = "resultListener"
  BY <1>0 DEF Clients, Served, InvalidationServed, OperatorServed, Given
<1>2. Rows \subseteq Rows' /\ Rows' \subseteq Rows \cup {tx[p].key}
  BY CommitRows
<1>3. tx[p].key \in Rows \/ p # "resultListener" => Given' = Given
  BY <1>1, <1>2, PipelineAssumption DEF Given
<1>4. CASE tx[p].key \in Rows \/ p # "resultListener"
  <2>1. OneGivenRow'
    BY <1>3, <1>4 DEF Served, OneGivenRow
  <2> QED BY <1>1, <1>2, <1>3, <2>1 DEF Given
<1>5. CASE tx[p].key \notin Rows /\ p = "resultListener"
  <2>1. Given = {}
    BY <1>0, <1>5 DEF Served, ResultServed
  <2>2. Given' \subseteq {tx[p].key}
    BY <1>2, <2>1 DEF Given
  <2> QED BY <1>1, <1>2, <1>3, <2>1, <2>2 DEF OneGivenRow
<1> QED BY <1>4, <1>5

LEMMA CommitServes ==
  ASSUME IInv, Served, NEW p \in Clients, Commit(p)
  PROVE  Served'
<1>1. /\ tx' = [tx EXCEPT ![p] = Closed] /\ tx \in [Clients -> Transaction \cup {Closed}]
      /\ tx'[p] = Closed
  BY CommitWrites DEF IInv, TypeOK
<1>2. /\ Rows \subseteq Rows' /\ Rows' \subseteq Rows \cup {tx[p].key}
      /\ Given \subseteq Given' /\ OneGivenRow'
      /\ p # "resultListener" => Given' = Given
      /\ tx[p].key \in Rows \/ tx[p].key = ManualId \/ p = "resultListener"
  BY CommitRows, CommitGiven
<1>3. ResultServed'
  <2>1. CASE p = "resultListener"
    BY <1>1, <2>1 DEF ResultServed
  <2>2. CASE p # "resultListener" /\ tx["resultListener"] # Closed
    <3>1. tx'["resultListener"] = tx["resultListener"] /\ UNCHANGED results
      BY <1>1, <2>2, CommitQueues
    <3>2. Head(results).id \in Ids
      BY <2>2, HeadResult DEF IInv, Serving
    <3>3. Head(results).id \notin Rows => Head(results).id \notin Rows'
      BY <1>2, <2>2, <3>2, PipelineAssumption
    <3> QED BY <1>2, <2>2, <3>1, <3>3 DEF Served, ResultServed
  <2>3. CASE p # "resultListener" /\ tx["resultListener"] = Closed
    BY <1>1, <2>3 DEF ResultServed, Clients
  <2> QED BY <2>1, <2>2, <2>3
<1>4. InvalidationServed'
  BY <1>1, <1>2 DEF Served, InvalidationServed, Clients
<1>5. OperatorServed'
  BY <1>1, <1>2 DEF Served, OperatorServed, Clients
<1> QED BY <1>2, <1>3, <1>4, <1>5 DEF Served
-----------------------------------------------------------------------------
(* What each step leaves to be done *)

\* A step that leaves the row, the queues and Supply alone, and the thread of the API.
LEMMA QuietSettles ==
  ASSUME Settling, UNCHANGED <<offer, results, invalidations, supply>>,
         explained' = FALSE => explained = FALSE,
         UNCHANGED api \/ (/\ api.step \notin {"result", "invalidation", "removing"}
                           /\ api'.step = "removing" => api'.row.status # "VALID"),
         worker.step = "result" => worker'.step = "result" \/ explained' = TRUE,
         explained \in BOOLEAN, explained' \in BOOLEAN
  PROVE  Settling'
<1>1. Given' = Given /\ Rows' = Rows
  BY DEF Given, Rows
<1>2. /\ Withdrawn' = Withdrawn /\ Announced' = Announced /\ Agrees' = Agrees
  BY <1>1 DEF Withdrawn, Announced, Agrees, Targets
<1> QED BY <1>2 DEF Settling, Priced

\* The facts the steps of the Executor share.
LEMMA Facts ==
  ASSUME AInv
  PROVE  /\ offer \in Offer \cup {Absent} /\ api \in Thread /\ worker \in Thread
         /\ results \in Seq(OfferMessage) /\ invalidations \in Seq(Ids)
         /\ explained \in BOOLEAN
         /\ api.step = "result" => api.row.status = "VALID"
         /\ worker.step = "result" => worker.row.status = "VALID"
         /\ Settling /\ Deciding /\ IInv /\ Served
         /\ Resting.step = "idle" /\ Resting.row.status = "NEW"
BY Constants DEF AInv, IInv, TypeOK, ExecutorSound, Sound

LEMMA PatchSettles ==
  ASSUME AInv, \/ \E s \in Statuses : PatchReads(s)
               \/ PatchSaves \/ PatchPublishes \/ PatchPublicationLost
  PROVE  Settling' /\ Deciding'
<1>0. /\ api \in Thread /\ Deciding /\ Settling /\ explained \in BOOLEAN /\ IInv
      /\ api.step = "result" => api.row.status = "VALID"
      /\ results \in Seq(OfferMessage) /\ invalidations \in Seq(Ids)
      /\ Resting.step = "idle" /\ Resting.row.status = "NEW"
  BY Facts
<1>1. ASSUME NEW s \in Statuses, PatchReads(s)
      PROVE  Settling' /\ Deciding'
  <2>1. /\ UNCHANGED <<offer, worker, results, invalidations, supply, explained>>
        /\ api.step = "idle" /\ api'.step = "patching"
    BY <1>1 DEF PatchReads
  <2>2. Settling'
    BY <1>0, <2>1, QuietSettles
  <2> QED BY <2>1, <2>2 DEF Deciding
<1>2. CASE PatchSaves
  <2> DEFINE saved == [api.row EXCEPT !.status = api.to]
             next == AfterPatch(api.row.status, api.to)
  <2>1. /\ api.step = "patching" /\ offer' = saved
        /\ api' = IF next = "idle" THEN Resting ELSE [api EXCEPT !.step = next, !.row = saved]
        /\ UNCHANGED <<worker, results, invalidations, supply>>
        /\ ~explained' => /\ ~explained /\ offer = api.row
                          /\ ~(api.row.status = "VALID" /\ api.to = "NEW")
    BY <1>0, <1>2 DEF PatchSaves, Explain
  <2>2. /\ api.row \in Offer /\ api.to \in Statuses
    BY <1>0, <2>1, ThreadRow DEF IInv, ExecutorSound, Sound, Thread
  <2>3. /\ saved.status = api.to /\ saved.id = api.row.id /\ saved.data = api.row.data
        /\ api.to = api.row.status => saved = api.row
    BY <2>2 DEF Offer
  <2>4. next = CASE api.row.status # "VALID" /\ api.to = "VALID" -> "result"
                 [] api.row.status = "VALID" /\ api.to = "REJECTED" -> "invalidation"
                 [] OTHER -> "idle"
    BY DEF AfterPatch
  <2>5. /\ next \in {"idle", "result", "invalidation"}
        /\ next = "result" <=> (api.row.status # "VALID" /\ api.to = "VALID")
        /\ next = "invalidation" <=> (api.row.status = "VALID" /\ api.to = "REJECTED")
    BY <2>4
  <2> HIDE DEF saved, next
  <2>6. /\ api'.step = next
        /\ next # "idle" => api'.row = saved
    BY <1>0, <2>1, <2>5 DEF Thread
  <2>7. Deciding'
    BY <2>3, <2>5, <2>6 DEF Deciding
  <2>8. ASSUME ~explained'
        PROVE  /\ results' = <<>> \/ invalidations' = <<>>
               /\ offer'.status = "VALID" => Priced'
               /\ offer'.status # "VALID" => api'.step = "invalidation" \/ Withdrawn'
               /\ ~(api'.step = "removing")
    <3>1. offer = api.row /\ ~explained /\ ~(api.row.status = "VALID" /\ api.to = "NEW")
      BY <2>1, <2>8
    <3>2. Given' = Given /\ Rows' = Rows
      BY <2>1 DEF Given, Rows
    <3>3. Withdrawn' = Withdrawn
      BY <2>1, <3>2 DEF Withdrawn
    <3>4. CASE api.to = "VALID" /\ api.row.status = "VALID"
      <4>1. offer' = offer
        BY <2>1, <2>3, <3>1, <3>4
      <4>2. Priced
        BY <1>0, <3>1, <3>4 DEF Settling
      <4>3. Priced'
        BY <2>1, <3>2, <4>1, <4>2 DEF Priced, Announced, Agrees, Targets
      <4> QED BY <1>0, <2>1, <2>3, <2>5, <2>6, <3>1, <3>4, <4>3 DEF Settling
    <3>5. CASE api.to = "VALID" /\ api.row.status # "VALID"
      BY <1>0, <2>1, <2>3, <2>5, <2>6, <3>1, <3>5 DEF Settling, Priced
    <3>6. CASE api.to # "VALID" /\ api.row.status = "VALID"
      <4>1. api.to = "REJECTED"
        BY <2>2, <3>1, <3>6 DEF Statuses
      <4> QED BY <1>0, <2>1, <2>3, <2>5, <2>6, <3>1, <3>6, <4>1 DEF Settling
    <3>7. CASE api.to # "VALID" /\ api.row.status # "VALID"
      BY <1>0, <2>1, <2>3, <2>5, <2>6, <3>1, <3>3, <3>7 DEF Settling
    <3> QED BY <3>4, <3>5, <3>6, <3>7
  <2>9. Settling'
    BY <2>8 DEF Settling
  <2> QED BY <2>7, <2>9
<1>3. CASE PatchPublishes
  <2>1. /\ UNCHANGED <<offer, worker, supply>> /\ api' = Resting
        /\ ~explained' => ~explained /\ offer = api.row /\ (results' = <<>> \/ invalidations' = <<>>)
        /\ \/ api.step = "result" /\ PublishResult(api.row)
           \/ api.step = "invalidation" /\ PublishInvalidation(api.row)
    BY <1>0, <1>3 DEF PatchPublishes, Explain, Crossing
  <2>2. api.row \in Offer
    BY <1>0, <2>1, ThreadRow DEF IInv, ExecutorSound, Sound
  <2>3. CASE api.step = "result" /\ PublishResult(api.row)
    <3> DEFINE m == [id |-> api.row.id, data |-> api.row.data]
    <3>1. m \in OfferMessage /\ results' = Append(results, m) /\ UNCHANGED invalidations
      BY <2>2, <2>3 DEF PublishResult, Offer, OfferMessage
    <3>2. results' # <<>> /\ results'[Len(results')] = m
      BY <1>0, <3>1, Appended
    <3>3. offer = api.row => Announced'
      BY <2>1, <3>2 DEF Announced
    <3>4. api.row.status = "VALID"
      BY <1>0, <2>3
    <3> QED BY <1>0, <2>1, <3>3, <3>4 DEF Settling, Priced, Deciding
  <2>4. CASE api.step = "invalidation" /\ PublishInvalidation(api.row)
    <3>1. invalidations' # <<>> /\ UNCHANGED results
      BY <1>0, <2>2, <2>4, Appended DEF PublishInvalidation, Offer
    <3>2. api.row.status # "VALID"
      BY <1>0, <2>4 DEF Deciding
    <3> QED BY <1>0, <2>1, <3>1, <3>2 DEF Settling, Withdrawn, Deciding
  <2> QED BY <2>1, <2>3, <2>4
<1>4. CASE PatchPublicationLost
  BY <1>0, <1>4 DEF PatchPublicationLost, Explain, Settling, Deciding
<1> QED BY <1>1, <1>2, <1>3, <1>4

LEMMA DeleteSettles ==
  ASSUME AInv, DeleteReads \/ DeletePublishes \/ DeleteRemoves \/ DeleteFails
  PROVE  Settling' /\ Deciding'
<1>0. /\ api \in Thread /\ Deciding /\ Settling /\ explained \in BOOLEAN /\ IInv
      /\ invalidations \in Seq(Ids)
      /\ Resting.step = "idle" /\ Resting.row.status = "NEW" /\ Resting \in Thread
  BY Facts, Constants
<1>1. CASE DeleteReads
  <2>1. PICK step \in {"deleting", "removing"} :
          /\ api' = [Resting EXCEPT !.step = step, !.row = offer]
          /\ step = "deleting" <=> offer.status = "VALID"
    BY <1>1 DEF DeleteReads
  <2>2. api'.step = step /\ api'.row = offer
    BY <1>0, <2>1 DEF Thread
  <2>3. /\ UNCHANGED <<offer, worker, results, invalidations, supply, explained>>
        /\ api.step = "idle"
    BY <1>1 DEF DeleteReads
  <2>4. Settling'
    BY <1>0, <2>1, <2>2, <2>3, QuietSettles
  <2> QED BY <2>1, <2>2, <2>4 DEF Deciding
<1>2. CASE DeletePublishes
  <2>1. /\ api.step = "deleting" /\ api' = [api EXCEPT !.step = "removing"]
        /\ UNCHANGED <<offer, worker, supply, results>>
        /\ invalidations' = Append(invalidations, api.row.id)
        /\ ~explained' => ~explained /\ (results' = <<>> \/ invalidations' = <<>>)
    BY <1>0, <1>2 DEF DeletePublishes, PublishInvalidation, Explain, Crossing
  <2>2. /\ api'.step = "removing" /\ api'.row = api.row /\ api.row.status = "VALID"
        /\ api.row.id \in Ids
    BY <1>0, <2>1, ThreadRow DEF Thread, Deciding, IInv, ExecutorSound, Sound
  <2>3. invalidations' # <<>>
    BY <1>0, <2>1, <2>2, Appended
  <2>4. ~explained' => Withdrawn'
    BY <2>1, <2>3 DEF Withdrawn
  <2> QED BY <2>1, <2>2, <2>4 DEF Settling, Priced, Deciding
<1>3. CASE DeleteRemoves
  <2>1. /\ api.step = "removing" /\ api' = Resting /\ offer' = Absent
        /\ UNCHANGED <<worker, supply, results, invalidations>>
        /\ ~explained' => ~explained /\ offer = api.row
    BY <1>0, <1>3 DEF DeleteRemoves, Explain
  <2>2. Given' = Given
    BY <2>1 DEF Given, Rows
  <2>3. ~explained' => Withdrawn
    BY <1>0, <2>1 DEF Settling
  <2>4. ~explained' => Withdrawn'
    BY <2>1, <2>2, <2>3 DEF Withdrawn
  <2> QED BY <1>0, <2>1, <2>4, Constants DEF Settling, Deciding, Withdrawn
<1>4. CASE DeleteFails
  <2>1. /\ api.step \in {"deleting", "removing"} /\ api' = Resting
        /\ UNCHANGED <<offer, worker, results, invalidations, supply>>
        /\ explained' = (explained \/ api.step = "removing")
    BY <1>4 DEF DeleteFails, Explain
  <2>2. CASE api.step = "deleting"
    BY <1>0, <2>1, <2>2, QuietSettles DEF Deciding
  <2>3. CASE api.step = "removing"
    BY <1>0, <2>1, <2>3 DEF Settling, Deciding
  <2> QED BY <2>1, <2>2, <2>3
<1> QED BY <1>1, <1>2, <1>3, <1>4

LEMMA WorkerSettles ==
  ASSUME AInv, \/ RefreshReads \/ ObserveReads \/ TaskEnds
               \/ RefreshPublishes \/ RefreshPublicationLost
  PROVE  Settling'
<1>0. /\ Settling /\ explained \in BOOLEAN /\ IInv /\ results \in Seq(OfferMessage)
      /\ worker.step = "result" => worker.row.status = "VALID"
  BY Facts
<1>1. CASE RefreshReads \/ ObserveReads \/ TaskEnds
  <2>1. /\ UNCHANGED <<offer, api, results, invalidations, supply, explained>>
        /\ worker.step # "result"
    BY <1>1 DEF RefreshReads, ObserveReads, WorkerBegins, TaskEnds
  <2> QED BY <1>0, <2>1, QuietSettles
<1>2. CASE RefreshPublishes
  <2> DEFINE m == [id |-> worker.row.id, data |-> worker.row.data]
  <2>1. /\ worker.step = "result" /\ worker.row.status = "VALID"
        /\ UNCHANGED <<offer, api, supply, invalidations>> /\ results' = Append(results, m)
        /\ ~explained' => /\ ~explained /\ offer = worker.row /\ api.step # "removing"
                          /\ results' = <<>> \/ invalidations' = <<>>
    BY <1>0, <1>2 DEF RefreshPublishes, PublishResult, Explain, Crossing
  <2>2. m \in OfferMessage
    BY <1>0, <2>1, ThreadRow DEF OfferMessage, IInv, ExecutorSound, Sound
  <2>3. results' # <<>> /\ results'[Len(results')] = m
    BY <1>0, <2>1, <2>2, Appended
  <2>4. ~explained' => Announced'
    BY <2>1, <2>3 DEF Announced
  <2> QED BY <2>1, <2>4 DEF Settling, Priced
<1>3. CASE RefreshPublicationLost
  BY <1>0, <1>3 DEF RefreshPublicationLost, Explain, Settling
<1> QED BY <1>1, <1>2, <1>3

\* A save that changes nothing leaves what was to be done; a save of a row that is
\* not VALID leaves Supply to withdraw what it withdraws.
LEMMA RefreshSavesSettles ==
  ASSUME AInv, NEW d \in Data, RefreshSaves(d)
  PROVE  Settling'
<1> DEFINE saved == [worker.row EXCEPT !.data = d]
<1>0. /\ Settling /\ explained \in BOOLEAN /\ IInv /\ worker \in Thread
  BY Facts
<1>1. /\ worker.step = "refreshing" /\ offer' = saved
      /\ worker' = IF RefreshIsPublished(worker.row, d)
                   THEN [worker EXCEPT !.step = "result", !.row = saved]
                   ELSE Resting
      /\ UNCHANGED <<api, results, invalidations, supply>>
      /\ ~explained' => ~explained /\ offer = worker.row
  BY <1>0 DEF RefreshSaves, Explain
<1>2. worker.row \in Offer
  BY <1>0, <1>1, ThreadRow DEF IInv, ExecutorSound, Sound
<1>3. /\ saved.status = worker.row.status
      /\ d = worker.row.data => saved = worker.row
  BY <1>2 DEF Offer
<1> HIDE DEF saved
<1>4. Given' = Given /\ Rows' = Rows
  BY <1>1 DEF Given, Rows
<1>5. Withdrawn' = Withdrawn
  BY <1>1, <1>4 DEF Withdrawn
<1>6. CASE d = worker.row.data
  <2>1. ~explained' => UNCHANGED offer
    BY <1>1, <1>3, <1>6
  <2>2. ~explained' => Announced' = Announced /\ Agrees' = Agrees
    BY <1>1, <1>4, <2>1 DEF Announced, Agrees, Targets
  <2> QED BY <1>0, <1>1, <1>5, <2>1, <2>2 DEF Settling, Priced
<1>7. CASE d # worker.row.data /\ worker.row.status = "VALID"
  <2>1. worker'.step = "result"
    BY <1>0, <1>1, <1>7 DEF RefreshIsPublished, Thread
  <2> QED BY <1>0, <1>1, <1>3, <1>5, <1>7, <2>1 DEF Settling, Priced
<1>8. CASE worker.row.status # "VALID"
  BY <1>0, <1>1, <1>3, <1>5, <1>8 DEF Settling
<1> QED BY <1>6, <1>7, <1>8

LEMMA ObserveSavesSettles ==
  ASSUME AInv, NEW d \in Data, ObserveSaves(d)
  PROVE  Settling'
<1>0. /\ Settling /\ explained \in BOOLEAN /\ IInv /\ worker \in Thread
  BY Facts
<1>1. /\ worker.step = "observing"
      /\ UNCHANGED <<api, results, invalidations, supply>>
      /\ ~explained' => /\ ~explained /\ offer = worker.row
                        /\ worker.row.status = "VALID" => d = worker.row.data
  BY <1>0 DEF ObserveSaves, Explain
<1>2. Given' = Given /\ Rows' = Rows
  BY <1>1 DEF Given, Rows
<1>3. Withdrawn' = Withdrawn
  BY <1>1, <1>2 DEF Withdrawn
<1>4. CASE worker.row = Absent
  <2>1. offer'.status = "NEW" /\ worker.row.status # "VALID"
    BY <1>4, Constants DEF ObserveSaves
  <2> QED BY <1>0, <1>1, <1>3, <2>1 DEF Settling
<1>5. CASE worker.row # Absent
  <2>1. worker.row \in Offer /\ offer' = [worker.row EXCEPT !.data = d]
    BY <1>0, <1>5, ThreadRow DEF ObserveSaves
  <2>2. CASE worker.row.status = "VALID"
    <3>1. ~explained' => UNCHANGED offer
      BY <1>1, <2>1, <2>2 DEF Offer
    <3>2. ~explained' => Announced' = Announced /\ Agrees' = Agrees
      BY <1>1, <1>2, <3>1 DEF Announced, Agrees, Targets
    <3> QED BY <1>0, <1>1, <1>3, <3>1, <3>2 DEF Settling, Priced
  <2>3. CASE worker.row.status # "VALID"
    <3>1. offer'.status = worker.row.status
      BY <2>1 DEF Offer
    <3> QED BY <1>0, <1>1, <1>3, <2>3, <3>1 DEF Settling
  <2> QED BY <2>2, <2>3
<1> QED BY <1>4, <1>5

\* An invalidation is ignored in silence only while Supply has no row.
LEMMA DiscardSettles ==
  ASSUME AInv, ResultDiscarded \/ InvalidationIgnored \/ InvalidationDiscarded
  PROVE  Settling'
<1>0. Settling /\ explained \in BOOLEAN
  BY Facts
<1>1. CASE ResultDiscarded \/ InvalidationDiscarded
  BY <1>0, <1>1 DEF ResultDiscarded, InvalidationDiscarded, Explain, Settling
<1>2. CASE InvalidationIgnored
  <2>1. /\ UNCHANGED <<offer, api, worker, results, supply>> /\ invalidations # <<>>
        /\ ~explained' => ~explained /\ Rows = {}
    BY <1>0, <1>2 DEF InvalidationIgnored, Explain, executor
  <2>2. Rows' = Rows /\ (~explained' => Given' = {})
    BY <2>1 DEF Rows, Given
  <2>3. ASSUME ~explained'
        PROVE  results = <<>> /\ Withdrawn'
    BY <1>0, <2>1, <2>2, <2>3 DEF Settling, Withdrawn
  <2>4. Announced' = Announced
    BY <2>1 DEF Announced
  <2> QED BY <1>0, <2>1, <2>3, <2>4 DEF Settling, Priced
<1> QED BY <1>1, <1>2

\* The last message of a queue is its head once nothing is left behind it.
LEMMA LastOne ==
  ASSUME NEW S, NEW s \in Seq(S), s # <<>>, Tail(s) = <<>>
  PROVE  Head(s) = s[Len(s)]
<1>1. /\ Len(s) \in Nat /\ Len(Tail(s)) = Len(s) - 1 /\ Head(s) = s[1]
      /\ Tail(s) \in Seq(S)
  BY HeadTailProperties, LenProperties
<1>2. Len(Tail(s)) = 0
  BY <1>1, EmptySeq
<1>3. Len(s) = 1
  BY <1>1, <1>2
<1> QED BY <1>1, <1>3

LEMMA ResultCommitSettles ==
  ASSUME AInv, Commit("resultListener")
  PROVE  Settling'
<1> DEFINE t == tx["resultListener"]
           m == Head(results)
<1>0. /\ Settling /\ explained \in BOOLEAN /\ IInv /\ Served /\ results \in Seq(OfferMessage)
      /\ "resultListener" \in Clients /\ t # Closed /\ results # <<>>
      /\ UNCHANGED <<offer, api, worker>>
  BY Facts, CommitWrites DEF Clients, Commit, IInv, Serving, executor
<1>1. UNCHANGED invalidations /\ results' \in {results, Tail(results)}
  BY <1>0, CommitQueues
<1>2. ~explained' => ~explained /\ ~StaleCommit("resultListener")
  BY <1>0 DEF Commit, Explain
<1> SUFFICES ASSUME ~explained'
             PROVE  /\ offer.status = "VALID" => Priced'
                    /\ offer.status # "VALID" => api.step = "invalidation"
                    /\ ~(api.step = "removing" /\ api.row.status = "VALID")
                    /\ invalidations = <<>>
  BY <1>0, <1>1 DEF Settling
<1>3. /\ invalidations = <<>>
      /\ offer.status # "VALID" => api.step = "invalidation"
      /\ ~(api.step = "removing" /\ api.row.status = "VALID")
      /\ offer.status = "VALID" => api.step = "result" \/ worker.step = "result" \/ Announced
  BY <1>0, <1>2 DEF Settling, Withdrawn, Priced
<1>4. ASSUME offer.status = "VALID", Announced, results' = Tail(results), results' = <<>>
      PROVE  Agrees'
  <2>1. m = [id |-> offer.id, data |-> offer.data]
    BY <1>0, <1>4, LastOne DEF Announced
  <2>2. /\ supply'[t.key] = Updated(t.loaded, m) /\ t.key \in Rows'
        /\ t.key = m.id \/ (t.key \in Rows /\ m.id \notin Rows)
    BY <1>0, <1>2, CommitRows DEF Served, ResultServed
  <2>3. t.key # m.id => m.id \notin Rows'
    BY <1>0, <2>2, CommitRows
  <2>4. t.key \in Targets(offer.id)'
    BY <1>0, <2>1, <2>2, <2>3 DEF Targets
  <2>5. supply'[t.key].status = "AVAILABLE" /\ supply'[t.key].data = offer.data
    BY <2>1, <2>2 DEF Updated
  <2> QED BY <1>0, <1>4, <2>4, <2>5 DEF Agrees
<1>5. ASSUME Announced, results' = Tail(results), results' # <<>>
      PROVE  Announced'
  <2>1. /\ Len(results) \in Nat /\ Tail(results) \in Seq(OfferMessage)
        /\ Len(Tail(results)) = Len(results) - 1
        /\ \A n \in 1..Len(Tail(results)) : Tail(results)[n] = results[n + 1]
    BY <1>0, HeadTailProperties, LenProperties
  <2>2. Len(Tail(results)) \in Nat /\ Len(Tail(results)) > 0
    BY <1>5, <2>1, LenProperties, EmptySeq
  <2>3. Tail(results)[Len(Tail(results))] = results[Len(results)]
    BY <2>1, <2>2
  <2> QED BY <1>0, <1>5, <2>3 DEF Announced
<1>6. Announced /\ results' = results => Announced'
  BY <1>0 DEF Announced
<1> QED BY <1>0, <1>1, <1>3, <1>4, <1>5, <1>6 DEF Priced

\* The one row with an id of the Executor becomes unavailable.
LEMMA InvalidationCommitSettles ==
  ASSUME AInv, Commit("invalidationListener")
  PROVE  Settling'
<1> DEFINE t == tx["invalidationListener"]
<1>0. /\ Settling /\ explained \in BOOLEAN /\ IInv /\ Served
      /\ "invalidationListener" \in Clients /\ t # Closed /\ invalidations # <<>>
      /\ UNCHANGED <<offer, api, worker>>
  BY Facts, CommitWrites DEF Clients, Commit, IInv, Serving, executor
<1>1. UNCHANGED results
  BY <1>0, CommitQueues
<1>2. ~explained' => ~explained /\ ~StaleCommit("invalidationListener")
  BY <1>0 DEF Commit, Explain
<1>3. ASSUME ~explained' PROVE Withdrawn'
  <2>1. results' = <<>>
    BY <1>0, <1>1, <1>2, <1>3 DEF Settling
  <2>2. /\ t.key \in Given /\ supply'[t.key] = [t.loaded EXCEPT !.status = "UNAVAILABLE"]
        /\ t.loaded = supply[t.key] /\ Given' = Given
    BY <1>0, <1>2, <1>3, CommitRows, CommitGiven
       DEF Served, InvalidationServed, StaleCommit, Given
  <2>3. supply'[t.key].status = "UNAVAILABLE"
    BY <1>0, <2>2, RowIsOfSupply DEF Given, SupplyRow
  <2>4. \A k \in Given' : k = t.key
    BY <1>0, <2>2 DEF Served, OneGivenRow
  <2> QED BY <2>1, <2>3, <2>4 DEF Withdrawn
<1>4. ~explained' => ~Announced
  BY <1>0, <1>2 DEF Settling, Announced
<1> QED BY <1>0, <1>1, <1>2, <1>3, <1>4 DEF Settling, Priced, Withdrawn

\* The operator changes no price.
LEMMA OperatorCommitSettles ==
  ASSUME AInv, Commit("operator")
  PROVE  Settling'
<1> DEFINE t == tx["operator"]
<1>0. /\ Settling /\ explained \in BOOLEAN /\ IInv /\ Served
      /\ "operator" \in Clients /\ t # Closed
      /\ offer \in Offer \cup {Absent}
      /\ UNCHANGED <<offer, api, worker>>
  BY Facts, CommitWrites DEF Clients, Commit, executor
<1>1. UNCHANGED <<results, invalidations>>
  BY <1>0, CommitQueues
<1>2. ~explained' => ~explained /\ ~StaleCommit("operator")
  BY <1>0 DEF Commit, Explain
<1>3. /\ Rows \subseteq Rows' /\ Rows' \subseteq Rows \cup {t.key}
      /\ Given' = Given /\ t.key \in PublicIds
      /\ \A k \in PublicIds : k # t.key => supply'[k] = supply[k]
  BY <1>0, CommitRows, CommitGiven, CommitWrites
<1>4. ASSUME ~explained', NEW k \in Rows
      PROVE  supply'[k].status = supply[k].status /\ supply'[k].data = supply[k].data
  <2>1. t.loaded = supply[t.key] /\ supply'[t.key] = t.written
    BY <1>0, <1>2, <1>4, CommitRows DEF StaleCommit
  <2>2. CASE k = t.key
    BY <1>0, <2>1, <2>2 DEF Served, OperatorServed, Rows
  <2>3. CASE k # t.key
    BY <1>3, <2>3 DEF Rows
  <2> QED BY <2>2, <2>3
<1>5. ~explained' /\ Withdrawn => Withdrawn'
  BY <1>1, <1>3, <1>4 DEF Withdrawn, Given
<1>6. ~explained' /\ offer.status = "VALID" /\ Agrees => Agrees'
  <2> SUFFICES ASSUME ~explained', offer.status = "VALID", Agrees PROVE Agrees'
    OBVIOUS
  <2>1. PICK k \in Targets(offer.id) : supply[k].status = "AVAILABLE" /\ supply[k].data = offer.data
    BY DEF Agrees
  <2>2. offer.id \in Ids /\ offer.id # ManualId
    BY <1>0, PipelineAssumption, Constants DEF Offer
  <2>3. offer.id \in Rows' <=> offer.id \in Rows
    BY <1>3, <2>2 DEF Given
  <2>4. k \in Rows /\ k \in Targets(offer.id)'
    BY <1>0, <1>3, <2>1, <2>3 DEF Targets
  <2> QED BY <1>0, <1>4, <2>1, <2>4 DEF Agrees
<1>7. Announced' = Announced
  BY <1>0, <1>1 DEF Announced
<1> QED BY <1>0, <1>1, <1>2, <1>5, <1>6, <1>7 DEF Settling, Priced

\* A step of the Executor leaves Supply alone, and may announce one result.
LEMMA ExecutorKeepsSupply ==
  ASSUME AInv,
         \/ \E s \in Statuses : PatchReads(s)
         \/ PatchSaves \/ PatchPublishes \/ PatchPublicationLost
         \/ DeleteReads \/ DeletePublishes \/ DeleteRemoves \/ DeleteFails
         \/ RefreshReads \/ ObserveReads \/ TaskEnds
         \/ RefreshPublishes \/ RefreshPublicationLost
         \/ \E d \in Data : RefreshSaves(d)
         \/ \E d \in Data : ObserveSaves(d)
  PROVE  /\ UNCHANGED <<supply, tx>>
         /\ \/ UNCHANGED results
            \/ \E m \in OfferMessage : results' = Append(results, m)
<1>0. IInv
  BY DEF AInv
<1>1. \A t \in {api, worker} : t.step = "result" =>
        [id |-> t.row.id, data |-> t.row.data] \in OfferMessage
  BY <1>0, ThreadRow DEF IInv, ExecutorSound, Sound, OfferMessage
<1>2. CASE PatchPublishes
  BY <1>1, <1>2 DEF PatchPublishes, PublishResult, PublishInvalidation
<1>3. CASE RefreshPublishes
  BY <1>1, <1>3 DEF RefreshPublishes, PublishResult
<1>4. CASE DeletePublishes
  BY <1>4 DEF DeletePublishes, PublishInvalidation
<1> QED
  BY <1>2, <1>3, <1>4 DEF PatchReads, PatchSaves, PatchPublicationLost, DeleteReads, DeleteRemoves,
     DeleteFails, RefreshReads, ObserveReads, TaskEnds, WorkerBegins, RefreshPublicationLost,
     RefreshSaves, ObserveSaves

LEMMA AgreementInvariantHolds == Spec => []AInv
<1>1. Init => AInv
  <2> SUFFICES ASSUME Init, IInv PROVE AInv
    BY InitInvariant
  <2>1. Deciding /\ Served
    BY Constants DEF Init, Deciding, Served, OneGivenRow, Given, Rows, ResultServed,
       InvalidationServed, OperatorServed, Clients
  <2>2. Settling
    BY Constants DEF Init, Settling, Withdrawn, Given, Rows
  <2> QED BY <2>1, <2>2 DEF AInv
<1>2. AInv /\ [Next]_vars => AInv'
  <2> SUFFICES ASSUME AInv, [Next]_vars PROVE AInv'
    OBVIOUS
  <2>0. IInv /\ IInv' /\ Deciding /\ Served /\ Settling
    BY StepInvariant DEF AInv
  <2>1. CASE \E p \in Clients : Commit(p)
    <3>1. PICK p \in Clients : Commit(p)
      BY <2>1
    <3>2. Settling'
      BY <3>1, ResultCommitSettles, InvalidationCommitSettles, OperatorCommitSettles DEF Clients
    <3>3. Deciding'
      BY <2>0, <3>1, CommitWrites DEF Deciding, executor
    <3> QED BY <2>0, <3>1, <3>2, <3>3, CommitServes DEF AInv
  <2>2. CASE \/ ResultLoads \/ InvalidationLoads
             \/ \E k \in PublicIds, r \in Resources : Associate(k, r)
             \/ \E d \in Data, r \in Resources : CreateManual(d, r)
    <3>1. UNCHANGED <<offer, api, worker, results, invalidations, supply, explained>>
      BY <2>2 DEF ResultLoads, InvalidationLoads, Associate, CreateManual, executor
    <3>2. Settling'
      BY <2>0, <3>1, QuietSettles DEF IInv, TypeOK
    <3>3. Deciding'
      BY <2>0, <3>1 DEF Deciding
    <3> QED BY <2>0, <2>2, <3>2, <3>3, LoadServes DEF AInv
  <2>3. CASE ResultDiscarded \/ InvalidationIgnored \/ InvalidationDiscarded
    <3>1. Deciding'
      BY <2>0, <2>3 DEF ResultDiscarded, InvalidationIgnored, InvalidationDiscarded, Deciding, executor
    <3> QED BY <2>0, <2>3, <3>1, DiscardServes, DiscardSettles DEF AInv
  <2>4. CASE \/ \E s \in Statuses : PatchReads(s)
             \/ PatchSaves \/ PatchPublishes \/ PatchPublicationLost
             \/ DeleteReads \/ DeletePublishes \/ DeleteRemoves \/ DeleteFails
    BY <2>0, <2>4, PatchSettles, DeleteSettles, ExecutorKeepsSupply, ExecutorServes DEF AInv
  <2>5. CASE \/ RefreshReads \/ ObserveReads \/ TaskEnds
             \/ RefreshPublishes \/ RefreshPublicationLost
             \/ \E d \in Data : RefreshSaves(d)
             \/ \E d \in Data : ObserveSaves(d)
    <3>1. Settling'
      BY <2>5, WorkerSettles, RefreshSavesSettles, ObserveSavesSettles
    <3>2. UNCHANGED api
      BY <2>5 DEF RefreshReads, ObserveReads, WorkerBegins, TaskEnds, RefreshPublishes,
                  RefreshPublicationLost, RefreshSaves, ObserveSaves
    <3>3. Deciding'
      BY <2>0, <3>2 DEF Deciding
    <3> QED BY <2>0, <2>5, <3>1, <3>3, ExecutorKeepsSupply, ExecutorServes DEF AInv
  <2>6. CASE UNCHANGED vars
    <3>1. UNCHANGED <<offer, api, worker, results, invalidations, supply, tx, explained>>
      BY <2>6 DEF vars
    <3>2. Settling'
      BY <2>0, <3>1, QuietSettles DEF IInv, TypeOK
    <3>3. Deciding'
      BY <2>0, <3>1 DEF Deciding
    <3> QED BY <2>0, <3>1, <3>2, <3>3, ExecutorServes DEF AInv
  <2> QED BY <2>1, <2>2, <2>3, <2>4, <2>5, <2>6 DEF Next
<1> QED BY <1>1, <1>2, PTL DEF Spec
-----------------------------------------------------------------------------
(* The theorems *)

\* The domains of the variables.
THEOREM TypeCorrect == Spec => []TypeOK
BY InvariantHolds, PTL DEF IInv

\* No message on its way to Supply carries, and no row of Supply has the id of, an
\* offer that no operator has accepted, for any number of requests and tasks that
\* save rows they read long before, and for any fault.
THEOREM OnlyReviewedIsPriced == Spec => []NothingUnreviewed
<1>1. IInv => NothingUnreviewed
  BY DEF IInv, ResultsReviewed, RowsReviewed, NothingUnreviewed
<1> QED BY <1>1, InvariantHolds, PTL

\* When nothing is in progress, Supply prices the product exactly as the Executor's
\* valid offer says, and no offer that is not valid, unless one of the causes named at
\* the actions has happened: no other interleaving of requests, tasks, messages and
\* transactions makes the projection stale.
THEOREM ProjectionAgrees == Spec => []AgreesUnlessExplained
<1>1. AInv => AgreesUnlessExplained
  <2> SUFFICES ASSUME AInv, Quiescent, ~explained PROVE Agrees
    BY DEF AgreesUnlessExplained
  <2>1. /\ api.step = "idle" /\ worker.step = "idle" /\ results = <<>> /\ invalidations = <<>>
        /\ Settling
    BY Constants DEF Quiescent, AInv
  <2>2. CASE offer.status = "VALID"
    BY <2>1, <2>2 DEF Settling, Priced, Announced
  <2>3. CASE offer.status # "VALID"
    BY <2>1, <2>3 DEF Settling, Withdrawn, Agrees, Given
  <2> QED BY <2>2, <2>3
<1> QED BY <1>1, AgreementInvariantHolds, PTL
-----------------------------------------------------------------------------
(* ProviderAccess *)

\* The next free slot is MinDelay after every slot that was granted.
RowOrder ==
  \A i \in 1..Len(slots) : row.nextRequestAt >= slots[i] + MinDelay

\* A clock sample is old, a sleep ends no earlier than the slot, and whoever is
\* past the sleep is past the slot.
LoadOrder ==
  \A w \in Workers :
    /\ load[w].sampled <= now
    /\ load[w].phase = "sleeping" => load[w].wakeAt >= load[w].slot
    /\ load[w].phase \in {"connecting", "loading"} => now >= load[w].slot

AccessInv == AccessTypeOK /\ CircuitShape /\ RowOrder /\ LoadOrder /\ SlotsSpaced

-----------------------------------------------------------------------------

\* The index of the cooldown stays inside the configured sequence.
LEMMA CooldownPositive ==
  ASSUME NEW n \in Nat \ {0}
  PROVE  Cooldown(n) \in Nat \ {0}
<1>1. Cooldowns \in Seq(Nat \ {0}) /\ Len(Cooldowns) \in Nat \ {0}
  BY PolicyAssumption
<1>2. (IF n <= Len(Cooldowns) THEN n ELSE Len(Cooldowns)) \in 1..Len(Cooldowns)
  BY <1>1
<1> QED
  BY <1>1, <1>2 DEF Cooldown

LEMMA Initially == AccessInit => AccessInv
BY PolicyAssumption
   DEF SlotsSpaced, AccessInit, AccessInv, AccessTypeOK, CircuitShape, RowOrder, LoadOrder, Row, Time, NoTime,
       Load, Idle, Phases

\* The steps that replace what one worker remembers.
LEMMA OneLoad ==
  ASSUME AccessInv, NEW w \in Workers, NEW r \in Load, load' = [load EXCEPT ![w] = r],
         now' = now, r.sampled <= now,
         r.phase = "sleeping" => r.wakeAt >= r.slot,
         r.phase \in {"connecting", "loading"} => now >= r.slot
  PROVE  load' \in [Workers -> Load] /\ LoadOrder'
<1>1. /\ load \in [Workers -> Load]
      /\ load'[w] = r
      /\ \A v \in Workers : v # w => load'[v] = load[v]
  BY DEF AccessInv, AccessTypeOK
<1>2. load' \in [Workers -> Load]
  BY <1>1
<1>3. LoadOrder'
  <2> SUFFICES ASSUME NEW v \in Workers
               PROVE  /\ load'[v].sampled <= now
                      /\ load'[v].phase = "sleeping" => load'[v].wakeAt >= load'[v].slot
                      /\ load'[v].phase \in {"connecting", "loading"} => now >= load'[v].slot
    BY DEF LoadOrder
  <2>1. CASE v = w
    BY <2>1, <1>1
  <2>2. CASE v # w
    BY <2>2, <1>1 DEF AccessInv, LoadOrder
  <2> QED BY <2>1, <2>2
<1> QED BY <1>2, <1>3

\* What AccessInv says of one worker.
LEMMA LoadFacts ==
  ASSUME AccessInv, NEW w \in Workers
  PROVE  /\ now \in Nat /\ row \in Row /\ load[w] \in Load
         /\ load[w].phase \in Phases
         /\ load[w].sampled \in Nat /\ load[w].slot \in Nat
         /\ load[w].wakeAt \in Nat /\ load[w].startedAt \in Nat
         /\ load[w].sampled <= now
         /\ load[w].phase = "sleeping" => load[w].wakeAt >= load[w].slot
         /\ load[w].phase \in {"connecting", "loading"} => now >= load[w].slot
BY DEF AccessInv, AccessTypeOK, LoadOrder, Load

\* The row and the slots are what the other invariants are about.
LEMMA RowKept ==
  ASSUME AccessInv, row' = row, slots' = slots
  PROVE  row' \in Row /\ slots' \in Seq(Nat) /\ CircuitShape' /\ RowOrder' /\ SlotsSpaced'
BY DEF AccessInv, AccessTypeOK, CircuitShape, RowOrder, SlotsSpaced, Cooldown

\* A page load that ends, whatever it wrote to the row.
LEMMA FinishStep ==
  ASSUME AccessInv, NEW w \in Workers, Finish(w), now' = now
  PROVE  load' \in [Workers -> Load] /\ LoadOrder'
<1>1. /\ Idle \in Load
      /\ Idle.phase # "sleeping" /\ Idle.phase \notin {"connecting", "loading"}
  BY DEF Idle, Load, Phases
<1>2. Idle.sampled <= now
  BY LoadFacts DEF Idle
<1> QED BY <1>1, <1>2, OneLoad DEF Finish

\* A page load that ends without writing.
LEMMA QuietFinishStep ==
  ASSUME AccessInv, NEW w \in Workers, Finish(w), row' = row, now' = now, deaths' \in Nat,
         UNCHANGED slots
  PROVE  AccessInv'
BY FinishStep, RowKept, LoadFacts DEF AccessInv, AccessTypeOK

LEMMA CallStep ==
  ASSUME AccessInv, NEW w \in Workers, Call(w)
  PROVE  AccessInv'
<1> DEFINE r == [load[w] EXCEPT !.phase = "locking", !.sampled = now, !.startedAt = now]
<1>0. load[w] \in Load /\ now \in Nat
  BY LoadFacts
<1>1. r \in Load
  BY <1>0 DEF Load, Phases
<1>2. r.sampled <= now
  BY <1>0 DEF Load
<1>3. r.phase # "sleeping" /\ r.phase \notin {"connecting", "loading"}
  BY <1>0 DEF Load
<1>4. load' = [load EXCEPT ![w] = r]
  BY DEF Call
<1>5. load' \in [Workers -> Load] /\ LoadOrder'
  <2> HIDE DEF r
  <2> QED BY <1>1, <1>2, <1>3, <1>4, OneLoad DEF Call
<1> QED BY <1>5, RowKept, LoadFacts DEF Call, AccessInv, AccessTypeOK

\* What the reservation transaction does to the row.
LEMMA ReserveRow ==
  ASSUME AccessInv, NEW w \in Workers, Reserve(w)
  PROVE  /\ RequestAt(w) \in Nat
         /\ RequestAt(w) >= load[w].sampled /\ RequestAt(w) >= row.nextRequestAt
         /\ row' \in Row
         /\ row'.consecutiveBlocks = row.consecutiveBlocks
         /\ row'.blockedUntil = row.blockedUntil
         /\ row'.lastBlockAt = row.lastBlockAt
         /\ row'.lastRequestAt = RequestAt(w)
         /\ row'.nextRequestAt \in Nat
         /\ row'.nextRequestAt >= RequestAt(w) + MinDelay
         /\ row'.probeReservedUntil = IF HalfOpen THEN load[w].sampled + ProbeTimeout
                                      ELSE row.probeReservedUntil
<1>1. PICK spacing \in MinDelay..MaxDelay : row' = ReservedRow(w, spacing)
  BY DEF Reserve
<1>2. /\ spacing \in Nat /\ spacing >= MinDelay /\ MinDelay \in Nat
      /\ ProbeTimeout \in Nat
  BY PolicyAssumption
<1>3. load[w].sampled \in Nat /\ row \in Row
  BY LoadFacts
<1>4. /\ RequestAt(w) \in Nat
      /\ RequestAt(w) >= load[w].sampled /\ RequestAt(w) >= row.nextRequestAt
  BY <1>3 DEF RequestAt, Later, Row, Time, NoTime
<1>5. /\ load[w].sampled + ProbeTimeout \in Time
      /\ RequestAt(w) \in Time /\ RequestAt(w) + spacing \in Time
  BY <1>2, <1>3, <1>4 DEF Time
<1>6. row' \in Row
  BY <1>1, <1>3, <1>5 DEF ReservedRow, Row
<1>7. /\ row'.consecutiveBlocks = row.consecutiveBlocks
      /\ row'.blockedUntil = row.blockedUntil
      /\ row'.lastBlockAt = row.lastBlockAt
      /\ row'.lastRequestAt = RequestAt(w)
      /\ row'.nextRequestAt = RequestAt(w) + spacing
  BY <1>1, <1>3 DEF ReservedRow, Row
<1>8. row'.probeReservedUntil = IF HalfOpen THEN load[w].sampled + ProbeTimeout
                                ELSE row.probeReservedUntil
  BY <1>1, <1>3 DEF ReservedRow, Row
<1>9. row'.nextRequestAt \in Nat /\ row'.nextRequestAt >= RequestAt(w) + MinDelay
  BY <1>2, <1>4, <1>7
<1> QED BY <1>4, <1>6, <1>7, <1>8, <1>9

\* What it does to the history: the new slot is the last one, MinDelay after all
\* of them.
LEMMA ReserveSlot ==
  ASSUME AccessInv, NEW w \in Workers, Reserve(w)
  PROVE  slots' \in Seq(Nat) /\ RowOrder' /\ SlotsSpaced'
<1> DEFINE s == RequestAt(w)
           n == Len(slots)
<1>1. /\ slots \in Seq(Nat) /\ s \in Nat /\ MinDelay \in Nat
      /\ row.nextRequestAt \in Int /\ s >= row.nextRequestAt
      /\ row'.nextRequestAt \in Nat /\ row'.nextRequestAt >= s + MinDelay
  BY ReserveRow, PolicyAssumption DEF AccessInv, AccessTypeOK, Row, Time, NoTime
<1>2. slots' = Append(slots, s)
  BY DEF Reserve
<1>3. /\ slots' \in Seq(Nat) /\ n \in Nat /\ Len(slots') = n + 1
      /\ slots'[n + 1] = s
      /\ \A i \in 1..n : slots'[i] = slots[i] /\ slots[i] \in Nat
  <2> HIDE DEF s
  <2> QED BY <1>1, <1>2
<1>4. \A i \in 1..n : s >= slots[i] + MinDelay
  <2>1. TAKE i \in 1..n
  <2>2. row.nextRequestAt >= slots[i] + MinDelay
    BY DEF AccessInv, RowOrder
  <2>3. slots[i] \in Nat
    BY <1>3
  <2> HIDE DEF s
  <2> QED BY <1>1, <2>2, <2>3
<1>5. RowOrder'
  <2> HIDE DEF s, n
  <2> SUFFICES ASSUME NEW i \in 1..(n + 1)
               PROVE  row'.nextRequestAt >= slots'[i] + MinDelay
    BY <1>3 DEF RowOrder
  <2>1. CASE i = n + 1
    BY <1>1, <1>3, <2>1
  <2>2. CASE i \in 1..n
    <3>1. s >= slots[i] + MinDelay /\ slots[i] \in Nat /\ slots'[i] = slots[i]
      BY <1>3, <1>4, <2>2
    <3> QED BY <1>1, <3>1
  <2> QED BY <1>3, <2>1, <2>2
<1>6. SlotsSpaced'
  <2> HIDE DEF s, n
  <2> SUFFICES ASSUME NEW i \in 1..(n + 1), NEW j \in 1..(n + 1), i < j
               PROVE  slots'[j] >= slots'[i] + MinDelay
    BY <1>3 DEF SlotsSpaced
  <2>1. i \in 1..n
    BY <1>3
  <2>2. CASE j = n + 1
    BY <1>3, <1>4, <2>1, <2>2
  <2>3. CASE j \in 1..n
    <3>1. slots[j] >= slots[i] + MinDelay
      BY <2>1, <2>3 DEF AccessInv, SlotsSpaced, n
    <3> QED BY <1>3, <2>1, <2>3, <3>1
  <2> QED BY <1>3, <2>2, <2>3
<1> QED BY <1>3, <1>5, <1>6

LEMMA ReserveStep ==
  ASSUME AccessInv, NEW w \in Workers, Reserve(w)
  PROVE  AccessInv'
<1>1. load[w] \in Load /\ now \in Nat /\ load[w].sampled \in Nat /\ load[w].sampled <= now
  BY LoadFacts
<1>2. SleepUntil(w) \in Nat /\ SleepUntil(w) >= RequestAt(w)
  BY <1>1, ReserveRow DEF SleepUntil
<1> DEFINE r == [load[w] EXCEPT !.phase = "sleeping", !.slot = RequestAt(w),
                                !.wakeAt = SleepUntil(w)]
<1>3. /\ r \in Load /\ r.sampled = load[w].sampled /\ r.phase = "sleeping"
      /\ r.wakeAt >= r.slot
  BY <1>1, <1>2, ReserveRow DEF Load, Phases
<1>4. load' \in [Workers -> Load] /\ LoadOrder'
  <2>1. load' = [load EXCEPT ![w] = r]
    BY DEF Reserve
  <2> HIDE DEF r
  <2> QED BY <1>1, <1>3, <2>1, OneLoad DEF Reserve
<1>5. CircuitShape'
  BY ReserveRow DEF AccessInv, CircuitShape, Cooldown, HalfOpen
<1>6. slots' \in Seq(Nat) /\ RowOrder' /\ SlotsSpaced'
  BY ReserveSlot
<1> QED BY <1>1, <1>4, <1>5, <1>6, ReserveRow DEF AccessInv, AccessTypeOK, Reserve

\* A worker that moves on: out of its sleep, or from the browser to the page.
LEMMA WakeStep ==
  ASSUME AccessInv, NEW w \in Workers, Wake(w) \/ Navigate(w)
  PROVE  AccessInv'
<1> DEFINE p == IF Wake(w) THEN "connecting" ELSE "loading"
           r == [load[w] EXCEPT !.phase = p]
<1>1. now \in Nat /\ now >= load[w].slot
  BY LoadFacts DEF Wake, Navigate, At
<1>2. /\ r \in Load /\ r.phase \in {"connecting", "loading"}
      /\ r.sampled = load[w].sampled /\ r.slot = load[w].slot
  BY LoadFacts DEF Load, Phases
<1>3. load' = [load EXCEPT ![w] = r]
  BY DEF Wake, Navigate, Goto, At
<1>4. load' \in [Workers -> Load] /\ LoadOrder'
  <2> HIDE DEF r, p
  <2> QED BY <1>1, <1>2, <1>3, OneLoad, LoadFacts DEF Wake, Navigate
<1>5. slots' = slots
  BY <1>1 DEF Wake, Navigate, AccessInv, AccessTypeOK
<1> QED BY <1>4, <1>5, RowKept, LoadFacts DEF Wake, Navigate, AccessInv, AccessTypeOK

LEMMA OutcomeStep ==
  ASSUME AccessInv, NEW w \in Workers, Outcome(w)
  PROVE  AccessInv'
<1>1. PICK p \in {"recordingSuccess", "recordingBlock"} :
         load' = [load EXCEPT ![w].phase = p, ![w].sampled = now]
  BY DEF Outcome
<1> DEFINE r == [load[w] EXCEPT !.phase = p, !.sampled = now]
<1>0. load[w] \in Load /\ now \in Nat
  BY LoadFacts
<1>2. r \in Load
  BY <1>0 DEF Load, Phases
<1>3. r.sampled <= now
  BY <1>0 DEF Load
<1>4. r.phase # "sleeping" /\ r.phase \notin {"connecting", "loading"}
  BY <1>0 DEF Load
<1>5. load' = [load EXCEPT ![w] = r]
  BY <1>1
<1>6. load' \in [Workers -> Load] /\ LoadOrder'
  <2> HIDE DEF r
  <2> QED BY <1>2, <1>3, <1>4, <1>5, OneLoad DEF Outcome
<1> QED BY <1>6, RowKept, LoadFacts DEF Outcome, AccessInv, AccessTypeOK

LEMMA RecordSuccessStep ==
  ASSUME AccessInv, NEW w \in Workers, RecordSuccess(w)
  PROVE  AccessInv'
<1>1. load' \in [Workers -> Load] /\ LoadOrder'
  BY FinishStep DEF RecordSuccess
<1>2. row \in Row
  BY LoadFacts
<1>3. row' \in Row
  BY <1>2 DEF RecordSuccess, SuccessRow, Row, Time
<1>4. /\ row'.consecutiveBlocks = 0
      /\ row'.blockedUntil = NoTime /\ row'.probeReservedUntil = NoTime
  BY <1>2 DEF RecordSuccess, SuccessRow, Row
<1>5. row'.nextRequestAt = row.nextRequestAt /\ UNCHANGED slots
  BY <1>2 DEF RecordSuccess, SuccessRow, Row
<1>6. CircuitShape'
  BY <1>4 DEF CircuitShape
<1>7. RowOrder' /\ SlotsSpaced'
  BY <1>5 DEF AccessInv, RowOrder, SlotsSpaced
<1> QED BY <1>1, <1>3, <1>5, <1>6, <1>7 DEF RecordSuccess, AccessInv, AccessTypeOK

LEMMA RecordBlockStep ==
  ASSUME AccessInv, NEW w \in Workers, RecordBlock(w)
  PROVE  AccessInv'
<1>1. load' \in [Workers -> Load] /\ LoadOrder'
  BY FinishStep DEF RecordBlock
<1>2. /\ load[w].sampled \in Nat /\ row \in Row
      /\ row.consecutiveBlocks + 1 \in Nat \ {0}
  BY LoadFacts DEF Row
<1> DEFINE n == row.consecutiveBlocks + 1
<1>3. Cooldown(n) \in Nat \ {0}
  BY <1>2, CooldownPositive
<1>4. /\ row'.consecutiveBlocks = n /\ n \in Nat \ {0}
      /\ row'.blockedUntil = load[w].sampled + Cooldown(n)
      /\ row'.lastBlockAt = load[w].sampled
      /\ row'.probeReservedUntil = NoTime
      /\ row'.nextRequestAt = row.nextRequestAt /\ UNCHANGED slots
  BY <1>2 DEF RecordBlock, BlockRow, Row
<1>5. row' \in Row
  <2>1. load[w].sampled + Cooldown(n) \in Time /\ load[w].sampled \in Time /\ NoTime \in Time
    BY <1>2, <1>3 DEF Time
  <2> QED BY <1>2, <2>1 DEF RecordBlock, BlockRow, Row
<1>6. CircuitShape'
  <2> HIDE DEF n
  <2>1. (Cooldown(row.consecutiveBlocks))' = Cooldown(n)
    BY <1>4 DEF Cooldown
  <2> QED BY <1>2, <1>3, <1>4, <2>1 DEF CircuitShape, NoTime
<1>7. RowOrder' /\ SlotsSpaced'
  BY <1>4 DEF AccessInv, RowOrder, SlotsSpaced
<1> QED BY <1>1, <1>4, <1>5, <1>6, <1>7 DEF RecordBlock, AccessInv, AccessTypeOK

LEMMA TickStep ==
  ASSUME AccessInv, Tick
  PROVE  AccessInv'
BY DEF Tick, SlotsSpaced, AccessInv, AccessTypeOK, CircuitShape, RowOrder, LoadOrder, Load, Cooldown

LEMMA Stutter ==
  ASSUME AccessInv, UNCHANGED accessVars
  PROVE  AccessInv'
BY DEF accessVars, SlotsSpaced, AccessInv, AccessTypeOK, CircuitShape, RowOrder, LoadOrder, Load, Cooldown

\* AccessInv is inductive.
LEMMA Inductive == AccessInv /\ [AccessNext]_accessVars => AccessInv'
<1> SUFFICES ASSUME AccessInv, [AccessNext]_accessVars
             PROVE  AccessInv'
  OBVIOUS
<1>1. CASE Tick
  BY <1>1, TickStep
<1>2. CASE UNCHANGED accessVars
  BY <1>2, Stutter
<1>3. ASSUME NEW w \in Workers,
             \/ Call(w) \/ Refuse(w) \/ Reserve(w) \/ Wake(w)
             \/ Navigate(w) \/ LoadFails(w) \/ Outcome(w)
             \/ RecordSuccess(w) \/ RecordBlock(w) \/ RecordFails(w) \/ Die(w)
      PROVE  AccessInv'
  <2>1. CASE Refuse(w) \/ LoadFails(w) \/ RecordFails(w)
    <3>1. Finish(w) /\ row' = row /\ now' = now /\ deaths' \in Nat /\ UNCHANGED slots
      BY <2>1 DEF Refuse, LoadFails, RecordFails, AccessInv, AccessTypeOK
    <3> QED BY <3>1, QuietFinishStep
  <2>2. CASE Die(w)
    <3>1. Finish(w) /\ row' = row /\ now' = now /\ deaths' \in Nat /\ UNCHANGED slots
      BY <2>2 DEF Die, AccessInv, AccessTypeOK
    <3> QED BY <3>1, QuietFinishStep
  <2> QED BY <1>3, <2>1, <2>2, CallStep, ReserveStep, WakeStep, OutcomeStep,
             RecordSuccessStep, RecordBlockStep
<1> QED BY <1>1, <1>2, <1>3 DEF AccessNext

LEMMA Invariance == AccessSpec => []AccessInv
BY Initially, Inductive, PTL DEF AccessSpec
-----------------------------------------------------------------------------
\* The row and the workers keep their types (provider_access_states and the
\* variables of load_page).
THEOREM AccessTypeCorrect == AccessSpec => []AccessTypeOK
<1>1. AccessInv => AccessTypeOK
  BY DEF AccessInv
<1> QED BY <1>1, Invariance, PTL

\* No worker reaches the browser before the slot it reserved, with any number of
\* workers and whatever the time between clock sample, lock, commit and sleep.
THEOREM NeverBeforeSlot == AccessSpec => []NotBeforeSlot
<1>1. AccessInv => NotBeforeSlot
  BY DEF AccessInv, LoadOrder, NotBeforeSlot
<1> QED BY <1>1, Invariance, PTL

\* The circuit is open or half-open exactly after consecutive blocks, for the
\* cooldown of that many blocks, and only then is a probe reserved.
THEOREM CircuitConsistent == AccessSpec => []CircuitShape
<1>1. AccessInv => CircuitShape
  BY DEF AccessInv
<1> QED BY <1>1, Invariance, PTL

\* Every two slots ever granted are MinDelay apart, whichever workers reserved
\* them, in whatever order they locked the row and with however old a clock sample
\* (wait_for_request).
THEOREM SlotSpacing == AccessSpec => []SlotsSpaced
<1>1. AccessInv => SlotsSpaced
  BY DEF AccessInv
<1> QED BY <1>1, Invariance, PTL

\* Only a reservation grants a slot.
LEMMA SlotsGrantedByReserve ==
  ASSUME [AccessNext]_accessVars, slots' # slots
  PROVE  \E w \in Workers : Reserve(w)
BY DEF AccessNext, accessVars, Tick, Call, Refuse, Wake, Navigate, LoadFails,
       Outcome, RecordSuccess, RecordBlock, RecordFails, Die

\* During one outage recovery requests are admitted a probe timeout apart, also
\* when the worker that held the probe was killed (wait_for_request 109-120).
THEOREM ProbeSpacing == AccessSpec => ProbesSpaced
<1>1. ASSUME AccessInv, [AccessNext]_accessVars
      PROVE  HalfOpen /\ row.probeReservedUntil # NoTime /\ slots' # slots
               => row'.probeReservedUntil >= row.probeReservedUntil + ProbeTimeout
  <2> SUFFICES ASSUME HalfOpen, slots' # slots
               PROVE  row'.probeReservedUntil >= row.probeReservedUntil + ProbeTimeout
    OBVIOUS
  <2>1. PICK w \in Workers : Reserve(w)
    BY <1>1, SlotsGrantedByReserve
  <2>2. row'.probeReservedUntil = load[w].sampled + ProbeTimeout
    BY <1>1, <2>1, ReserveRow
  <2>3. ~(row.probeReservedUntil > load[w].sampled)
    BY <2>1 DEF Reserve, ProbeTaken
  <2>4. /\ row.probeReservedUntil \in Int /\ load[w].sampled \in Int
        /\ ProbeTimeout \in Int
    BY <1>1, LoadFacts, PolicyAssumption DEF Row, Time, NoTime
  <2> QED BY <2>2, <2>3, <2>4
<1> QED BY <1>1, Invariance, PTL DEF AccessSpec, ProbesSpaced
-----------------------------------------------------------------------------
(* One worker, as deployed: the suspension it saw before its sleep is the      *)
(* suspension there is until it records an outcome.                            *)

Alone == \A v, w \in Workers : v = w

UnderWay == {"sleeping", "connecting", "loading"}

SeenClear ==
  \A w \in Workers : load[w].phase \in UnderWay => row.blockedUntil <= load[w].sampled

LEMMA SeenClearKept ==
  ASSUME Alone, AccessInv, SeenClear, [AccessNext]_accessVars
  PROVE  SeenClear'
<1> SUFFICES ASSUME NEW v \in Workers, load'[v].phase \in UnderWay
             PROVE  row'.blockedUntil <= load'[v].sampled
  BY DEF SeenClear
<1>1. /\ load \in [Workers -> Load] /\ load[v] \in Load
      /\ load[v].sampled \in Int /\ row \in Row /\ row.blockedUntil \in Int
  BY LoadFacts DEF AccessInv, AccessTypeOK, Row, Time, NoTime
<1>2. CASE Tick \/ UNCHANGED accessVars
  BY <1>2 DEF Tick, accessVars, SeenClear
<1>3. CASE Reserve(v)
  <2>1. load'[v].sampled = load[v].sampled
    BY <1>1, <1>3 DEF Reserve, Load
  <2>2. ~(row.blockedUntil > load[v].sampled)
    BY <1>3 DEF Reserve, Suspended
  <2>3. row'.blockedUntil = row.blockedUntil
    BY <1>3, ReserveRow
  <2> QED BY <1>1, <2>1, <2>2, <2>3
<1>4. CASE Wake(v) \/ Navigate(v)
  <2>1. load'[v].sampled = load[v].sampled /\ row' = row /\ load[v].phase \in UnderWay
    BY <1>1, <1>4 DEF Wake, Navigate, At, Goto, UnderWay, Load
  <2> QED BY <2>1 DEF SeenClear
<1>5. CASE Call(v) \/ Outcome(v)
  <2>1. load'[v].phase \in {"locking", "recordingSuccess", "recordingBlock"}
    BY <1>1, <1>5 DEF Call, Outcome, Load
  <2> QED BY <2>1 DEF UnderWay
<1>6. CASE Finish(v)
  BY <1>1, <1>6 DEF Finish, Idle, UnderWay
<1> QED BY <1>2, <1>3, <1>4, <1>5, <1>6
        DEF Alone, AccessNext, Refuse, LoadFails, RecordSuccess, RecordBlock, RecordFails, Die

\* With a single worker, no request sleeps, connects or loads while the provider
\* is suspended: the check made before the sleep is still good after it.
THEOREM SuspensionRespected ==
  ASSUME Alone
  PROVE  AccessSpec => []QuietWhileSuspended
<1>1. AccessInit => SeenClear
  BY DEF AccessInit, SeenClear, Idle, UnderWay
<1>2. AccessInv /\ SeenClear /\ [AccessNext]_accessVars => SeenClear'
  BY SeenClearKept
<1>3. AccessInv /\ SeenClear => QuietWhileSuspended
  <2> SUFFICES ASSUME AccessInv, SeenClear, NEW w \in Workers, load[w].phase \in UnderWay
               PROVE  row.blockedUntil <= now
    BY DEF QuietWhileSuspended, UnderWay
  <2>1. row.blockedUntil <= load[w].sampled /\ load[w].sampled <= now
    BY LoadFacts DEF SeenClear
  <2>2. row.blockedUntil \in Int /\ load[w].sampled \in Int /\ now \in Int
    BY LoadFacts DEF Row, Time, NoTime
  <2> QED BY <2>1, <2>2
<1> QED BY <1>1, <1>2, <1>3, Invariance, PTL DEF AccessSpec
=============================================================================
