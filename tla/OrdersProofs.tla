---------------------------- MODULE OrdersProofs ----------------------------
(***************************************************************************)
(* Proofs about customer orders, from their reception and import           *)
(* (OrderInbox) to the sales documents (Sales) and the pages that edit an  *)
(* order (OrderDesk), for any number of requests, contents, callers,       *)
(* imports, faults and reviews, of clients and documents, and of orders,   *)
(* texts, calls and events of a page.  The three components share no       *)
(* state.                                                                  *)
(***************************************************************************)
EXTENDS OrderInbox, Sales, OrderDesk, SequenceTheorems, FiniteSetTheorems, WellFoundedInduction, TLAPS

-----------------------------------------------------------------------------
(* OrderInbox: types, that all answers agree, that nothing is synced before it
   is imported, and that ledger, inbox and imports implement OrderReception. *)

\* A non-empty set of positions has an oldest one: the intervals 0..n of its
\* members are finite sets, and strict inclusion is well-founded on those.
LEMMA OldestIsOneOfThem ==
  ASSUME NEW rows \in SUBSET Nat, rows # {}
  PROVE  Oldest(rows) \in rows
<1> DEFINE Below(n) == 0..n
           T == {Below(n) : n \in rows}
           R == StrictSubsetOrdering(Nat)
<1>1. \A n \in rows : Below(n) \in FiniteSubsetsOf(Nat)
  BY FS_Interval DEF FiniteSubsetsOf
<1>2. \E x \in T : \A y \in T : ~(<<y, x>> \in R)
  <2>1. T \subseteq FiniteSubsetsOf(Nat) /\ T # {}  BY <1>1
  <2>2. IsWellFoundedOn(R, FiniteSubsetsOf(Nat))
    BY FS_StrictSubsetOrderingWellFounded
  <2> HIDE DEF T, R
  <2> QED BY <2>1, <2>2, WFMin
<1>3. PICK n \in rows : \A m \in rows : ~(<<Below(m), Below(n)>> \in R)
  BY <1>2
<1>4. \A m \in rows : n <= m
  <2> SUFFICES ASSUME NEW m \in rows, m < n PROVE FALSE
    OBVIOUS
  <2>1. Below(m) \subseteq Below(n) /\ n \in Below(n) /\ n \notin Below(m)
    OBVIOUS
  <2>2. Below(m) \in SUBSET Nat /\ Below(n) \in SUBSET Nat
    OBVIOUS
  <2>3. <<Below(m), Below(n)>> \in R
    BY <2>1, <2>2 DEF StrictSubsetOrdering
  <2> QED BY <2>3, <1>3
<1> QED BY <1>4 DEF Oldest
-----------------------------------------------------------------------------
(* The inductive invariant *)

\* A request is claimed by one call, before it is in the ledger.
Claims ==
  \A c \in Callers : caller[c].step = "claimed" =>
    /\ ledger[caller[c].request] = NoPayload
    /\ \A d \in Callers :
         caller[d].step = "claimed" /\ caller[d].request = caller[c].request => c = d

\* A row has the content its request has in the ledger, and no other row has the
\* same request.
OneRowEach ==
  \A n \in Positions :
    /\ ledger[inbox[n].request] = inbox[n].payload
    /\ \A m \in Positions : inbox[m].request = inbox[n].request => m = n

\* What was answered is in the inbox.
AnswersKept ==
  \A a \in answers :
    a.order \in Positions /\ inbox[a.order].request = a.request /\ inbox[a.order].payload = a.payload

\* An import acknowledges a row as imported only when its order exists.
SavedFirst ==
  \A i \in Importers : importer[i].step = "acknowledging" => imported[Current(i)] > 0

\* The constraint on external ids.
AtMostOneOrder == \A n \in Positions : imported[n] <= 1

InboxInv ==
  /\ InboxTypeOK /\ Claims /\ OneRowEach /\ AnswersKept
  /\ SavedFirst /\ AtMostOneOrder /\ SyncedIsImported

-----------------------------------------------------------------------------
(* Types *)

\* A started import handles one of the rows.
LEMMA CurrentIsARow ==
  ASSUME InboxTypeOK, NEW i \in Importers, importer[i].todo # {}
  PROVE  Current(i) \in importer[i].todo /\ Current(i) \in Positions
<1>1. importer[i].todo \in SUBSET Nat
  BY DEF InboxTypeOK, Positions
<1> QED BY <1>1, OldestIsOneOfThem DEF Current, InboxTypeOK

\* An import that goes on to its next row rests or checks.
LEMMA AdvanceKeeps ==
  ASSUME InboxTypeOK, NEW i \in Importers, importer[i].todo # {}, Advance(i)
  PROVE  /\ importer' \in [Importers -> Import]
         /\ importer'[i].todo \subseteq importer[i].todo
         /\ importer'[i].step \in {"idle", "checking"}
         /\ importer'[i].step = "idle" <=> importer'[i].todo = {}
         /\ \A j \in Importers : j # i => importer'[j] = importer[j]
<1>1. Oldest(importer[i].todo) \in importer[i].todo
  BY CurrentIsARow DEF Current
<1>2. importer \in [Importers -> Import] /\ importer[i] \in Import
  BY DEF InboxTypeOK
<1>3. Resting \in Import
  BY DEF Resting, Import
<1>4. [step |-> "checking", todo |-> importer[i].todo \ {Oldest(importer[i].todo)}] \in Import
  BY <1>2 DEF Import
<1> QED BY <1>1, <1>2, <1>3, <1>4 DEF Advance, Resting

\* A change of the step of an import alone keeps its rows.
LEMMA GoKeeps ==
  ASSUME InboxTypeOK, NEW i \in Importers, NEW step, Go(i, step),
         step \in {"idle", "checking", "saving", "acknowledging", "failing", "refused"}
  PROVE  /\ importer' \in [Importers -> Import]
         /\ importer'[i].todo = importer[i].todo /\ importer'[i].step = step
         /\ \A j \in Importers : j # i => importer'[j] = importer[j]
BY DEF InboxTypeOK, Go, Import
-----------------------------------------------------------------------------
(* The calls of the storefront *)

\* The bounded counters.
LEMMA CountersKept ==
  ASSUME InboxTypeOK, NoFault \/ Fault
  PROVE  faults' \in 0..MaxFaults /\ resets' \in 0..MaxResets
BY InboxAssumption DEF InboxTypeOK, NoFault, Fault

LEMMA ClaimKeeps ==
  ASSUME InboxInv, NEW c \in Callers, NEW r \in Requests, NEW p \in Payloads, Claim(c, r, p)
  PROVE  InboxInv'
<1> USE DEF InboxInv
<1>1. caller' = [caller EXCEPT ![c] = [step |-> "claimed", request |-> r, payload |-> p]]
  BY DEF Claim
<1>2. /\ UNCHANGED <<ledger, inbox, importer, imported, answers>>
      /\ ledger[r] = NoPayload /\ ~Claimed(r)
  BY DEF Claim, MayInsert
<1>3. InboxTypeOK'
  <2>1. caller' \in [Callers -> {[step |-> "idle"]} \cup Claiming]
    BY <1>1 DEF InboxTypeOK, Claiming
  <2> QED BY <2>1, <1>2, CountersKept DEF InboxTypeOK, Claim, Positions
<1>4. Claims'
  BY <1>1, <1>2 DEF Claims, Claimed, InboxTypeOK
<1>5. OneRowEach' /\ AnswersKept' /\ SavedFirst' /\ AtMostOneOrder' /\ SyncedIsImported'
  BY <1>2 DEF OneRowEach, AnswersKept, SavedFirst, AtMostOneOrder, SyncedIsImported, Positions, Current
<1> QED BY <1>3, <1>4, <1>5

\* A call that ends claims nothing any more.
LEMMA IdleKeeps ==
  ASSUME InboxTypeOK, NEW c \in Callers, caller' = [caller EXCEPT ![c] = [step |-> "idle"]]
  PROVE  /\ caller' \in [Callers -> {[step |-> "idle"]} \cup Claiming]
         /\ \A d \in Callers : caller'[d].step = "claimed" => d # c /\ caller'[d] = caller[d]
BY DEF InboxTypeOK

LEMMA RollBackKeeps ==
  ASSUME InboxInv, NEW c \in Callers, RollBackClaim(c)
  PROVE  InboxInv'
<1> USE DEF InboxInv
<1>1. UNCHANGED <<ledger, inbox, importer, imported, answers>>
  BY DEF RollBackClaim
<1>2. InboxTypeOK'
  BY <1>1, IdleKeeps, CountersKept DEF InboxTypeOK, RollBackClaim, Positions
<1>3. Claims'
  BY <1>1, IdleKeeps DEF Claims, RollBackClaim
<1>4. OneRowEach' /\ AnswersKept' /\ SavedFirst' /\ AtMostOneOrder' /\ SyncedIsImported'
  BY <1>1 DEF OneRowEach, AnswersKept, SavedFirst, AtMostOneOrder, SyncedIsImported, Positions, Current
<1> QED BY <1>2, <1>3, <1>4

LEMMA ReplayKeeps ==
  ASSUME InboxInv, NEW c \in Callers, NEW r \in Requests, NEW p \in Payloads, Replay(c, r, p)
  PROVE  InboxInv'
<1> USE DEF InboxInv
<1>1. PICK n \in Positions :
        /\ inbox[n].request = r
        /\ answers' = answers \cup {[request |-> r, payload |-> p, order |-> n]}
  BY DEF Replay
<1>2. UNCHANGED <<caller, ledger, inbox, importer, imported>> /\ ledger[r] = p /\ NoFault
  BY DEF Replay, SameContent
<1>3. inbox[n].payload = p
  BY <1>1, <1>2 DEF OneRowEach
<1>4. AnswersKept'
  BY <1>1, <1>2, <1>3 DEF AnswersKept, Positions
<1>5. InboxTypeOK'
  BY <1>2, CountersKept DEF InboxTypeOK, Positions
<1>6. Claims' /\ OneRowEach' /\ SavedFirst' /\ AtMostOneOrder' /\ SyncedIsImported'
  BY <1>2 DEF Claims, OneRowEach, SavedFirst, AtMostOneOrder, SyncedIsImported, Positions, Current
<1> QED BY <1>4, <1>5, <1>6

\* The row of a received request is appended, and no row had that request.
LEMMA ReceiveAppends ==
  ASSUME InboxInv, NEW c \in Callers, Receive(c), NEW last, last = Len(inbox) + 1,
         NEW row, row = [request |-> caller[c].request, payload |-> caller[c].payload, sync |-> "pending"]
  PROVE  /\ row.request \in Requests /\ row.payload \in Payloads
         /\ inbox' \in Seq(Row) /\ imported' \in Seq(Nat)
         /\ Len(inbox') = last /\ Len(imported') = last
         /\ inbox'[last] = row /\ imported'[last] = 0
         /\ \A n \in Positions : inbox'[n] = inbox[n] /\ imported'[n] = imported[n]
         /\ Positions' = Positions \cup {last} /\ last \notin Positions
         /\ \A n \in Positions : inbox[n] \in Row /\ inbox[n].request # row.request
<1> USE DEF InboxInv
<1>1. /\ caller[c].step = "claimed" /\ row \in Row
      /\ row.request \in Requests /\ row.payload \in Payloads
      /\ ledger[row.request] = NoPayload
      /\ inbox' = Append(inbox, row) /\ imported' = Append(imported, 0)
  BY DEF Receive, InboxTypeOK, Claiming, Claims, Row
<1>2. inbox \in Seq(Row) /\ imported \in Seq(Nat) /\ Len(imported) = Len(inbox) /\ Len(inbox) \in Nat
  BY LenProperties DEF InboxTypeOK
<1>3. /\ inbox' \in Seq(Row) /\ imported' \in Seq(Nat)
      /\ Len(inbox') = last /\ Len(imported') = last
      /\ inbox'[last] = row /\ imported'[last] = 0
      /\ \A n \in Positions : inbox'[n] = inbox[n] /\ imported'[n] = imported[n]
      /\ Positions' = Positions \cup {last} /\ last \notin Positions
  <2> QED BY ONLY <1>1, <1>2, AppendProperties, last = Len(inbox) + 1 DEF Positions
<1>4. ASSUME NEW n \in Positions
      PROVE  inbox[n] \in Row /\ inbox[n].request # row.request
  <2>1. inbox[n] \in Row
    BY ElementOfSeq DEF InboxTypeOK, Positions
  <2>2. ledger[inbox[n].request] = inbox[n].payload /\ inbox[n].payload # NoPayload
    BY <2>1, InboxAssumption DEF OneRowEach, Row
  <2> QED BY <2>1, <2>2, <1>1
<1> QED BY <1>1, <1>3, <1>4

LEMMA ReceiveKeeps ==
  ASSUME InboxInv, NEW c \in Callers, Receive(c)
  PROVE  InboxInv'
<1> DEFINE r == caller[c].request
           p == caller[c].payload
           row == [request |-> r, payload |-> p, sync |-> "pending"]
           last == Len(inbox) + 1
<1> USE DEF InboxInv
<1>1. /\ caller[c].step = "claimed" /\ r \in Requests /\ p \in Payloads
      /\ ledger[r] = NoPayload /\ ledger' = [ledger EXCEPT ![r] = p]
      /\ caller' = [caller EXCEPT ![c] = [step |-> "idle"]]
      /\ inbox' = Append(inbox, row) /\ imported' = Append(imported, 0)
      /\ answers' = answers \cup {[request |-> r, payload |-> p, order |-> last]}
      /\ importer' = importer /\ NoFault
  BY DEF Receive, InboxTypeOK, Claiming, Claims
<1>3. /\ inbox' \in Seq(Row) /\ imported' \in Seq(Nat)
      /\ Len(inbox') = last /\ Len(imported') = last
      /\ inbox'[last] = row /\ imported'[last] = 0
      /\ \A n \in Positions : inbox'[n] = inbox[n] /\ imported'[n] = imported[n]
      /\ Positions' = Positions \cup {last} /\ last \notin Positions
      /\ \A n \in Positions : inbox[n] \in Row /\ inbox[n].request # row.request
  <2> HIDE DEF row, last
  <2> QED BY ReceiveAppends DEF row, last
<1>4. InboxTypeOK'
  <2>1. ledger' \in [Requests -> Payloads \cup {NoPayload}]
    BY <1>1 DEF InboxTypeOK
  <2>2. importer' \in [Importers -> Import] /\ \A i \in Importers :
          /\ importer'[i].todo \subseteq Positions'
          /\ importer'[i].step \in {"idle", "refused"} <=> importer'[i].todo = {}
    BY <1>1, <1>3 DEF InboxTypeOK
  <2>3. caller' \in [Callers -> {[step |-> "idle"]} \cup Claiming]
    BY <1>1, IdleKeeps
  <2>4. faults' \in 0..MaxFaults /\ resets' \in 0..MaxResets
    BY <1>1, CountersKept
  <2> QED BY <1>3, <2>1, <2>2, <2>3, <2>4 DEF InboxTypeOK
<1>5. Claims'
  <2> SUFFICES ASSUME NEW d \in Callers, caller'[d].step = "claimed"
               PROVE  /\ ledger'[caller'[d].request] = NoPayload
                      /\ \A e \in Callers :
                           caller'[e].step = "claimed" /\ caller'[e].request = caller'[d].request => d = e
    BY DEF Claims
  <2>1. d # c /\ caller'[d] = caller[d] /\ caller[d].step = "claimed"
    BY <1>1, IdleKeeps
  <2>2. caller[d].request # r /\ caller[d].request \in Requests
    BY <2>1, <1>1 DEF Claims, InboxTypeOK, Claiming
  <2> QED BY <2>1, <2>2, <1>1, IdleKeeps DEF Claims, InboxTypeOK
<1>6. \A n \in Positions : inbox[n].request # r /\ inbox[n].request \in Requests /\ inbox[n] \in Row
  BY <1>3 DEF Row
<1>7. OneRowEach'
  <2>1. \A n \in Positions : ledger'[inbox'[n].request] = inbox'[n].payload
    <3>1. \A q \in Requests : q # r => ledger'[q] = ledger[q]
      BY <1>1 DEF InboxTypeOK
    <3> HIDE DEF r
    <3> QED BY <1>3, <1>6, <3>1 DEF OneRowEach
  <2>2. ledger'[inbox'[last].request] = inbox'[last].payload
    BY <1>1, <1>3 DEF InboxTypeOK
  <2>3. \A m, n \in Positions' : inbox'[m].request = inbox'[n].request => m = n
    BY <1>3, <1>6 DEF OneRowEach
  <2> QED BY <1>3, <2>1, <2>2, <2>3 DEF OneRowEach
<1>8. AnswersKept'
  <2> SUFFICES ASSUME NEW a \in answers'
               PROVE  /\ a.order \in Positions'
                      /\ inbox'[a.order].request = a.request /\ inbox'[a.order].payload = a.payload
    BY DEF AnswersKept
  <2>1. CASE a \in answers
    BY <2>1, <1>3 DEF AnswersKept
  <2>2. CASE a = [request |-> r, payload |-> p, order |-> last]
    BY <2>2, <1>3
  <2> QED BY <2>1, <2>2, <1>1
<1>9. SavedFirst'
  <2> SUFFICES ASSUME NEW i \in Importers, importer[i].step = "acknowledging"
               PROVE  imported'[Current(i)] > 0
    BY <1>1 DEF SavedFirst, Current
  <2>1. Current(i) \in Positions
    BY CurrentIsARow DEF InboxTypeOK
  <2> QED BY <2>1, <1>3 DEF SavedFirst
<1>10. AtMostOneOrder' /\ SyncedIsImported'
  <2> SUFFICES ASSUME NEW n \in Positions'
               PROVE  imported'[n] <= 1 /\ (inbox'[n].sync = "synced" => imported'[n] > 0)
    BY DEF AtMostOneOrder, SyncedIsImported
  <2>1. CASE n \in Positions
    BY <2>1, <1>3 DEF AtMostOneOrder, SyncedIsImported
  <2>2. CASE n = last
    BY <2>2, <1>3
  <2> QED BY <2>1, <2>2, <1>3
<1> QED BY <1>4, <1>5, <1>7, <1>8, <1>9, <1>10
-----------------------------------------------------------------------------
(* The steps of an import *)

\* A step that leaves the requests and contents of the rows alone keeps what calls
\* and answers rest on.
LEMMA CallsKept ==
  ASSUME InboxInv, UNCHANGED rpc, Len(inbox') = Len(inbox),
         \A n \in Positions : inbox'[n].request = inbox[n].request
                             /\ inbox'[n].payload = inbox[n].payload
  PROVE  Claims' /\ OneRowEach' /\ AnswersKept'
<1>1. Positions' = Positions
  BY DEF Positions
<1>2. Claims' /\ AnswersKept'
  BY <1>1 DEF rpc, Claims, AnswersKept, InboxInv
<1>3. OneRowEach'
  BY <1>1 DEF rpc, OneRowEach, InboxInv
<1> QED BY <1>2, <1>3

\* A step of one import that changes no row and no order.
LEMMA ReadingKeeps ==
  ASSUME InboxInv, UNCHANGED <<rpc, inbox, imported>>, NoFault \/ Fault, NEW i \in Importers,
         importer' \in [Importers -> Import], importer'[i].todo \subseteq Positions,
         importer'[i].step \in {"idle", "refused"} <=> importer'[i].todo = {},
         \A j \in Importers : j # i => importer'[j] = importer[j],
         importer'[i].step = "acknowledging" => imported[Oldest(importer'[i].todo)] > 0
  PROVE  InboxInv'
<1>1. Positions' = Positions
  BY DEF Positions
<1>2. InboxTypeOK'
  <2>1. \A j \in Importers :
          /\ importer'[j].todo \subseteq Positions'
          /\ importer'[j].step \in {"idle", "refused"} <=> importer'[j].todo = {}
    BY <1>1 DEF InboxInv, InboxTypeOK
  <2>2. faults' \in 0..MaxFaults /\ resets' \in 0..MaxResets
    BY CountersKept DEF InboxInv
  <2> QED BY <1>1, <2>1, <2>2 DEF InboxInv, InboxTypeOK, rpc
<1>3. SavedFirst'
  BY DEF InboxInv, SavedFirst, Current
<1>4. Claims' /\ OneRowEach' /\ AnswersKept'
  BY CallsKept
<1>5. AtMostOneOrder' /\ SyncedIsImported'
  BY <1>1 DEF InboxInv, AtMostOneOrder, SyncedIsImported
<1> QED BY <1>2, <1>3, <1>4, <1>5 DEF InboxInv

\* Fetching, checking and reporting only read; so do the failures without effect.
LEMMA ReadersKeep ==
  ASSUME InboxInv, NEW i \in Importers,
         Fetch(i) \/ FetchRefused(i) \/ RefusalReported(i) \/ Check(i) \/ AcknowledgementLost(i) \/ Crash(i)
  PROVE  InboxInv'
<1> USE DEF InboxInv
<1>0. /\ importer \in [Importers -> Import] /\ importer[i] \in Import
      /\ Resting \in Import /\ Resting.step = "idle" /\ Resting.todo = {}
      /\ Pending \subseteq Positions /\ Positions \subseteq Nat \ {0}
      /\ importer[i].todo \subseteq Positions
      /\ importer[i].step \in {"idle", "refused"} <=> importer[i].todo = {}
  BY DEF InboxTypeOK, Resting, Import, Pending, Positions
<1>1. CASE Fetch(i)
  <2>1. [step |-> "checking", todo |-> Pending] \in Import
    BY <1>0 DEF Import
  <2> QED BY <1>0, <1>1, <2>1, ReadingKeeps DEF Fetch
<1>2. CASE FetchRefused(i)
  <2>1. importer[i] = Resting /\ Go(i, "refused")
    BY <1>2 DEF FetchRefused
  <2> QED BY <1>0, <1>2, <2>1, GoKeeps, ReadingKeeps DEF FetchRefused
<1>3. CASE RefusalReported(i)
  BY <1>0, <1>3, ReadingKeeps DEF RefusalReported
<1>4. CASE Check(i)
  <2>1. importer[i].step = "checking" /\ UNCHANGED <<rpc, inbox, imported>> /\ NoFault
    BY <1>4 DEF Check
  <2>2. PICK step \in {"acknowledging", "saving", "failing"} :
          Go(i, step) /\ (step = "acknowledging" => imported[Current(i)] > 0)
    BY <1>4 DEF Check
  <2> QED BY <1>0, <2>1, <2>2, GoKeeps, ReadingKeeps DEF Current
<1>5. CASE AcknowledgementLost(i)
  <2>1. importer[i].step \in {"acknowledging", "failing"} /\ Fault /\ Advance(i)
        /\ UNCHANGED <<rpc, inbox, imported>>
    BY <1>5 DEF AcknowledgementLost
  <2>2. importer[i].todo # {}
    BY <1>0, <2>1
  <2> QED BY <1>0, <2>1, <2>2, AdvanceKeeps, ReadingKeeps
<1>6. CASE Crash(i)
  BY <1>0, <1>6, ReadingKeeps DEF Crash
<1> QED BY <1>1, <1>2, <1>3, <1>4, <1>5, <1>6

\* A step of an import that may have written the order of its row: the constraint
\* lets only the first one in.
LEMMA WritersKeep ==
  ASSUME InboxInv, NEW i \in Importers, Save(i) \/ StepRaises(i)
  PROVE  InboxInv'
<1> USE DEF InboxInv
<1> DEFINE n == Current(i)
<1>1. importer[i].todo # {} /\ n \in Positions /\ n \in importer[i].todo
  BY CurrentIsARow DEF InboxTypeOK, Save, StepRaises
<1>2. PICK step \in {"acknowledging", "failing"} :
        Go(i, step) /\ (step = "acknowledging" => Save(i))
  BY DEF Save, StepRaises
<1>3. UNCHANGED <<rpc, inbox>> /\ (NoFault \/ Fault)
  BY DEF Save, StepRaises
<1>4. UNCHANGED imported \/ (imported[n] = 0 /\ imported' = [imported EXCEPT ![n] = @ + 1])
  BY DEF Save, StepRaises, Persisted, AcceptsOrder
<1>5. Save(i) => imported'[n] > 0
  BY <1>1 DEF Save, Persisted, AcceptsOrder, InboxTypeOK, Positions
<1> HIDE DEF n
<1>6. /\ imported' \in Seq(Nat) /\ Len(imported') = Len(imported) /\ Positions' = Positions
      /\ \A m \in Positions : imported'[m] = imported[m] \/ (imported[m] = 0 /\ imported'[m] = 1)
  <2>1. imported \in Seq(Nat) /\ Len(imported) = Len(inbox) /\ n \in 1..Len(imported)
    BY <1>1 DEF InboxTypeOK, Positions
  <2>2. CASE UNCHANGED imported
    BY <1>3, <2>1, <2>2 DEF Positions
  <2>3. CASE imported[n] = 0 /\ imported' = [imported EXCEPT ![n] = @ + 1]
    <3>1. imported' = [imported EXCEPT ![n] = 1]
      BY <2>3
    <3> QED BY <1>3, <2>1, <2>3, <3>1, ExceptSeq DEF Positions
  <2> QED BY <1>4, <2>2, <2>3
<1>7. InboxTypeOK'
  <2>1. \A j \in Importers :
          /\ importer'[j].todo \subseteq Positions'
          /\ importer'[j].step \in {"idle", "refused"} <=> importer'[j].todo = {}
    <3>1. /\ importer'[i].todo = importer[i].todo /\ importer'[i].step \in {"acknowledging", "failing"}
          /\ \A j \in Importers : j # i => importer'[j] = importer[j]
      BY <1>2, GoKeeps
    <3> QED BY <1>1, <1>6, <3>1 DEF InboxTypeOK
  <2> QED BY <1>2, <1>3, <1>6, <2>1, GoKeeps, CountersKept DEF InboxTypeOK, rpc
<1>8. SavedFirst'
  <2> SUFFICES ASSUME NEW j \in Importers, importer'[j].step = "acknowledging"
               PROVE  imported'[Oldest(importer'[j].todo)] > 0
    BY DEF SavedFirst, Current
  <2>1. CASE j = i
    BY <2>1, <1>2, <1>5, GoKeeps DEF n, Current
  <2>2. CASE j # i
    <3>1. importer'[j] = importer[j]
      BY <1>2, <2>2, GoKeeps
    <3>2. Current(j) \in Positions /\ imported[Current(j)] > 0
      BY <3>1, CurrentIsARow DEF SavedFirst, InboxTypeOK
    <3> QED BY <1>6, <3>1, <3>2 DEF Current
  <2> QED BY <2>1, <2>2
<1>9. Claims' /\ OneRowEach' /\ AnswersKept'
  BY <1>3, CallsKept
<1>10. AtMostOneOrder' /\ SyncedIsImported'
  BY <1>3, <1>6 DEF AtMostOneOrder, SyncedIsImported
<1> QED BY <1>7, <1>8, <1>9, <1>10

\* The inbox after one row changed its sync status only.
Marked(n, sync) ==
  /\ sync \in {"pending", "synced", "failed"} /\ n \in Positions
  /\ inbox' = [inbox EXCEPT ![n] = [inbox[n] EXCEPT !.sync = sync]]

LEMMA MarkedKeeps ==
  ASSUME InboxTypeOK, NEW n, NEW sync, Marked(n, sync)
  PROVE  /\ inbox' \in Seq(Row) /\ Len(inbox') = Len(inbox) /\ Positions' = Positions
         /\ inbox'[n].sync = sync
         /\ \A m \in Positions : /\ inbox'[m].request = inbox[m].request
                                 /\ inbox'[m].payload = inbox[m].payload
                                 /\ m # n => inbox'[m] = inbox[m]
<1> DEFINE row == [inbox[n] EXCEPT !.sync = sync]
<1>1. inbox \in Seq(Row) /\ n \in 1..Len(inbox) /\ inbox[n] \in Row
  BY ElementOfSeq DEF InboxTypeOK, Marked, Positions
<1>2. /\ row \in Row /\ row.request = inbox[n].request
      /\ row.payload = inbox[n].payload /\ row.sync = sync
  BY <1>1 DEF Row, Marked
<1>3. inbox' = [inbox EXCEPT ![n] = row]
  BY DEF Marked
<1> HIDE DEF row
<1>4. /\ inbox' \in Seq(Row) /\ Len(inbox') = Len(inbox)
      /\ \A m \in 1..Len(inbox) : inbox'[m] = IF m = n THEN row ELSE inbox[m]
  BY <1>1, <1>2, <1>3, ExceptSeq
<1> QED BY <1>1, <1>2, <1>4 DEF Positions

\* An acknowledgement marks a pending row or changes nothing; it says synced only
\* of a row whose order was saved or found.
LEMMA AcknowledgeKeeps ==
  ASSUME InboxInv, NEW i \in Importers, Acknowledge(i)
  PROVE  InboxInv'
<1> USE DEF InboxInv
<1> DEFINE n == Current(i)
<1>1. importer[i].todo # {} /\ n \in Positions
  BY CurrentIsARow DEF InboxTypeOK, Acknowledge
<1>2. /\ Advance(i) /\ UNCHANGED <<rpc, imported>> /\ NoFault
      /\ importer[i].step \in {"acknowledging", "failing"}
  BY DEF Acknowledge
<1>3. \/ UNCHANGED inbox
      \/ Marked(n, "failed")
      \/ Marked(n, "synced") /\ imported[n] > 0
  <2>1. inbox' = [inbox EXCEPT ![n] = UpdatedPending(inbox[n], Outcome(importer[i].step))]
    BY <1>1 DEF Acknowledge, InboxTypeOK
  <2>2. CASE inbox[n].sync = "pending"
    BY <1>1, <1>2, <2>1, <2>2 DEF UpdatedPending, Outcome, Marked, SavedFirst
  <2>3. CASE inbox[n].sync # "pending"
    BY <1>1, <2>1, <2>3 DEF UpdatedPending, InboxTypeOK
  <2> QED BY <2>2, <2>3
<1> HIDE DEF n
<1>4. /\ inbox' \in Seq(Row) /\ Len(inbox') = Len(inbox) /\ Positions' = Positions
      /\ \A m \in Positions :
           /\ inbox'[m].request = inbox[m].request /\ inbox'[m].payload = inbox[m].payload
           /\ inbox'[m].sync = "synced" => inbox[m].sync = "synced" \/ imported[m] > 0
  BY <1>1, <1>3, MarkedKeeps DEF InboxTypeOK, Positions
<1>5. InboxTypeOK'
  <2>1. \A j \in Importers :
          /\ importer'[j].todo \subseteq Positions'
          /\ importer'[j].step \in {"idle", "refused"} <=> importer'[j].todo = {}
    BY <1>1, <1>2, <1>4, AdvanceKeeps DEF InboxTypeOK
  <2>2. importer' \in [Importers -> Import]
    BY <1>1, <1>2, AdvanceKeeps
  <2> QED BY <1>2, <1>4, <2>1, <2>2, CountersKept DEF InboxTypeOK, rpc
<1>6. SavedFirst'
  BY <1>1, <1>2, AdvanceKeeps DEF SavedFirst, Current
<1>7. Claims' /\ OneRowEach' /\ AnswersKept'
  BY <1>2, <1>4, CallsKept
<1>8. AtMostOneOrder' /\ SyncedIsImported'
  BY <1>2, <1>4 DEF AtMostOneOrder, SyncedIsImported
<1> QED BY <1>5, <1>6, <1>7, <1>8

LEMMA ResetKeeps ==
  ASSUME InboxInv, NEW n \in Positions, Reset(n)
  PROVE  InboxInv'
<1> USE DEF InboxInv
<1>1. Marked(n, "pending") /\ UNCHANGED <<rpc, importer, imported, faults>>
      /\ resets < MaxResets /\ resets' = resets + 1
  BY DEF Reset, Marked, InboxTypeOK
<1>2. /\ inbox' \in Seq(Row) /\ Len(inbox') = Len(inbox) /\ Positions' = Positions
      /\ \A m \in Positions :
           /\ inbox'[m].request = inbox[m].request /\ inbox'[m].payload = inbox[m].payload
           /\ inbox'[m].sync = "synced" => inbox[m].sync = "synced"
  BY <1>1, MarkedKeeps
<1>3. InboxTypeOK'
  BY <1>1, <1>2, InboxAssumption DEF InboxTypeOK, rpc
<1>4. Claims' /\ OneRowEach' /\ AnswersKept'
  BY <1>1, <1>2, CallsKept
<1>5. SavedFirst' /\ AtMostOneOrder' /\ SyncedIsImported'
  BY <1>1, <1>2 DEF SavedFirst, AtMostOneOrder, SyncedIsImported, Current
<1> QED BY <1>3, <1>4, <1>5
-----------------------------------------------------------------------------
(* The theorems *)

LEMMA InvariantHolds == InboxSpec => []InboxInv
<1>1. InboxInit => InboxInv
  <2> SUFFICES ASSUME InboxInit PROVE InboxInv
    OBVIOUS
  <2>1. inbox = <<>> /\ imported = <<>> /\ Len(inbox) = 0 /\ Len(imported) = 0 /\ Positions = {}
    BY DEF InboxInit, Positions
  <2>2. InboxTypeOK
    BY <2>1, InboxAssumption DEF InboxInit, InboxTypeOK, Resting, Import
  <2>3. Claims /\ SavedFirst
    BY DEF InboxInit, Claims, SavedFirst, Resting
  <2> QED BY <2>1, <2>2, <2>3
        DEF InboxInit, InboxInv, OneRowEach, AnswersKept, AtMostOneOrder, SyncedIsImported
<1>2. InboxInv /\ [InboxNext]_inboxVars => InboxInv'
  <2> SUFFICES ASSUME InboxInv, [InboxNext]_inboxVars PROVE InboxInv'
    OBVIOUS
  <2>1. CASE \E c \in Callers : CallerNext(c)
    BY <2>1, ClaimKeeps, ReplayKeeps, ReceiveKeeps, RollBackKeeps DEF CallerNext
  <2>2. ASSUME NEW i \in Importers,
               Fetch(i) \/ FetchRefused(i) \/ ImporterNext(i)
                 \/ StepRaises(i) \/ AcknowledgementLost(i) \/ Crash(i)
        PROVE  InboxInv'
    BY <2>2, ReadersKeep, WritersKeep, AcknowledgeKeeps DEF ImporterNext
  <2>3. CASE \E n \in Positions : Reset(n)
    BY <2>3, ResetKeeps
  <2>4. CASE UNCHANGED inboxVars
    <3>1. UNCHANGED <<caller, ledger, inbox, importer, imported, answers, faults, resets>>
      BY <2>4 DEF inboxVars
    <3> QED BY <3>1 DEF InboxInv, InboxTypeOK, Claims, OneRowEach, AnswersKept, SavedFirst,
                        AtMostOneOrder, SyncedIsImported, Positions, Current
  <2> QED BY <2>1, <2>2, <2>3, <2>4 DEF InboxNext
<1> QED BY <1>1, <1>2, PTL DEF InboxSpec

\* The domains of the variables.
THEOREM InboxTypeCorrect == InboxSpec => []InboxTypeOK
BY InvariantHolds, PTL DEF InboxInv

\* Callers that are answered an order find the content they sent, and all that
\* sent one request are answered one order, for any number of overlapping and
\* repeated calls: the ledger has a row for one open call at a time.
THEOREM AnswersAlwaysAgree == InboxSpec => []AnswersAgree
<1>1. InboxInv => AnswersAgree
  BY DEF InboxInv, AnswersKept, OneRowEach, AnswersAgree
<1> QED BY <1>1, InvariantHolds, PTL

\* Whatever imports overlap, fail or stop, a row is synced only when its order is
\* in the local database.
THEOREM SyncedIsAlwaysImported == InboxSpec => []SyncedIsImported
BY InvariantHolds, PTL DEF InboxInv
-----------------------------------------------------------------------------
(* The implementation of OrderReception *)

\* Request r has become a local order.
Ordered(r) == \E n \in Positions : inbox[n].request = r /\ imported[n] = 1

\* What the abstract specification sees of a state.
View ==
  /\ \A n \in Positions : inbox[n].request \in Requests /\ Received[inbox[n].request] = inbox[n].payload
  /\ \A r \in Requests :
       (\A n \in Positions : inbox[n].request # r) => Received[r] = NoPayload
  /\ \A r \in Requests : OrdersOf[r] = IF Importers # {} /\ Ordered(r) THEN 1 ELSE 0

LEMMA InvariantGivesView == InboxInv => View
<1> SUFFICES ASSUME InboxInv PROVE View
  OBVIOUS
<1>1. ASSUME NEW n \in Positions
      PROVE  inbox[n].request \in Requests
  <2>1. inbox[n] \in Row
    BY ElementOfSeq DEF InboxInv, InboxTypeOK, Positions
  <2> QED BY <2>1 DEF Row
<1>2. ASSUME NEW n \in Positions
      PROVE  Received[inbox[n].request] = inbox[n].payload
  <2> DEFINE r == inbox[n].request
             m == CHOOSE k \in Positions : inbox[k].request = r
  <2>1. m \in Positions /\ inbox[m].request = r
    OBVIOUS
  <2>2. m = n
    BY <2>1 DEF InboxInv, OneRowEach
  <2>3. Received[r] = inbox[m].payload
    BY <1>1 DEF Received
  <2> QED BY <2>2, <2>3
<1>3. ASSUME NEW r \in Requests, \A n \in Positions : inbox[n].request # r
      PROVE  Received[r] = NoPayload
  BY <1>3 DEF Received
<1>4. ASSUME NEW r \in Requests
      PROVE  OrdersOf[r] = IF Importers # {} /\ Ordered(r) THEN 1 ELSE 0
  <2> DEFINE K == Cardinality(Importers)
             S == {o \in Positions \X (1..K) : inbox[o[1]].request = r /\ o[2] <= imported[o[1]]}
  <2>1. K \in Nat /\ (K = 0 <=> Importers = {})
    BY InboxAssumption, FS_CardinalityType, FS_EmptySet
  <2>2. OrdersOf[r] = Cardinality(S)
    BY DEF OrdersOf
  <2>3. \A n \in Positions : imported[n] \in Nat /\ imported[n] <= 1
    BY ElementOfSeq DEF InboxInv, InboxTypeOK, AtMostOneOrder, Positions
  <2>4. CASE Importers # {} /\ Ordered(r)
    <3>1. PICK n \in Positions : inbox[n].request = r /\ imported[n] = 1
      BY <2>4 DEF Ordered
    <3>2. <<n, 1>> \in S
      BY <2>1, <2>4, <3>1
    <3>3. \A o \in S : o = <<n, 1>>
      <4> SUFFICES ASSUME NEW m \in Positions, NEW k \in 1..K,
                          inbox[m].request = r, k <= imported[m]
                   PROVE  m = n /\ k = 1
        OBVIOUS
      <4>1. m = n
        BY <3>1 DEF InboxInv, OneRowEach
      <4> QED BY <4>1, <3>1, <2>1
    <3>4. S = {<<n, 1>>}
      BY <3>2, <3>3
    <3> QED BY <2>2, <2>4, <3>4, FS_Singleton
  <2>5. CASE ~(Importers # {} /\ Ordered(r))
    <3>1. S = {}
      <4> SUFFICES ASSUME NEW m \in Positions, NEW k \in 1..K,
                          inbox[m].request = r, k <= imported[m]
                   PROVE  FALSE
        OBVIOUS
      <4>1. Importers # {} /\ imported[m] = 1
        BY <2>1, <2>3
      <4> QED BY <4>1, <2>5 DEF Ordered
    <3> QED BY <2>2, <2>5, <3>1, FS_EmptySet
  <2> QED BY <2>4, <2>5
<1> QED BY <1>1, <1>2, <1>3, <1>4 DEF View

\* A step that keeps requests, contents and orders is invisible.
LEMMA InvisibleStep ==
  ASSUME Positions' = Positions, UNCHANGED imported,
         \A n \in Positions : inbox'[n].request = inbox[n].request
                             /\ inbox'[n].payload = inbox[n].payload
  PROVE  UNCHANGED <<Received, OrdersOf>>
<1>1. Received' = Received
  BY DEF Received
<1>2. OrdersOf' = OrdersOf
  BY DEF OrdersOf
<1> QED BY <1>1, <1>2

\* A received request is received once in the abstract specification too.
LEMMA ReceiveImplements ==
  ASSUME InboxInv, View, View', NEW c \in Callers, Receive(c)
  PROVE  \E r \in Requests, p \in Payloads : Reception!Receive(r, p)
<1> DEFINE last == Len(inbox) + 1
           row == [request |-> caller[c].request, payload |-> caller[c].payload, sync |-> "pending"]
<1>1. /\ row.request \in Requests /\ row.payload \in Payloads
      /\ inbox'[last] = row /\ imported'[last] = 0
      /\ \A n \in Positions : inbox'[n] = inbox[n] /\ imported'[n] = imported[n]
      /\ Positions' = Positions \cup {last} /\ last \notin Positions
      /\ \A n \in Positions : inbox[n].request # row.request
  <2> HIDE DEF row, last
  <2> QED BY ReceiveAppends DEF row, last
<1> HIDE DEF row, last
<1>2. Received[row.request] = NoPayload
  BY <1>1 DEF View
<1>3. Received' = [Received EXCEPT ![row.request] = row.payload]
  <2>1. Received'[row.request] = row.payload
    BY <1>1 DEF View
  <2>2. ASSUME NEW q \in Requests, q # row.request
        PROVE  Received'[q] = Received[q]
    <3>1. CASE \E n \in Positions : inbox[n].request = q
      BY <3>1, <1>1 DEF View
    <3>2. CASE \A n \in Positions : inbox[n].request # q
      <4>1. \A n \in Positions' : inbox'[n].request # q
        BY <3>2, <2>2, <1>1
      <4> QED BY <3>2, <4>1 DEF View
    <3> QED BY <3>1, <3>2
  <2>3. Received' = [q \in Requests |-> Received'[q]] /\ Received = [q \in Requests |-> Received[q]]
    BY DEF Received
  <2> QED BY <1>1, <2>1, <2>2, <2>3
<1>4. OrdersOf' = OrdersOf
  <2>1. ASSUME NEW q \in Requests PROVE Ordered(q)' = Ordered(q)
    BY <1>1 DEF Ordered
  <2>2. OrdersOf' = [q \in Requests |-> OrdersOf'[q]] /\ OrdersOf = [q \in Requests |-> OrdersOf[q]]
    BY DEF OrdersOf
  <2> QED BY <2>1, <2>2 DEF View
<1> QED BY <1>1, <1>2, <1>3, <1>4 DEF Reception!Receive

\* An order that is saved is the first of its request.
LEMMA SaveImplements ==
  ASSUME InboxInv, View, View', NEW i \in Importers, NEW n \in Positions, UNCHANGED inbox,
         imported[n] = 0, imported' = [imported EXCEPT ![n] = @ + 1]
  PROVE  \E r \in Requests : Reception!Import(r)
<1> DEFINE r == inbox[n].request
<1>1. r \in Requests /\ Received[r] # NoPayload /\ ~Ordered(r)
  <2>1. inbox[n] \in Row
    BY ElementOfSeq DEF InboxInv, InboxTypeOK, Positions
  <2>2. inbox[n].payload # NoPayload /\ r \in Requests
    BY <2>1, InboxAssumption DEF Row
  <2>3. ~Ordered(r)
    BY DEF Ordered, InboxInv, OneRowEach
  <2> QED BY <2>2, <2>3 DEF View
<1>2. Positions' = Positions /\ imported'[n] = 1 /\ \A m \in Positions : m # n => imported'[m] = imported[m]
  BY DEF InboxInv, InboxTypeOK, Positions
<1>3. Received' = Received
  BY <1>2 DEF Received
<1>4. Ordered(r)'
  BY <1>2 DEF Ordered
<1>5. ASSUME NEW q \in Requests, q # r PROVE Ordered(q)' = Ordered(q)
  BY <1>2, <1>5 DEF Ordered
<1>6. OrdersOf' = [OrdersOf EXCEPT ![r] = 1]
  <2>1. OrdersOf' = [q \in Requests |-> OrdersOf'[q]] /\ OrdersOf = [q \in Requests |-> OrdersOf[q]]
    BY DEF OrdersOf
  <2>2. OrdersOf'[r] = 1
    BY <1>1, <1>4 DEF View
  <2>3. \A q \in Requests : q # r => OrdersOf'[q] = OrdersOf[q]
    BY <1>5 DEF View
  <2> QED BY <1>1, <2>1, <2>2, <2>3
<1>7. OrdersOf[r] = 0
  BY <1>1 DEF View
<1> QED BY <1>1, <1>3, <1>6, <1>7 DEF Reception!Import

LEMMA StepImplements ==
  ASSUME InboxInv, View, View', [InboxNext]_inboxVars
  PROVE  [Reception!Next]_(Reception!vars)
<1>1. ASSUME NEW c \in Callers, Receive(c)
      PROVE  Reception!Next
  BY <1>1, ReceiveImplements DEF Reception!Next
<1>2. ASSUME NEW i \in Importers, NEW n \in Positions, UNCHANGED inbox,
             imported[n] = 0, imported' = [imported EXCEPT ![n] = @ + 1]
      PROVE  Reception!Next
  BY <1>2, SaveImplements DEF Reception!Next
<1>3. ASSUME UNCHANGED <<inbox, imported>>
      PROVE  UNCHANGED <<Received, OrdersOf>>
  BY <1>3, InvisibleStep DEF Positions
<1>4. ASSUME UNCHANGED imported, NEW n, NEW sync, Marked(n, sync)
      PROVE  UNCHANGED <<Received, OrdersOf>>
  BY <1>4, InvisibleStep, MarkedKeeps DEF InboxInv
<1>5. ASSUME NEW i \in Importers, Save(i) \/ StepRaises(i)
      PROVE  Reception!Next \/ UNCHANGED <<Received, OrdersOf>>
  <2> DEFINE n == Current(i)
  <2>1. UNCHANGED inbox /\ (UNCHANGED imported \/ (imported[n] = 0 /\ imported' = [imported EXCEPT ![n] = @ + 1]))
    BY <1>5 DEF Save, StepRaises, Persisted, AcceptsOrder
  <2>2. n \in Positions
    BY <1>5, CurrentIsARow DEF InboxInv, InboxTypeOK, Save, StepRaises
  <2> HIDE DEF n
  <2> QED BY <2>1, <2>2, <1>2, <1>3
<1>6. ASSUME NEW i \in Importers, Acknowledge(i)
      PROVE  UNCHANGED <<Received, OrdersOf>>
  <2> DEFINE n == Current(i)
  <2>1. n \in Positions /\ UNCHANGED imported
    BY <1>6, CurrentIsARow DEF InboxInv, InboxTypeOK, Acknowledge
  <2>2. inbox' = [inbox EXCEPT ![n] = UpdatedPending(inbox[n], Outcome(importer[i].step))]
    BY <1>6, <2>1 DEF Acknowledge, InboxInv, InboxTypeOK
  <2>3. Outcome(importer[i].step) \in {"pending", "synced", "failed"}
    BY DEF Outcome
  <2> HIDE DEF n
  <2>4. CASE inbox[n].sync = "pending"
    <3>1. Marked(n, Outcome(importer[i].step))
      BY <2>1, <2>2, <2>3, <2>4 DEF UpdatedPending, Marked
    <3> QED BY <2>1, <3>1, <1>4
  <2>5. CASE inbox[n].sync # "pending"
    BY <2>1, <2>2, <2>5, <1>3 DEF UpdatedPending, InboxInv, InboxTypeOK
  <2> QED BY <2>4, <2>5
<1>7. ASSUME NEW n \in Positions, Reset(n)
      PROVE  UNCHANGED <<Received, OrdersOf>>
  <2>1. Marked(n, "pending") /\ UNCHANGED imported
    BY <1>7 DEF Reset, Marked, InboxInv, InboxTypeOK
  <2> QED BY <2>1, <1>4
<1>8. CASE \E c \in Callers : CallerNext(c)
  BY <1>8, <1>1, <1>3 DEF CallerNext, Claim, Replay, RollBackClaim, Reception!vars
<1>9. ASSUME NEW i \in Importers,
             Fetch(i) \/ FetchRefused(i) \/ ImporterNext(i)
               \/ StepRaises(i) \/ AcknowledgementLost(i) \/ Crash(i)
      PROVE  Reception!Next \/ UNCHANGED <<Received, OrdersOf>>
  <2>1. CASE Save(i) \/ StepRaises(i)
    BY <2>1, <1>5
  <2>2. CASE Acknowledge(i)
    BY <2>2, <1>6
  <2>3. CASE UNCHANGED <<inbox, imported>>
    BY <2>3, <1>3
  <2> QED BY <1>9, <2>1, <2>2, <2>3
      DEF ImporterNext, Fetch, FetchRefused, Check, RefusalReported, AcknowledgementLost, Crash
<1>10. CASE \E n \in Positions : Reset(n)
  BY <1>10, <1>7 DEF Reception!vars
<1>11. CASE UNCHANGED inboxVars
  BY <1>11, <1>3 DEF inboxVars, Reception!vars
<1> QED BY <1>8, <1>9, <1>10, <1>11 DEF InboxNext, Reception!vars

\* Ledger, inbox and imports receive a request once, with one content, and make at
\* most one local order of it: every step is a step of OrderReception or invisible
\* to it, whatever overlaps, is lost, repeated or reset.
THEOREM ReceptionIsImplemented == InboxSpec => ImplementsReception
<1>1. InboxInit => Reception!Init
  <2> SUFFICES ASSUME InboxInit PROVE Reception!Init
    OBVIOUS
  <2>1. Positions = {}
    BY DEF InboxInit, Positions
  <2>2. Received = [r \in Requests |-> NoPayload]
    BY <2>1 DEF Received
  <2>3. \A r \in Requests : OrdersOf[r] = 0
    <3> SUFFICES ASSUME NEW r \in Requests PROVE OrdersOf[r] = 0
      OBVIOUS
    <3> DEFINE S == {o \in Positions \X (1..Cardinality(Importers)) :
                       inbox[o[1]].request = r /\ o[2] <= imported[o[1]]}
    <3>1. OrdersOf[r] = Cardinality(S)
      BY DEF OrdersOf
    <3>2. S = {}
      BY <2>1
    <3> QED BY <3>1, <3>2, FS_EmptySet
  <2>4. OrdersOf = [r \in Requests |-> OrdersOf[r]]
    BY DEF OrdersOf
  <2>5. OrdersOf = [r \in Requests |-> 0]
    BY <2>3, <2>4
  <2> QED BY <2>2, <2>5 DEF Reception!Init
<1>2. InboxInv /\ View /\ View' /\ [InboxNext]_inboxVars => [Reception!Next]_(Reception!vars)
  BY StepImplements
<1> QED
  BY <1>1, <1>2, InvariantHolds, InvariantGivesView, PTL
     DEF InboxSpec, ImplementsReception, Reception!Spec

-----------------------------------------------------------------------------
(* Sales.  The inductive invariant says what an open transaction may rely on: a
   row read under a lock is still the stored row and nobody else holds it; of a
   row read without one, only what no request changes is still true. *)

\* At most one transaction holds the lock of a row.
Exclusive(ops) ==
  \A c, d \in Clients :
    tx[c].op \in ops /\ tx[d].op \in ops /\ tx[c].key = tx[d].key => c = d

Locks == Exclusive({"quotation", "convert"}) /\ Exclusive({"bill"}) /\ Exclusive({"invoice"})

\* Only conversion gives an order an origin.
OriginIsConversion ==
  \A o \in DOMAIN orders : orders[o].origin # None => orders[o].source = "QUOTATION"

\* What a request on an order will write, against what it saw (t) and what is
\* stored (current).
OrderIntent(t, current) ==
  /\ t.seen.source = current.source /\ t.seen.origin = current.origin
  /\ t.row.source = current.source /\ t.row.origin = current.origin
  /\ t.seen.total = t.seen.lines /\ t.row.total = t.row.lines
  /\ t.row.lines # t.seen.lines => t.seen.source = "ADMIN" /\ t.seen.status = "NEW"
  /\ t.row.status \in {"NEW", "REJECTED"} => t.seen.status = "NEW"
  /\ current.origin # None => t.seen.lines = current.lines

OrderTx ==
  \A c \in Clients : tx[c].op = "order" =>
    tx[c].key \in DOMAIN orders /\ OrderIntent(tx[c], orders[tx[c].key])

QuotationTx ==
  \A c \in Clients :
    /\ tx[c].op = "quotation" =>
         tx[c].key \in DOMAIN quotations /\ quotations[tx[c].key].status \in {"DRAFT", "SENT"}
    /\ tx[c].op = "convert" =>
         /\ tx[c].key \in DOMAIN quotations /\ tx[c].row = quotations[tx[c].key]
         /\ tx[c].row.status = "ACCEPTED"

BillTx ==
  \A c \in Clients : tx[c].op = "bill" =>
    /\ tx[c].key \in DOMAIN orders /\ tx[c].seen = orders[tx[c].key]
    /\ tx[c].seen.status \in Invoiceable

\* What a request may make of an invoice: it touches no cancelled one, and of an
\* issued one only the status and the payment.
Lawful(before, after) ==
  /\ before.status # "CANCELLED"
  /\ after.order = before.order /\ after.lines = before.lines
  /\ after.paid => after.status = "ISSUED"
  /\ before.paid => after.status = "ISSUED"
  /\ before.status = "ISSUED" =>
       /\ after.status \in {"ISSUED", "CANCELLED"}
       /\ after.number = before.number /\ after.edited = before.edited

InvoiceTx ==
  \A c \in Clients : tx[c].op = "invoice" =>
    tx[c].key \in DOMAIN invoices /\ Lawful(invoices[tx[c].key], tx[c].row)

\* A billed order exists.
BilledExists == \A i \in DOMAIN invoices : invoices[i].order \in DOMAIN orders

PaidIsIssued == \A i \in DOMAIN invoices : invoices[i].paid => invoices[i].status = "ISSUED"

IInv ==
  /\ TypeOK /\ Locks /\ OriginIsConversion
  /\ OrderTx /\ QuotationTx /\ BillTx /\ InvoiceTx /\ PaidIsIssued /\ BilledExists
  /\ AgreedTermsKept /\ LookupStaysValid /\ LawfulUnlessCrossed
-----------------------------------------------------------------------------
(* Transactions and their locks *)

\* A transaction that ends gives its lock back.
LEMMA EndKeeps ==
  ASSUME IInv, NEW c \in Clients, End(c)
  PROVE  /\ tx' \in [Clients -> Transactions]
         /\ tx'[c] = Idle /\ tx'[c].op = "none"
         /\ \A d \in Clients : d # c => tx'[d] = tx[d]
         /\ Locks'
<1>1. tx \in [Clients -> Transactions] /\ tx' = [tx EXCEPT ![c] = Idle] /\ Idle \in Transactions
  BY DEF IInv, TypeOK, End, Transactions
<1>2. tx' \in [Clients -> Transactions] /\ tx'[c] = Idle
      /\ \A d \in Clients : d # c => tx'[d] = tx[d]
  BY <1>1
<1>3. tx'[c].op = "none"
  BY <1>2 DEF Idle
<1>4. Locks'
  BY <1>2, <1>3 DEF IInv, Locks, Exclusive
<1> QED
  BY <1>2, <1>3, <1>4

\* A transaction that begins takes a lock nobody holds, or none.
LEMMA BeginKeeps ==
  ASSUME IInv, NEW c \in Clients, NEW t \in Transactions, Begin(c, t),
         t.op \in {"quotation", "convert"} => ~Locked({"quotation", "convert"}, t.key),
         t.op = "bill" => ~Locked({"bill"}, t.key),
         t.op = "invoice" => ~Locked({"invoice"}, t.key)
  PROVE  /\ tx' \in [Clients -> Transactions]
         /\ tx'[c] = t
         /\ \A d \in Clients : d # c => tx'[d] = tx[d]
         /\ Locks'
<1>1. tx \in [Clients -> Transactions] /\ tx' = [tx EXCEPT ![c] = t]
  BY DEF IInv, TypeOK, Begin
<1>2. tx' \in [Clients -> Transactions] /\ tx'[c] = t
      /\ \A d \in Clients : d # c => tx'[d] = tx[d]
  BY <1>1
<1>3. Exclusive({"quotation", "convert"})'
  BY <1>2 DEF IInv, Locks, Exclusive, Locked
<1>4. Exclusive({"bill"})'
  BY <1>2 DEF IInv, Locks, Exclusive, Locked
<1>5. Exclusive({"invoice"})'
  BY <1>2 DEF IInv, Locks, Exclusive, Locked
<1> QED
  BY <1>2, <1>3, <1>4, <1>5 DEF Locks
-----------------------------------------------------------------------------
(* Orders *)

LEMMA CreateOrderStep ==
  ASSUME IInv, NEW o \in Orders, NEW source \in {"ADMIN", "SAVOURETPLUS_WEB"},
         CreateOrder(o, source)
  PROVE  IInv'
<1> DEFINE r == [source |-> source, origin |-> None, status |-> "NEW",
                 lines |-> entered', total |-> entered']
<1>1. /\ DOMAIN orders' = DOMAIN orders \cup {o}
      /\ orders'[o] = r
      /\ \A p \in DOMAIN orders : p # o /\ orders'[p] = orders[p]
  <2>1. orders' = Put(orders, o, r) /\ o \notin DOMAIN orders
    BY DEF CreateOrder
  <2> HIDE DEF r
  <2> QED
    BY <2>1 DEF Put
<1>2. r \in OrderRow /\ entered' \in 0..MaxLines
  BY SalesAssumption DEF IInv, TypeOK, CreateOrder, Enter, OrderRow, Lines, SalesAssumption
<1>3. r.origin = None /\ r.lines = r.total
  OBVIOUS
<1> HIDE DEF r
<1>4. UNCHANGED <<quotations, invoices, tx, numbers, crossed>>
  BY DEF CreateOrder
<1>5. TypeOK'
  BY <1>1, <1>2, <1>4 DEF IInv, TypeOK
<1>6. Locks' /\ QuotationTx' /\ InvoiceTx' /\ PaidIsIssued'
  BY <1>4 DEF IInv, Locks, Exclusive, QuotationTx, InvoiceTx, PaidIsIssued
<1>7. OriginIsConversion'
  BY <1>1, <1>3 DEF IInv, OriginIsConversion
<1>8. OrderTx' /\ BillTx' /\ BilledExists'
  BY <1>1, <1>4 DEF IInv, OrderTx, BillTx, BilledExists
<1>9. AgreedTermsKept'
  BY <1>1, <1>3, <1>4 DEF IInv, AgreedTermsKept, Readable
<1>10. LookupStaysValid'
  BY <1>4 DEF IInv, LookupStaysValid, Billed
<1>11. \A i \in DOMAIN invoices : invoices[i].order # o
  BY DEF IInv, BilledExists, CreateOrder
<1>12. LawfulUnlessCrossed'
  BY <1>1, <1>3, <1>4, <1>11 DEF IInv, LawfulUnlessCrossed, Readable
<1> QED
  BY <1>5, <1>6, <1>7, <1>8, <1>9, <1>10, <1>12 DEF IInv

\* A request that has read an order and intends to write row.
LEMMA ReadOrderStep ==
  ASSUME IInv, NEW c \in Clients, NEW o \in DOMAIN orders, NEW row \in OrderRow,
         ReadOrder(c, o, row), entered' \in 0..MaxLines,
         row.source = orders[o].source, row.origin = orders[o].origin, row.total = row.lines,
         row.lines # orders[o].lines => orders[o].source = "ADMIN" /\ orders[o].status = "NEW",
         row.status \in {"NEW", "REJECTED"} => orders[o].status = "NEW"
  PROVE  IInv'
<1> DEFINE t == [op |-> "order", key |-> o, seen |-> orders[o], row |-> row]
<1>1. UNCHANGED <<quotations, orders, invoices, numbers, crossed>> /\ Begin(c, t) /\ Readable(o)
  BY DEF ReadOrder
<1>2. t \in Transactions
  BY DEF IInv, TypeOK, Transactions
<1>3. t.op = "order" /\ t.key = o /\ OrderIntent(t, orders[o])
  BY <1>1 DEF OrderIntent, Readable
<1> HIDE DEF t
<1>4. /\ tx' \in [Clients -> Transactions]
      /\ tx'[c] = t
      /\ \A d \in Clients : d # c => tx'[d] = tx[d]
      /\ Locks'
  BY <1>1, <1>2, <1>3, BeginKeeps
<1>5. TypeOK'
  BY <1>1, <1>4 DEF IInv, TypeOK
<1>6. OriginIsConversion' /\ PaidIsIssued' /\ BilledExists'
  BY <1>1 DEF IInv, OriginIsConversion, PaidIsIssued, BilledExists
<1>7. OrderTx'
  BY <1>1, <1>3, <1>4 DEF IInv, OrderTx
<1>8. QuotationTx' /\ BillTx' /\ InvoiceTx'
  BY <1>1, <1>3, <1>4 DEF IInv, QuotationTx, BillTx, InvoiceTx
<1>9. AgreedTermsKept' /\ LookupStaysValid' /\ LawfulUnlessCrossed'
  BY <1>1, <1>3, <1>4
     DEF IInv, AgreedTermsKept, LookupStaysValid, LawfulUnlessCrossed, Readable, Billed
<1> QED
  BY <1>4, <1>5, <1>6, <1>7, <1>8, <1>9 DEF IInv

LEMMA ChangeStatusStep ==
  ASSUME IInv, NEW c \in Clients, NEW o \in DOMAIN orders, ChangeStatus(c, o)
  PROVE  IInv'
<1>1. PICK next \in AllowedNextStatuses(orders[o].status) :
        ReadOrder(c, o, [orders[o] EXCEPT !.status = next])
  BY DEF ChangeStatus
<1> DEFINE row == [orders[o] EXCEPT !.status = next]
<1>2. orders[o] \in OrderRow /\ Readable(o) /\ entered' \in 0..MaxLines
  BY <1>1 DEF IInv, TypeOK, ReadOrder, ChangeStatus
<1>3. next \in {"ACCEPTED", "IN_PREPARATION", "READY", "COMPLETED", "REJECTED", "CANCELLED"}
      /\ (next = "REJECTED" => orders[o].status = "NEW")
  BY <1>1 DEF AllowedNextStatuses
<1>4. row \in OrderRow /\ row.status = next
  BY <1>2, <1>3 DEF OrderRow
<1>5. row.source = orders[o].source /\ row.origin = orders[o].origin
      /\ row.lines = orders[o].lines /\ row.total = row.lines
  BY <1>2 DEF OrderRow, Readable
<1>6. ReadOrder(c, o, row)
  BY <1>1
<1> HIDE DEF row
<1> QED
  BY <1>2, <1>3, <1>4, <1>5, <1>6, ReadOrderStep

LEMMA ReplaceStep ==
  ASSUME IInv, NEW c \in Clients, NEW o \in DOMAIN orders, Replace(c, o)
  PROVE  IInv'
<1> DEFINE row == Replaced(orders[o], entered')
<1>1. ReadOrder(c, o, row) /\ orders[o].source = "ADMIN" /\ orders[o].status = "NEW"
  BY DEF Replace, Replaceable
<1>2. orders[o] \in OrderRow /\ entered' \in 0..MaxLines /\ entered' \in Lines
  BY SalesAssumption DEF IInv, TypeOK, Replace, Enter, Lines, SalesAssumption
<1>3. row \in OrderRow
  BY <1>2 DEF OrderRow, Replaced
<1>4. row.source = orders[o].source /\ row.origin = orders[o].origin /\ row.total = row.lines
  BY <1>2 DEF OrderRow, Replaced
<1> HIDE DEF row
<1> QED
  BY <1>1, <1>2, <1>3, <1>4, ReadOrderStep

LEMMA CorrectCustomerStep ==
  ASSUME IInv, NEW c \in Clients, NEW o \in DOMAIN orders, CorrectCustomer(c, o)
  PROVE  IInv'
<1>1. ReadOrder(c, o, orders[o]) /\ orders[o].status = "NEW"
  BY DEF CorrectCustomer
<1>2. orders[o] \in OrderRow /\ orders[o].total = orders[o].lines /\ entered' \in 0..MaxLines
  BY <1>1 DEF IInv, TypeOK, ReadOrder, Readable, CorrectCustomer
<1> QED
  BY <1>1, <1>2, ReadOrderStep

\* The order row is written over whatever is stored by then.
LEMMA WriteOrderStep ==
  ASSUME IInv, NEW c \in Clients, WriteOrder(c)
  PROVE  IInv'
<1> DEFINE t == tx[c]
           o == t.key
           new == Written(t.row, orders[o], t.seen)
<1>1. /\ t.op = "order" /\ ~Locked({"bill"}, o) /\ End(c)
      /\ orders' = Put(orders, o, new)
      /\ crossed' = IF orders[o] = t.seen THEN crossed ELSE crossed \cup {o}
      /\ UNCHANGED <<quotations, invoices, entered, numbers>>
  BY DEF WriteOrder
<1>2. o \in DOMAIN orders /\ OrderIntent(t, orders[o])
  BY <1>1 DEF IInv, OrderTx
<1>3. t \in Transactions /\ orders[o] \in OrderRow /\ o \in Orders
  BY <1>2 DEF IInv, TypeOK
<1>4. t.row \in OrderRow /\ t.seen \in OrderRow
  BY <1>1, <1>3 DEF Transactions, Idle
<1>5. /\ new \in OrderRow
      /\ new.source = orders[o].source /\ new.origin = orders[o].origin
      /\ new.status = t.row.status /\ new.total = t.row.lines
      /\ new.lines = IF t.row.lines = t.seen.lines THEN orders[o].lines ELSE t.row.lines
  BY <1>2, <1>3, <1>4 DEF OrderRow, Written, OrderIntent
<1>6. orders[o].origin # None => new.lines = orders[o].lines /\ new.total = orders[o].lines
  BY <1>2, <1>5 DEF IInv, OriginIsConversion, OrderIntent
<1> HIDE DEF new
<1>7. /\ DOMAIN orders' = DOMAIN orders /\ orders'[o] = new
      /\ \A p \in DOMAIN orders : p # o => orders'[p] = orders[p]
  BY <1>1, <1>2 DEF Put
<1>8. /\ tx' \in [Clients -> Transactions] /\ Locks'
      /\ tx'[c].op = "none" /\ \A d \in Clients : d # c => tx'[d] = tx[d]
  BY <1>1, EndKeeps
<1>9. TypeOK'
  BY <1>1, <1>3, <1>5, <1>7, <1>8 DEF IInv, TypeOK
<1>10. OriginIsConversion' /\ PaidIsIssued' /\ BilledExists'
  BY <1>1, <1>5, <1>7 DEF IInv, OriginIsConversion, PaidIsIssued, BilledExists
<1>11. OrderTx'
  <2> SUFFICES ASSUME NEW d \in Clients, tx'[d].op = "order"
               PROVE  tx'[d].key \in DOMAIN orders' /\ OrderIntent(tx'[d], orders'[tx'[d].key])
    BY DEF OrderTx
  <2>1. d # c /\ tx'[d] = tx[d] /\ tx[d].op = "order"
    BY <1>8
  <2>2. tx[d].key \in DOMAIN orders /\ OrderIntent(tx[d], orders[tx[d].key])
    BY <2>1 DEF IInv, OrderTx
  <2>3. CASE tx[d].key = o
    BY <1>5, <1>6, <1>7, <2>1, <2>2, <2>3 DEF OrderIntent
  <2>4. CASE tx[d].key # o
    BY <1>7, <2>1, <2>2, <2>4
  <2> QED
    BY <2>3, <2>4
<1>12. QuotationTx' /\ InvoiceTx' /\ LookupStaysValid'
  BY <1>1, <1>8 DEF IInv, QuotationTx, InvoiceTx, LookupStaysValid, Billed
<1>13. BillTx'
  BY <1>1, <1>7, <1>8 DEF IInv, BillTx, Locked
<1>14. AgreedTermsKept'
  BY <1>1, <1>2, <1>5, <1>6, <1>7 DEF IInv, AgreedTermsKept, Readable
<1>15. LawfulUnlessCrossed'
  <2>1. CASE orders[o] # t.seen
    BY <1>1, <1>7, <2>1 DEF IInv, LawfulUnlessCrossed, Readable
  <2>2. CASE orders[o] = t.seen
    <3>1. new.lines = t.row.lines /\ new.total = t.row.lines
      BY <1>5, <2>2
    <3>2. ASSUME o \notin crossed, NEW i \in DOMAIN invoices, invoices[i].order = o
          PROVE  new.status \notin {"NEW", "REJECTED"} /\ new.lines = invoices[i].lines
      <4>1. orders[o].status # "NEW" /\ orders[o].lines = invoices[i].lines
        BY <1>2, <3>2 DEF IInv, LawfulUnlessCrossed
      <4> QED
        BY <1>2, <1>5, <2>2, <4>1 DEF OrderIntent
    <3> QED
      BY <1>1, <1>7, <2>2, <3>1, <3>2 DEF IInv, LawfulUnlessCrossed, Readable
  <2> QED
    BY <2>1, <2>2
<1> QED
  BY <1>8, <1>9, <1>10, <1>11, <1>12, <1>13, <1>14, <1>15 DEF IInv
-----------------------------------------------------------------------------
(* Quotations *)

LEMMA CreateQuotationStep ==
  ASSUME IInv, NEW q \in Quotations, CreateQuotation(q)
  PROVE  IInv'
<1> DEFINE r == [status |-> "DRAFT", lines |-> entered', order |-> None]
<1>1. /\ quotations' = Put(quotations, q, r) /\ q \notin DOMAIN quotations
      /\ UNCHANGED <<orders, invoices, tx, numbers, crossed>>
  BY DEF CreateQuotation
<1>2. r \in QuotationRow /\ entered' \in 0..MaxLines
  BY SalesAssumption DEF IInv, TypeOK, CreateQuotation, Enter, QuotationRow, Lines, SalesAssumption
<1> HIDE DEF r
<1>3. /\ DOMAIN quotations' = DOMAIN quotations \cup {q} /\ quotations'[q] = r
      /\ \A p \in DOMAIN quotations : p # q /\ quotations'[p] = quotations[p]
  BY <1>1 DEF Put
<1>4. TypeOK'
  BY <1>1, <1>2, <1>3 DEF IInv, TypeOK
<1>5. Locks' /\ OriginIsConversion' /\ OrderTx' /\ BillTx' /\ InvoiceTx'
  BY <1>1 DEF IInv, Locks, Exclusive, OriginIsConversion, OrderTx, BillTx, InvoiceTx
<1>6. PaidIsIssued' /\ BilledExists' /\ LookupStaysValid' /\ LawfulUnlessCrossed'
  BY <1>1 DEF IInv, PaidIsIssued, BilledExists, LookupStaysValid, LawfulUnlessCrossed,
              Billed, Readable
<1>7. QuotationTx'
  BY <1>1, <1>3 DEF IInv, QuotationTx
<1>8. AgreedTermsKept'
  BY <1>1, <1>3 DEF IInv, AgreedTermsKept, Readable
<1> QED
  BY <1>4, <1>5, <1>6, <1>7, <1>8 DEF IInv

\* A request that has locked a quotation and intends to write row.
LEMMA LockQuotationStep ==
  ASSUME IInv, NEW c \in Clients, NEW q \in DOMAIN quotations, NEW row \in QuotationRow,
         NEW op \in {"quotation", "convert"}, LockQuotation(c, q, op, row),
         entered' \in 0..MaxLines,
         op = "quotation" => quotations[q].status \in {"DRAFT", "SENT"},
         op = "convert" => row = quotations[q] /\ row.status = "ACCEPTED"
  PROVE  IInv'
<1> DEFINE t == [op |-> op, key |-> q, row |-> row]
<1>1. UNCHANGED <<quotations, orders, invoices, numbers, crossed>> /\ Begin(c, t)
      /\ ~Locked({"quotation", "convert"}, q)
  BY DEF LockQuotation, QuotationFree
<1>2. t \in Transactions
  BY DEF IInv, TypeOK, Transactions
<1>3. t.op = op /\ t.key = q /\ t.row = row
  OBVIOUS
<1> HIDE DEF t
<1>4. /\ tx' \in [Clients -> Transactions]
      /\ tx'[c] = t
      /\ \A d \in Clients : d # c => tx'[d] = tx[d]
      /\ Locks'
  BY <1>1, <1>2, <1>3, BeginKeeps
<1>5. TypeOK'
  BY <1>1, <1>4 DEF IInv, TypeOK
<1>6. OriginIsConversion' /\ PaidIsIssued' /\ BilledExists' /\ AgreedTermsKept'
  BY <1>1 DEF IInv, OriginIsConversion, PaidIsIssued, BilledExists, AgreedTermsKept, Readable
<1>7. QuotationTx'
  BY <1>1, <1>3, <1>4 DEF IInv, QuotationTx
<1>8. OrderTx' /\ BillTx' /\ InvoiceTx'
  BY <1>1, <1>3, <1>4 DEF IInv, OrderTx, BillTx, InvoiceTx
<1>9. LookupStaysValid' /\ LawfulUnlessCrossed'
  BY <1>1, <1>3, <1>4 DEF IInv, LookupStaysValid, LawfulUnlessCrossed, Readable, Billed
<1> QED
  BY <1>4, <1>5, <1>6, <1>7, <1>8, <1>9 DEF IInv

LEMMA EditQuotationStep ==
  ASSUME IInv, NEW c \in Clients, NEW q \in DOMAIN quotations, EditQuotation(c, q)
  PROVE  IInv'
<1> DEFINE row == [quotations[q] EXCEPT !.lines = entered']
<1>1. quotations[q] \in QuotationRow /\ entered' \in 0..MaxLines /\ entered' \in Lines
  BY SalesAssumption DEF IInv, TypeOK, EditQuotation, Enter, Lines, SalesAssumption
<1>2. row \in QuotationRow
  BY <1>1 DEF QuotationRow
<1>3. LockQuotation(c, q, "quotation", row) /\ quotations[q].status = "DRAFT"
  BY DEF EditQuotation
<1> HIDE DEF row
<1> QED
  BY <1>1, <1>2, <1>3, LockQuotationStep

LEMMA ChangeQuotationStatusStep ==
  ASSUME IInv, NEW c \in Clients, NEW q \in DOMAIN quotations, ChangeQuotationStatus(c, q)
  PROVE  IInv'
<1>1. quotations[q] \in QuotationRow /\ entered' \in 0..MaxLines
  BY DEF IInv, TypeOK, ChangeQuotationStatus
<1>2. PICK next \in {"SENT", "ACCEPTED", "REJECTED"} :
        LockQuotation(c, q, "quotation", [quotations[q] EXCEPT !.status = next])
        /\ quotations[q].status \in {"DRAFT", "SENT"}
  BY DEF ChangeQuotationStatus
<1> DEFINE row == [quotations[q] EXCEPT !.status = next]
<1>3. row \in QuotationRow /\ LockQuotation(c, q, "quotation", row)
  BY <1>1, <1>2 DEF QuotationRow
<1> HIDE DEF row
<1> QED
  BY <1>1, <1>2, <1>3, LockQuotationStep

LEMMA LockForConversionStep ==
  ASSUME IInv, NEW c \in Clients, NEW q \in DOMAIN quotations, LockForConversion(c, q)
  PROVE  IInv'
<1>1. quotations[q] \in QuotationRow /\ entered' \in 0..MaxLines
  BY DEF IInv, TypeOK, LockForConversion
<1>2. LockQuotation(c, q, "convert", quotations[q]) /\ quotations[q].status = "ACCEPTED"
  BY DEF LockForConversion
<1> QED
  BY <1>1, <1>2, LockQuotationStep

\* The row that is written back is still a draft or a sent quotation, which no
\* order came from.
LEMMA WriteQuotationStep ==
  ASSUME IInv, NEW c \in Clients, WriteQuotation(c)
  PROVE  IInv'
<1> DEFINE t == tx[c]
           q == t.key
<1>1. /\ t.op = "quotation" /\ End(c)
      /\ quotations' = Put(quotations, q, t.row)
      /\ UNCHANGED <<orders, invoices, entered, numbers, crossed>>
  BY DEF WriteQuotation
<1>2. q \in DOMAIN quotations /\ quotations[q].status \in {"DRAFT", "SENT"}
  BY <1>1 DEF IInv, QuotationTx
<1>3. t \in Transactions
  BY DEF IInv, TypeOK
<1>4. t.row \in QuotationRow
  BY <1>1, <1>3 DEF Transactions, Idle
<1>5. /\ DOMAIN quotations' = DOMAIN quotations /\ quotations'[q] = t.row
      /\ \A p \in DOMAIN quotations : p # q => quotations'[p] = quotations[p]
  BY <1>1, <1>2 DEF Put
<1>6. /\ tx' \in [Clients -> Transactions] /\ Locks'
      /\ tx'[c].op = "none" /\ \A d \in Clients : d # c => tx'[d] = tx[d]
  BY <1>1, EndKeeps
<1>7. TypeOK'
  BY <1>1, <1>4, <1>5, <1>6 DEF IInv, TypeOK
<1>8. OriginIsConversion' /\ PaidIsIssued' /\ BilledExists'
  BY <1>1 DEF IInv, OriginIsConversion, PaidIsIssued, BilledExists
<1>9. QuotationTx'
  <2>1. \A d \in Clients : d # c /\ tx[d].op \in {"quotation", "convert"} => tx[d].key # q
    BY <1>1 DEF IInv, Locks, Exclusive
  <2> QED
    BY <1>5, <1>6, <2>1 DEF IInv, QuotationTx
<1>10. OrderTx' /\ BillTx' /\ InvoiceTx' /\ LookupStaysValid'
  BY <1>1, <1>6 DEF IInv, OrderTx, BillTx, InvoiceTx, LookupStaysValid, Billed
<1>11. LawfulUnlessCrossed'
  BY <1>1 DEF IInv, LawfulUnlessCrossed, Readable
<1>12. AgreedTermsKept'
  <2>1. \A o \in DOMAIN orders : orders[o].origin # None => orders[o].origin # q
    BY <1>2 DEF IInv, AgreedTermsKept
  <2> QED
    BY <1>1, <1>5, <2>1 DEF IInv, AgreedTermsKept, Readable
<1> QED
  BY <1>6, <1>7, <1>8, <1>9, <1>10, <1>11, <1>12 DEF IInv

\* The conversion reads and writes the quotation under its lock.
LEMMA ConvertStep ==
  ASSUME IInv, NEW c \in Clients, NEW o \in Orders, Convert(c, o)
  PROVE  IInv'
<1> DEFINE t == tx[c]
           q == t.key
           r == [source |-> "QUOTATION", origin |-> q, status |-> "ACCEPTED",
                 lines |-> t.row.lines, total |-> t.row.lines]
<1>1. /\ t.op = "convert" /\ End(c) /\ o \notin DOMAIN orders
      /\ \A p \in DOMAIN orders : orders[p].origin # q
      /\ orders' = Put(orders, o, r)
      /\ quotations' = Put(quotations, q, Converted(t.row, q, o))
      /\ UNCHANGED <<invoices, entered, numbers, crossed>>
  BY DEF Convert
<1>2. q \in DOMAIN quotations /\ t.row = quotations[q] /\ t.row.status = "ACCEPTED"
  BY <1>1 DEF IInv, QuotationTx
<1>3. t.row \in QuotationRow /\ q \in Quotations /\ q # None
  BY <1>2, SalesAssumption DEF IInv, TypeOK, SalesAssumption
<1>4. Converted(t.row, q, o) \in QuotationRow /\ Converted(t.row, q, o).order = o
      /\ Converted(t.row, q, o).status = "ACCEPTED"
      /\ Converted(t.row, q, o).lines = t.row.lines
  BY <1>2, <1>3 DEF QuotationRow, Converted
<1>5. r \in OrderRow /\ r.origin = q /\ r.source = "QUOTATION"
      /\ r.lines = t.row.lines /\ r.total = t.row.lines
  BY <1>3 DEF QuotationRow, OrderRow
<1> HIDE DEF r
<1>6. /\ DOMAIN orders' = DOMAIN orders \cup {o} /\ orders'[o] = r
      /\ \A p \in DOMAIN orders : p # o /\ orders'[p] = orders[p]
  BY <1>1 DEF Put
<1>7. /\ DOMAIN quotations' = DOMAIN quotations /\ quotations'[q] = Converted(t.row, q, o)
      /\ \A p \in DOMAIN quotations : p # q => quotations'[p] = quotations[p]
  BY <1>1, <1>2 DEF Put
<1>8. /\ tx' \in [Clients -> Transactions] /\ Locks'
      /\ tx'[c].op = "none" /\ \A d \in Clients : d # c => tx'[d] = tx[d]
  BY <1>1, EndKeeps
<1>9. TypeOK'
  BY <1>1, <1>4, <1>5, <1>6, <1>7, <1>8 DEF IInv, TypeOK
<1>10. OriginIsConversion' /\ PaidIsIssued' /\ BilledExists'
  BY <1>1, <1>5, <1>6 DEF IInv, OriginIsConversion, PaidIsIssued, BilledExists
<1>11. QuotationTx'
  <2>1. \A d \in Clients : d # c /\ tx[d].op \in {"quotation", "convert"} => tx[d].key # q
    BY <1>1 DEF IInv, Locks, Exclusive
  <2> QED
    BY <1>7, <1>8, <2>1 DEF IInv, QuotationTx
<1>12. OrderTx' /\ BillTx' /\ InvoiceTx' /\ LookupStaysValid'
  BY <1>1, <1>6, <1>8 DEF IInv, OrderTx, BillTx, InvoiceTx, LookupStaysValid, Billed
<1>13. LawfulUnlessCrossed'
  BY <1>1, <1>5, <1>6 DEF IInv, LawfulUnlessCrossed, BilledExists, Readable
<1>14. AgreedTermsKept'
  BY <1>1, <1>2, <1>4, <1>5, <1>6, <1>7 DEF IInv, AgreedTermsKept, Readable
<1> QED
  BY <1>8, <1>9, <1>10, <1>11, <1>12, <1>13, <1>14 DEF IInv
-----------------------------------------------------------------------------
(* Invoices *)

LEMMA LockForInvoiceStep ==
  ASSUME IInv, NEW c \in Clients, NEW o \in Orders, LockForInvoice(c, o)
  PROVE  IInv'
<1> DEFINE t == [op |-> "bill", key |-> o, seen |-> orders[o]]
<1>1. /\ UNCHANGED <<quotations, orders, invoices, entered, numbers, crossed>>
      /\ Begin(c, t) /\ ~Locked({"bill"}, o) /\ ~Billed(o)
      /\ o \in DOMAIN orders /\ orders[o].status \in Invoiceable
  BY DEF LockForInvoice, OrderFree
<1>2. t \in Transactions
  BY <1>1 DEF IInv, TypeOK, Transactions
<1>3. t.op = "bill" /\ t.key = o /\ t.seen = orders[o]
  OBVIOUS
<1> HIDE DEF t
<1>4. /\ tx' \in [Clients -> Transactions]
      /\ tx'[c] = t
      /\ \A d \in Clients : d # c => tx'[d] = tx[d]
      /\ Locks'
  BY <1>1, <1>2, <1>3, BeginKeeps
<1>5. TypeOK'
  BY <1>1, <1>4 DEF IInv, TypeOK
<1>6. OriginIsConversion' /\ PaidIsIssued' /\ BilledExists' /\ AgreedTermsKept'
  BY <1>1 DEF IInv, OriginIsConversion, PaidIsIssued, BilledExists, AgreedTermsKept, Readable
<1>7. BillTx' /\ LookupStaysValid'
  BY <1>1, <1>3, <1>4 DEF IInv, BillTx, LookupStaysValid, Billed
<1>8. OrderTx' /\ QuotationTx' /\ InvoiceTx'
  BY <1>1, <1>3, <1>4 DEF IInv, OrderTx, QuotationTx, InvoiceTx
<1>9. LawfulUnlessCrossed'
  BY <1>1 DEF IInv, LawfulUnlessCrossed, Readable
<1> QED
  BY <1>4, <1>5, <1>6, <1>7, <1>8, <1>9 DEF IInv

\* Of two requests for one order only one holds it, so the invoice is its first.
LEMMA CreateInvoiceStep ==
  ASSUME IInv, NEW c \in Clients, NEW i \in Invoices, CreateInvoice(c, i)
  PROVE  IInv'
<1> DEFINE t == tx[c]
           o == t.key
           r == [order |-> o, status |-> "DRAFT", paid |-> FALSE, number |-> 0,
                 lines |-> t.seen.lines, edited |-> FALSE]
<1>1. /\ t.op = "bill" /\ End(c) /\ i \notin DOMAIN invoices
      /\ invoices' = Put(invoices, i, r)
      /\ UNCHANGED <<quotations, orders, entered, numbers, crossed>>
  BY DEF CreateInvoice
<1>2. o \in DOMAIN orders /\ t.seen = orders[o] /\ t.seen.status \in Invoiceable
  BY <1>1 DEF IInv, BillTx
<1>3. t.seen \in OrderRow /\ o \in Orders
  BY <1>2 DEF IInv, TypeOK
<1>4. r \in InvoiceRow
  BY <1>3, SalesAssumption DEF InvoiceRow, OrderRow, SalesAssumption
<1>5. r.order = o /\ r.lines = orders[o].lines /\ r.status = "DRAFT" /\ ~r.paid
  BY <1>2
<1> HIDE DEF r
<1>6. /\ DOMAIN invoices' = DOMAIN invoices \cup {i} /\ invoices'[i] = r
      /\ \A j \in DOMAIN invoices : j # i /\ invoices'[j] = invoices[j]
  BY <1>1 DEF Put
<1>7. /\ tx' \in [Clients -> Transactions] /\ Locks'
      /\ tx'[c].op = "none" /\ \A d \in Clients : d # c => tx'[d] = tx[d]
  BY <1>1, EndKeeps
<1>8. TypeOK'
  BY <1>1, <1>4, <1>6, <1>7 DEF IInv, TypeOK
<1>9. OriginIsConversion' /\ AgreedTermsKept'
  BY <1>1 DEF IInv, OriginIsConversion, AgreedTermsKept, Readable
<1>10. PaidIsIssued' /\ BilledExists'
  BY <1>1, <1>2, <1>5, <1>6 DEF IInv, PaidIsIssued, BilledExists
<1>11. OrderTx' /\ QuotationTx' /\ BillTx'
  BY <1>1, <1>7 DEF IInv, OrderTx, QuotationTx, BillTx
<1>12. InvoiceTx'
  BY <1>6, <1>7 DEF IInv, InvoiceTx
<1>13. LookupStaysValid'
  <2>1. \A d \in Clients : d # c /\ tx[d].op = "bill" => tx[d].key # o
    BY <1>1 DEF IInv, Locks, Exclusive
  <2> QED
    BY <1>5, <1>6, <1>7, <2>1 DEF IInv, LookupStaysValid, Billed
<1>14. LawfulUnlessCrossed'
  BY <1>1, <1>2, <1>5, <1>6 DEF IInv, LawfulUnlessCrossed, Readable, Invoiceable
<1> QED
  BY <1>7, <1>8, <1>9, <1>10, <1>11, <1>12, <1>13, <1>14 DEF IInv

\* A request that has locked an invoice and intends to write row.
LEMMA LockInvoiceStep ==
  ASSUME IInv, NEW c \in Clients, NEW i \in DOMAIN invoices, NEW row \in InvoiceRow,
         LockInvoice(c, i, row), Lawful(invoices[i], row), numbers' \in 0..MaxNumber
  PROVE  IInv'
<1> DEFINE t == [op |-> "invoice", key |-> i, row |-> row]
<1>1. /\ UNCHANGED <<quotations, orders, invoices, entered, crossed>>
      /\ Begin(c, t) /\ ~Locked({"invoice"}, i)
  BY DEF LockInvoice, InvoiceFree
<1>2. t \in Transactions
  BY DEF IInv, TypeOK, Transactions
<1>3. t.op = "invoice" /\ t.key = i /\ t.row = row
  OBVIOUS
<1> HIDE DEF t
<1>4. /\ tx' \in [Clients -> Transactions]
      /\ tx'[c] = t
      /\ \A d \in Clients : d # c => tx'[d] = tx[d]
      /\ Locks'
  BY <1>1, <1>2, <1>3, BeginKeeps
<1>5. TypeOK'
  BY <1>1, <1>4 DEF IInv, TypeOK
<1>6. OriginIsConversion' /\ PaidIsIssued' /\ BilledExists' /\ AgreedTermsKept'
  BY <1>1 DEF IInv, OriginIsConversion, PaidIsIssued, BilledExists, AgreedTermsKept, Readable
<1>7. InvoiceTx'
  BY <1>1, <1>3, <1>4 DEF IInv, InvoiceTx
<1>8. OrderTx' /\ QuotationTx' /\ BillTx'
  BY <1>1, <1>3, <1>4 DEF IInv, OrderTx, QuotationTx, BillTx
<1>9. LookupStaysValid' /\ LawfulUnlessCrossed'
  BY <1>1, <1>3, <1>4 DEF IInv, LookupStaysValid, LawfulUnlessCrossed, Readable, Billed
<1> QED
  BY <1>4, <1>5, <1>6, <1>7, <1>8, <1>9 DEF IInv

\* A draft may change in any way that keeps its order and content.
LEMMA EditInvoiceStep ==
  ASSUME IInv, NEW c \in Clients, NEW i \in DOMAIN invoices, EditInvoice(c, i)
  PROVE  IInv'
<1> DEFINE row == [invoices[i] EXCEPT !.edited = TRUE]
<1>1. /\ invoices[i] \in InvoiceRow /\ invoices[i].status = "DRAFT" /\ ~invoices[i].paid
      /\ LockInvoice(c, i, row) /\ numbers' \in 0..MaxNumber
  BY DEF IInv, TypeOK, PaidIsIssued, EditInvoice
<1>2. row \in InvoiceRow
  BY <1>1 DEF InvoiceRow
<1>3. Lawful(invoices[i], row)
  BY <1>1 DEF InvoiceRow, Lawful
<1> HIDE DEF row
<1> QED
  BY <1>1, <1>2, <1>3, LockInvoiceStep

LEMMA IssueStep ==
  ASSUME IInv, NEW c \in Clients, NEW i \in DOMAIN invoices, Issue(c, i)
  PROVE  IInv'
<1> DEFINE row == [invoices[i] EXCEPT !.status = "ISSUED", !.number = numbers']
<1>1. /\ invoices[i] \in InvoiceRow /\ invoices[i].status = "DRAFT" /\ ~invoices[i].paid
      /\ LockInvoice(c, i, row)
  BY DEF IInv, TypeOK, PaidIsIssued, Issue
<1>2. numbers' \in 0..MaxNumber
  BY SalesAssumption DEF IInv, TypeOK, Issue, SalesAssumption
<1>3. row \in InvoiceRow
  BY <1>1, <1>2 DEF InvoiceRow
<1>4. Lawful(invoices[i], row)
  BY <1>1 DEF InvoiceRow, Lawful
<1> HIDE DEF row
<1> QED
  BY <1>1, <1>2, <1>3, <1>4, LockInvoiceStep

LEMMA IssueRefusedStep ==
  ASSUME IInv, NEW i \in Invoices, IssueRefused(i)
  PROVE  IInv'
<1>1. UNCHANGED <<quotations, orders, invoices, tx, entered, crossed>>
  BY DEF IssueRefused
<1>2. TypeOK'
  BY <1>1, SalesAssumption DEF IInv, TypeOK, IssueRefused, SalesAssumption
<1> QED
  BY <1>1, <1>2
     DEF IInv, Locks, Exclusive, OriginIsConversion, OrderTx, QuotationTx, BillTx, InvoiceTx,
         PaidIsIssued, BilledExists, AgreedTermsKept, LookupStaysValid, LawfulUnlessCrossed,
         Readable, Billed

LEMMA MarkPaidStep ==
  ASSUME IInv, NEW c \in Clients, NEW i \in DOMAIN invoices, MarkPaid(c, i)
  PROVE  IInv'
<1> DEFINE row == [invoices[i] EXCEPT !.paid = TRUE]
<1>1. /\ invoices[i] \in InvoiceRow /\ invoices[i].status = "ISSUED" /\ ~invoices[i].paid
      /\ LockInvoice(c, i, row) /\ numbers' \in 0..MaxNumber
  BY DEF IInv, TypeOK, MarkPaid
<1>2. row \in InvoiceRow
  BY <1>1 DEF InvoiceRow
<1>3. Lawful(invoices[i], row)
  BY <1>1 DEF InvoiceRow, Lawful
<1> HIDE DEF row
<1> QED
  BY <1>1, <1>2, <1>3, LockInvoiceStep

LEMMA RevertPaymentStep ==
  ASSUME IInv, NEW c \in Clients, NEW i \in DOMAIN invoices, RevertPayment(c, i)
  PROVE  IInv'
<1> DEFINE row == [invoices[i] EXCEPT !.paid = FALSE]
<1>1. /\ invoices[i] \in InvoiceRow /\ invoices[i].status = "ISSUED" /\ invoices[i].paid
      /\ LockInvoice(c, i, row) /\ numbers' \in 0..MaxNumber
  BY DEF IInv, TypeOK, PaidIsIssued, RevertPayment
<1>2. row \in InvoiceRow
  BY <1>1 DEF InvoiceRow
<1>3. Lawful(invoices[i], row)
  BY <1>1 DEF InvoiceRow, Lawful
<1> HIDE DEF row
<1> QED
  BY <1>1, <1>2, <1>3, LockInvoiceStep

LEMMA CancelStep ==
  ASSUME IInv, NEW c \in Clients, NEW i \in DOMAIN invoices, Cancel(c, i)
  PROVE  IInv'
<1> DEFINE row == [invoices[i] EXCEPT !.status = "CANCELLED"]
<1>1. /\ invoices[i] \in InvoiceRow /\ invoices[i].status # "CANCELLED" /\ ~invoices[i].paid
      /\ LockInvoice(c, i, row) /\ numbers' \in 0..MaxNumber
  BY DEF IInv, TypeOK, Cancel
<1>2. row \in InvoiceRow
  BY <1>1 DEF InvoiceRow
<1>3. Lawful(invoices[i], row)
  BY <1>1 DEF InvoiceRow, Lawful
<1> HIDE DEF row
<1> QED
  BY <1>1, <1>2, <1>3, LockInvoiceStep

\* The row that is written back is a lawful successor of the one that is stored.
LEMMA WriteInvoiceStep ==
  ASSUME IInv, NEW c \in Clients, WriteInvoice(c)
  PROVE  IInv'
<1> DEFINE t == tx[c]
           i == t.key
<1>1. /\ t.op = "invoice" /\ End(c)
      /\ invoices' = Put(invoices, i, t.row)
      /\ UNCHANGED <<quotations, orders, entered, numbers, crossed>>
  BY DEF WriteInvoice
<1>2. i \in DOMAIN invoices /\ Lawful(invoices[i], t.row)
  BY <1>1 DEF IInv, InvoiceTx
<1>3. t \in Transactions
  BY DEF IInv, TypeOK
<1>4. t.row \in InvoiceRow
  BY <1>1, <1>3 DEF Transactions, Idle
<1>5. /\ DOMAIN invoices' = DOMAIN invoices /\ invoices'[i] = t.row
      /\ \A j \in DOMAIN invoices : j # i => invoices'[j] = invoices[j]
  BY <1>1, <1>2 DEF Put
<1>6. /\ tx' \in [Clients -> Transactions] /\ Locks'
      /\ tx'[c].op = "none" /\ \A d \in Clients : d # c => tx'[d] = tx[d]
  BY <1>1, EndKeeps
<1>7. TypeOK'
  BY <1>1, <1>4, <1>5, <1>6 DEF IInv, TypeOK
<1>8. OriginIsConversion' /\ AgreedTermsKept'
  BY <1>1 DEF IInv, OriginIsConversion, AgreedTermsKept, Readable
<1>9. PaidIsIssued' /\ BilledExists'
  BY <1>1, <1>2, <1>5 DEF IInv, PaidIsIssued, BilledExists, Lawful
<1>10. OrderTx' /\ QuotationTx' /\ BillTx'
  BY <1>1, <1>6 DEF IInv, OrderTx, QuotationTx, BillTx
<1>11. InvoiceTx'
  <2>1. \A d \in Clients : d # c /\ tx[d].op = "invoice" => tx[d].key # i
    BY <1>1 DEF IInv, Locks, Exclusive
  <2> QED
    BY <1>5, <1>6, <2>1 DEF IInv, InvoiceTx
<1>12. \A j \in DOMAIN invoices :
         invoices'[j].order = invoices[j].order /\ invoices'[j].lines = invoices[j].lines
  BY <1>2, <1>5 DEF Lawful
<1>13. LookupStaysValid' /\ LawfulUnlessCrossed'
  BY <1>1, <1>5, <1>6, <1>12 DEF IInv, LookupStaysValid, LawfulUnlessCrossed, Billed, Readable
<1> QED
  BY <1>6, <1>7, <1>8, <1>9, <1>10, <1>11, <1>13 DEF IInv

LEMMA RollBackStep ==
  ASSUME IInv, NEW c \in Clients, RollBack(c)
  PROVE  IInv'
<1>1. UNCHANGED <<quotations, orders, invoices, entered, numbers, crossed>> /\ End(c)
  BY DEF RollBack
<1>2. /\ tx' \in [Clients -> Transactions] /\ Locks'
      /\ tx'[c].op = "none" /\ \A d \in Clients : d # c => tx'[d] = tx[d]
  BY <1>1, EndKeeps
<1>3. TypeOK' /\ OriginIsConversion' /\ PaidIsIssued' /\ BilledExists' /\ AgreedTermsKept'
  BY <1>1, <1>2 DEF IInv, TypeOK, OriginIsConversion, PaidIsIssued, BilledExists,
                    AgreedTermsKept, Readable
<1>4. OrderTx' /\ QuotationTx' /\ BillTx' /\ InvoiceTx'
  BY <1>1, <1>2 DEF IInv, OrderTx, QuotationTx, BillTx, InvoiceTx
<1>5. LookupStaysValid' /\ LawfulUnlessCrossed'
  BY <1>1, <1>2 DEF IInv, LookupStaysValid, LawfulUnlessCrossed, Readable, Billed
<1> QED
  BY <1>2, <1>3, <1>4, <1>5 DEF IInv
-----------------------------------------------------------------------------
(* The invariant and the theorems *)

LEMMA InitHolds == Init => IInv
<1> SUFFICES ASSUME Init PROVE IInv
  OBVIOUS
<1>1. /\ DOMAIN quotations = {} /\ DOMAIN orders = {} /\ DOMAIN invoices = {}
      /\ tx \in [Clients -> Transactions] /\ \A c \in Clients : tx[c].op = "none"
      /\ entered = 0 /\ numbers = 0 /\ crossed = {}
  BY DEF Init, Transactions, Idle
<1>2. TypeOK
  BY <1>1, SalesAssumption DEF TypeOK, SalesAssumption
<1>3. Locks /\ OrderTx /\ QuotationTx /\ BillTx /\ InvoiceTx /\ LookupStaysValid
  BY <1>1 DEF Locks, Exclusive, OrderTx, QuotationTx, BillTx, InvoiceTx, LookupStaysValid
<1>4. OriginIsConversion /\ PaidIsIssued /\ BilledExists /\ AgreedTermsKept
      /\ LawfulUnlessCrossed
  BY <1>1 DEF OriginIsConversion, PaidIsIssued, BilledExists, AgreedTermsKept,
              LawfulUnlessCrossed
<1> QED
  BY <1>2, <1>3, <1>4 DEF IInv

LEMMA StutterStep == IInv /\ UNCHANGED vars => IInv'
BY DEF vars, IInv, TypeOK, Locks, Exclusive, OriginIsConversion, OrderTx, QuotationTx, BillTx,
       InvoiceTx, PaidIsIssued, BilledExists, AgreedTermsKept, LookupStaysValid,
       LawfulUnlessCrossed, Readable, Billed

LEMMA StepHolds == IInv /\ [Next]_vars => IInv'
<1> SUFFICES ASSUME IInv, [Next]_vars PROVE IInv'
  OBVIOUS
<1>1. CASE UNCHANGED vars
  BY <1>1, StutterStep
<1>2. CASE \E o \in Orders, source \in {"ADMIN", "SAVOURETPLUS_WEB"} : CreateOrder(o, source)
  BY <1>2, CreateOrderStep
<1>3. CASE \E q \in Quotations : CreateQuotation(q)
  BY <1>3, CreateQuotationStep
<1>4. CASE \E i \in Invoices : IssueRefused(i)
  BY <1>4, IssueRefusedStep
<1>5. ASSUME NEW c \in Clients, OrderNext(c) PROVE IInv'
  BY <1>5, ChangeStatusStep, ReplaceStep, CorrectCustomerStep, WriteOrderStep DEF OrderNext
<1>6. ASSUME NEW c \in Clients, QuotationNext(c) PROVE IInv'
  BY <1>6, EditQuotationStep, ChangeQuotationStatusStep, LockForConversionStep,
     WriteQuotationStep, ConvertStep DEF QuotationNext
<1>7. ASSUME NEW c \in Clients, InvoiceNext(c) PROVE IInv'
  BY <1>7, LockForInvoiceStep, CreateInvoiceStep, EditInvoiceStep, IssueStep, MarkPaidStep,
     RevertPaymentStep, CancelStep, WriteInvoiceStep DEF InvoiceNext
<1>8. ASSUME NEW c \in Clients, RollBack(c) PROVE IInv'
  BY <1>8, RollBackStep
<1> QED
  BY <1>1, <1>2, <1>3, <1>4, <1>5, <1>6, <1>7, <1>8 DEF Next

\* The inductive invariant holds in every reachable state.
THEOREM Invariance == Spec => []IInv
<1> QED
  BY InitHolds, StepHolds, PTL DEF Spec

\* Tables, open transactions and counters keep their types.
THEOREM TypeCorrect == Spec => []TypeOK
<1>1. IInv => TypeOK
  BY DEF IInv
<1> QED
  BY <1>1, Invariance, PTL

\* Whatever requests cross, the order of a quotation keeps the accepted terms and
\* is the one the quotation names.
THEOREM TermsAreKept == Spec => []AgreedTermsKept
<1>1. IInv => AgreedTermsKept
  BY DEF IInv
<1> QED
  BY <1>1, Invariance, PTL

\* The lock on the order keeps the lookup of its invoice valid until the insertion.
THEOREM BillingNeverCollides == Spec => []LookupStaysValid
<1>1. IInv => LookupStaysValid
  BY DEF IInv
<1> QED
  BY <1>1, Invariance, PTL

\* An order no request wrote over blindly has the total of its items, and agrees
\* with its invoice.
THEOREM OrdersAreLawful == Spec => []LawfulUnlessCrossed
<1>1. IInv => LawfulUnlessCrossed
  BY DEF IInv
<1> QED
  BY <1>1, Invariance, PTL

\* What a step may make of the invoices.
LEMMA InvoiceStep ==
  ASSUME IInv, [Next]_vars, NEW i \in DOMAIN invoices
  PROVE  \/ invoices'[i] = invoices[i]
         \/ invoices'[i] \in InvoiceRow /\ Lawful(invoices[i], invoices'[i])
<1>1. CASE UNCHANGED invoices
  BY <1>1 DEF Lawful
<1>2. ASSUME NEW c \in Clients, NEW j \in Invoices, CreateInvoice(c, j)
      PROVE  invoices'[i] = invoices[i]
  BY <1>2 DEF CreateInvoice, Put
<1>3. ASSUME NEW c \in Clients, WriteInvoice(c)
      PROVE  \/ invoices'[i] = invoices[i]
             \/ invoices'[i] \in InvoiceRow /\ Lawful(invoices[i], invoices'[i])
  <2> DEFINE t == tx[c]
  <2>1. t.op = "invoice" /\ invoices' = Put(invoices, t.key, t.row)
    BY <1>3 DEF WriteInvoice
  <2>2. t.key \in DOMAIN invoices /\ Lawful(invoices[t.key], t.row)
    BY <2>1 DEF IInv, InvoiceTx
  <2>3. t \in Transactions
    BY DEF IInv, TypeOK
  <2>4. t.row \in InvoiceRow
    BY <2>1, <2>3 DEF Transactions, Idle
  <2>5. invoices'[i] = IF i = t.key THEN t.row ELSE invoices[i]
    BY <2>1 DEF Put
  <2> QED
    BY <2>2, <2>4, <2>5 DEF Lawful
<1>4. \/ UNCHANGED invoices
      \/ \E c \in Clients : WriteInvoice(c) \/ \E j \in Invoices : CreateInvoice(c, j)
  <2>1. CASE UNCHANGED vars
    BY <2>1 DEF vars
  <2>2. CASE \E c \in Clients : OrderNext(c) \/ QuotationNext(c) \/ RollBack(c)
    BY <2>2 DEF OrderNext, QuotationNext, RollBack, ChangeStatus, Replace, CorrectCustomer,
       ReadOrder, WriteOrder, EditQuotation, ChangeQuotationStatus, LockForConversion,
       LockQuotation, WriteQuotation, Convert
  <2>3. CASE \E c \in Clients : InvoiceNext(c)
    BY <2>3 DEF InvoiceNext, LockForInvoice, EditInvoice, Issue, MarkPaid, RevertPayment,
       Cancel, LockInvoice
  <2>4. CASE \/ \E o \in Orders, source \in {"ADMIN", "SAVOURETPLUS_WEB"} : CreateOrder(o, source)
             \/ \E q \in Quotations : CreateQuotation(q)
             \/ \E j \in Invoices : IssueRefused(j)
    BY <2>4 DEF CreateOrder, CreateQuotation, IssueRefused
  <2> QED
    BY <2>1, <2>2, <2>3, <2>4 DEF Next
<1> QED
  BY <1>1, <1>2, <1>3, <1>4 DEF Lawful

\* An issued invoice keeps its number and content for good; a cancelled one does
\* not change at all.
THEOREM IssuedStaysFrozen == Spec => IssuedIsFrozen
<1> DEFINE Frozen(old, new) ==
      /\ old.status = "ISSUED" =>
           /\ \E s \in {"ISSUED", "CANCELLED"}, b \in BOOLEAN :
                new = [old EXCEPT !.status = s, !.paid = b]
           /\ old.paid => new.status = "ISSUED"
      /\ old.status = "CANCELLED" => new = old
<1>1. ASSUME IInv, [Next]_vars, NEW i \in DOMAIN invoices
      PROVE  Frozen(invoices[i], invoices'[i])
  <2> DEFINE old == invoices[i]
             new == invoices'[i]
  <2>1. old \in InvoiceRow /\ (old.paid => old.status = "ISSUED")
    BY <1>1 DEF IInv, TypeOK, PaidIsIssued
  <2>2. \/ new = old
        \/ new \in InvoiceRow /\ Lawful(old, new)
    BY <1>1, InvoiceStep
  <2> SUFFICES Frozen(old, new)
    OBVIOUS
  <2> HIDE DEF old, new
  <2>3. new \in InvoiceRow
    BY <2>1, <2>2
  <2>4. ASSUME old.status = "ISSUED"
        PROVE  /\ new.order = old.order /\ new.number = old.number /\ new.lines = old.lines
               /\ new.edited = old.edited /\ new.status \in {"ISSUED", "CANCELLED"}
               /\ old.paid => new.status = "ISSUED"
    BY <2>2, <2>4 DEF Lawful
  <2>5. ASSUME old.status = "ISSUED"
        PROVE  \E s \in {"ISSUED", "CANCELLED"}, b \in BOOLEAN :
                 new = [old EXCEPT !.status = s, !.paid = b]
    <3>1. new = [old EXCEPT !.status = new.status, !.paid = new.paid]
      BY <2>1, <2>3, <2>4, <2>5 DEF InvoiceRow
    <3>2. new.status \in {"ISSUED", "CANCELLED"} /\ new.paid \in BOOLEAN
      BY <2>3, <2>4, <2>5 DEF InvoiceRow
    <3> QED
      BY <3>1, <3>2
  <2>6. old.status = "CANCELLED" => new = old
    BY <2>2 DEF Lawful
  <2> QED
    BY <2>4, <2>5, <2>6
<1>2. IInv /\ [Next]_vars => [\A i \in DOMAIN invoices : Frozen(invoices[i], invoices'[i])]_vars
  BY <1>1
<1> QED
  BY <1>2, Invariance, PTL DEF Spec, IssuedIsFrozen

-----------------------------------------------------------------------------
(* OrderDesk: types *)

Sources == {"ADMIN", "SAVOURETPLUS_WEB"}
CallKinds == {"create", "update", "customer", "status", "invoice"}
SaveKinds == {"create", "update", "customer"}
Slots == {"save", "status", "invoice"}
OrderRows == [source : Sources, status : Statuses, content : Contents, rev : Nat, draft : Nat]
CallRows ==
  [kind : CallKinds, slot : Slots, order : {New} \cup Ids, body : Contents \cup Statuses \cup {Null},
   live : BOOLEAN, gone : BOOLEAN, nth : Nat, draft : Nat]
AnswerRows == [call : CallRows, ok : BOOLEAN, order : Nat, copy : Copies \cup {Null}]

\* A new order has a draft; any other call is about an order that was made.
Aimed(c) ==
  /\ c.kind \in SaveKinds <=> c.slot = "save"
  /\ IF c.kind = "create" THEN c.order = New ELSE c.order \in Known /\ c.draft = 0
  /\ c.kind \in SaveKinds => c.body \in Contents
  /\ c.kind = "status" => c.body \in Statuses

\* What an answer brings is an order as it was.
Granted(a) == a.ok => a.order \in Known /\ a.copy \in Copies /\ a.copy.rev <= orderTable[a.order].rev

OrderTypes == orderTable \in Seq(OrderRows) /\ Len(orderTable) <= MaxOrders
NetTypes ==
  /\ wire \subseteq CallRows /\ replies \subseteq AnswerRows /\ settling \subseteq AnswerRows
  /\ \A c \in wire : Aimed(c)
  /\ \A a \in replies \cup settling : Aimed(a.call) /\ Granted(a)
  /\ \A a \in settling : a.ok
CacheTypes == cache \in [Ids -> Copies \cup {Null}] /\ fetch \in [Ids -> Copies \cup {Null, Sent}]
PageTypes ==
  /\ at \in {Elsewhere, New} \cup Known /\ mode \in {Null, "full", "customer"}
  /\ draft \in Contents /\ baseline \in Contents /\ initialized \in BOOLEAN /\ busy \subseteq Slots
  /\ mode # Null => at = New \/ Shown
  /\ Shown => initialized
DraftTypes ==
  /\ stored \in Contents /\ drafting \in Nat /\ acked \in Nat /\ late \in BOOLEAN /\ unsure \subseteq Nat
CountTypes == typed \in Nat /\ calls \in Nat /\ events \in Nat

TypeInv == OrderTypes /\ NetTypes /\ CacheTypes /\ PageTypes /\ DraftTypes /\ CountTypes

LEMMA ContentTypes == Empty \in Contents /\ Others \in Contents
BY BoundsAssumption DEF Empty, Others, Contents

LEMMA Pages == New \notin Ids /\ Elsewhere \notin Ids /\ Elsewhere # New
BY MarksAssumption, PagesAssumption DEF Ids

LEMMA Rows ==
  ASSUME OrderTypes
  PROVE  /\ Len(orderTable) \in Nat /\ Known = DOMAIN orderTable /\ Known \subseteq Ids /\ Known \subseteq Nat
         /\ \A n \in Known : orderTable[n] \in OrderRows /\ Copy(n) \in Copies /\ Copy(n).rev = orderTable[n].rev
<1>1. /\ Len(orderTable) \in Nat /\ Known = DOMAIN orderTable
      /\ \A n \in Known : orderTable[n] \in OrderRows
  BY DEF OrderTypes, Known
<1>2. Known \subseteq Ids /\ Known \subseteq Nat
  BY <1>1, BoundsAssumption DEF OrderTypes, Known, Ids
<1>3. QED BY <1>1, <1>2 DEF OrderRows, Copies, Copy, CopyOf, Sources

LEMMA Hidden == ASSUME NEW n \in Ids PROVE n # New /\ n # Elsewhere
BY Pages

\* What is noted of a call leaves the call.
Same(d, c) ==
  /\ d \in CallRows /\ d.kind = c.kind /\ d.slot = c.slot /\ d.order = c.order /\ d.body = c.body /\ d.draft = c.draft

LEMMA CallFields ==
  ASSUME NEW c \in CallRows
  PROVE  /\ LET d == [c EXCEPT !.live = FALSE] IN Same(d, c) /\ d.gone = c.gone /\ d.live = FALSE
         /\ LET d == [c EXCEPT !.gone = TRUE] IN Same(d, c) /\ d.live = c.live /\ d.gone = TRUE
BY DEF CallRows, Same

LEMMA AnswerFields ==
  ASSUME NEW a \in AnswerRows
  PROVE  LET b == [a EXCEPT !.call.live = FALSE] IN
         /\ b \in AnswerRows /\ b.ok = a.ok /\ b.order = a.order /\ b.copy = a.copy /\ Same(b.call, a.call)
         /\ b.call.gone = a.call.gone /\ b.call.live = FALSE
<1>1. a.call \in CallRows
  BY DEF AnswerRows
<1>2. Same([a.call EXCEPT !.live = FALSE], a.call) /\ [a.call EXCEPT !.live = FALSE].gone = a.call.gone
        /\ [a.call EXCEPT !.live = FALSE].live = FALSE /\ [a.call EXCEPT !.live = FALSE] \in CallRows
  BY <1>1, CallFields DEF Same
<1>3. [a EXCEPT !.call.live = FALSE] = [a EXCEPT !.call = [a.call EXCEPT !.live = FALSE]]
  OBVIOUS
<1>4. /\ [a EXCEPT !.call.live = FALSE].call = [a.call EXCEPT !.live = FALSE]
      /\ [a EXCEPT !.call.live = FALSE] \in AnswerRows /\ [a EXCEPT !.call.live = FALSE].ok = a.ok
      /\ [a EXCEPT !.call.live = FALSE].order = a.order /\ [a EXCEPT !.call.live = FALSE].copy = a.copy
  BY <1>2, <1>3 DEF AnswerRows
<1>5. QED BY <1>2, <1>4

\* Orders are never taken back, and each write of one counts.
Grows ==
  /\ Known \subseteq Known'
  /\ \A n \in Known : orderTable[n].rev <= orderTable'[n].rev /\ orderTable'[n].draft = orderTable[n].draft

LEMMA SameAimed ==
  ASSUME NEW c, NEW d, Same(d, c) \/ d = c, Aimed(c), Known \subseteq Known'
  PROVE  Aimed(d)'
BY DEF Same, Aimed

LEMMA SameGranted ==
  ASSUME OrderTypes, OrderTypes', Grows, NEW a \in AnswerRows, NEW b \in AnswerRows, Granted(a),
         b.ok = a.ok, b.order = a.order, b.copy = a.copy
  PROVE  Granted(b)'
<1>1. SUFFICES ASSUME a.ok
               PROVE  a.order \in Known' /\ a.copy \in Copies /\ a.copy.rev <= orderTable'[a.order].rev
  BY DEF Granted
<1>2. a.order \in Known /\ a.copy \in Copies /\ a.copy.rev <= orderTable[a.order].rev
  BY <1>1 DEF Granted
<1>3. orderTable[a.order].rev \in Nat /\ a.copy.rev \in Nat /\ a.order \in Known'
        /\ orderTable[a.order].rev <= orderTable'[a.order].rev
  BY <1>2, Rows DEF Grows, OrderRows, Copies
<1>4. orderTable'[a.order] \in OrderRows
  BY <1>3 DEF OrderTypes, Known
<1>5. orderTable'[a.order].rev \in Nat
  BY <1>4 DEF OrderRows
<1>6. QED BY <1>2, <1>3, <1>5

-----------------------------------------------------------------------------
(* Steps keep the types *)

LEMMA OrdersStay ==
  ASSUME TypeInv, UNCHANGED orderTable
  PROVE  OrderTypes' /\ Known' = Known /\ Grows
<1>1. OrderTypes' /\ Known' = Known
  BY DEF TypeInv, OrderTypes, Known
<1>2. \A n \in Known : orderTable[n].rev \in Nat
  BY Rows DEF TypeInv, OrderRows
<1>3. QED BY <1>1, <1>2 DEF Grows

\* Calls and answers go on as they are, or only their notes change.
LEMMA NetStays ==
  ASSUME TypeInv, OrderTypes', Grows,
         \A c \in wire' : \E d \in wire : c = d \/ Same(c, d),
         replies' \subseteq AnswerRows, settling' \subseteq AnswerRows,
         \A a \in replies' \cup settling' : \E b \in replies \cup settling :
           /\ a.call = b.call \/ Same(a.call, b.call)
           /\ a.ok = b.ok /\ a.order = b.order /\ a.copy = b.copy,
         \A a \in settling' : a.ok
  PROVE  NetTypes'
<1>1. ASSUME NEW c \in wire'
      PROVE  c \in CallRows /\ Aimed(c)'
  <2>1. PICK d \in wire : c = d \/ Same(c, d)
    OBVIOUS
  <2>2. d \in CallRows /\ Aimed(d)
    BY DEF TypeInv, NetTypes
  <2>3. Aimed(c)'
    BY <2>1, <2>2, SameAimed DEF Grows
  <2>4. QED BY <2>1, <2>2, <2>3 DEF Same
<1>2. ASSUME NEW a \in replies' \cup settling'
      PROVE  Aimed(a.call)' /\ Granted(a)'
  <2>1. PICK b \in replies \cup settling :
          /\ a.call = b.call \/ Same(a.call, b.call)
          /\ a.ok = b.ok /\ a.order = b.order /\ a.copy = b.copy
    OBVIOUS
  <2>2. Aimed(b.call) /\ Granted(b) /\ b \in AnswerRows /\ a \in AnswerRows
    BY DEF TypeInv, NetTypes
  <2>3. Aimed(a.call)'
    BY <2>1, <2>2, SameAimed DEF Grows
  <2>4. Granted(a)'
    BY <2>1, <2>2, SameGranted DEF TypeInv
  <2>5. QED BY <2>3, <2>4
<1>3. QED BY <1>1, <1>2 DEF NetTypes

LEMMA RestStays ==
  ASSUME TypeInv, Known \subseteq Known'
  PROVE  /\ UNCHANGED <<cache, fetch>> => CacheTypes'
         /\ UNCHANGED <<cache, page>> => PageTypes'
         /\ UNCHANGED <<stored, drafting, ghosts>> => DraftTypes'
         /\ UNCHANGED <<typed, calls, events>> => CountTypes'
<1>1. UNCHANGED <<cache, fetch>> => CacheTypes'
  BY DEF TypeInv, CacheTypes
<1>2. UNCHANGED <<cache, page>> => PageTypes'
  BY DEF TypeInv, PageTypes, page, Shown
<1>3. UNCHANGED <<stored, drafting, ghosts>> => DraftTypes'
  BY DEF TypeInv, DraftTypes, ghosts
<1>4. UNCHANGED <<typed, calls, events>> => CountTypes'
  BY DEF TypeInv, CountTypes
<1>5. QED BY <1>1, <1>2, <1>3, <1>4

\* One order is written.
LEMMA WrittenRow ==
  ASSUME TypeInv, NEW n \in Known, NEW content \in Contents, NEW status \in Statuses,
         orderTable' = Rewritten(n, content, status)
  PROVE  OrderTypes' /\ Known' = Known /\ Grows
<1> DEFINE next == orderTable[n].rev + 1
           row == [orderTable[n] EXCEPT !.content = content, !.status = status, !.rev = next]
<1>1. orderTable[n] \in OrderRows /\ n \in DOMAIN orderTable /\ orderTable[n].rev \in Nat /\ next \in Nat
  BY Rows DEF TypeInv, OrderRows
<1>2. orderTable' = [orderTable EXCEPT ![n] = row]
  <2>1. orderTable' = [[[orderTable EXCEPT ![n].content = content] EXCEPT ![n].status = status] EXCEPT ![n].rev = @ + 1]
    BY DEF Rewritten
  <2>2. [[orderTable EXCEPT ![n].content = content] EXCEPT ![n].status = status]
          = [orderTable EXCEPT ![n] = [orderTable[n] EXCEPT !.content = content, !.status = status]]
    BY <1>1
  <2>3. [orderTable[n] EXCEPT !.content = content, !.status = status].rev = orderTable[n].rev
    BY <1>1 DEF OrderRows
  <2>4. QED BY <1>1, <2>1, <2>2, <2>3
<1>3. row \in OrderRows /\ row.rev = next /\ row.draft = orderTable[n].draft
  <2> HIDE DEF next
  <2>1. QED BY <1>1 DEF OrderRows
<1> HIDE DEF row
<1>4. orderTable' \in Seq(OrderRows) /\ Len(orderTable') = Len(orderTable) /\ Known' = Known
        /\ orderTable'[n] = row /\ \A k \in Known \ {n} : orderTable'[k] = orderTable[k]
  BY <1>2, <1>3 DEF TypeInv, OrderTypes, Known
<1>5. \A k \in Known : orderTable[k].rev \in Nat
  BY Rows DEF TypeInv, OrderRows
<1>6. Grows
  BY <1>3, <1>4, <1>5 DEF Grows
<1>7. QED BY <1>4, <1>6 DEF TypeInv, OrderTypes


LEMMA NextTypes == ASSUME NEW s PROVE NextOrderStatuses(s) \subseteq Statuses
BY DEF NextOrderStatuses, Statuses

LEMMA AllowedTypes == ASSUME NEW c \in CallRows PROVE Allowed(c) \in BOOLEAN
<1>1. c.kind \in {"create", "update", "customer", "status", "invoice"}
  BY DEF CallRows, CallKinds
<1>2. CASE c.kind = "create"
  BY <1>2 DEF Allowed
<1>3. CASE c.kind = "update"
  BY <1>3 DEF Allowed, CanEdit
<1>4. CASE c.kind = "customer"
  BY <1>4 DEF Allowed, CanEditWebCustomer
<1>5. CASE c.kind = "status"
  BY <1>5 DEF Allowed
<1>6. CASE c.kind = "invoice"
  BY <1>6 DEF Allowed, CanInvoice
<1>7. QED BY <1>1, <1>2, <1>3, <1>4, <1>5, <1>6

\* The rows after a call that is accepted: one more for a draft, else the same ones.
LEMMA ResultRows ==
  ASSUME TypeInv, NEW c \in CallRows, Aimed(c), Allowed(c), orderTable' = Result(c)
  PROVE  /\ OrderTypes' /\ Grows /\ Target(c) \in Known'
         /\ IF c.kind = "create"
            THEN Target(c) \notin Known /\ Known' = Known \cup {Target(c)} /\ orderTable'[Target(c)].draft = c.draft
            ELSE Known' = Known
<1>1. CASE c.kind = "create"
  <2> DEFINE row == [source |-> "ADMIN", status |-> "NEW", content |-> c.body, rev |-> 1, draft |-> c.draft]
  <2>1. row \in OrderRows /\ row.draft = c.draft
    BY <1>1 DEF Aimed, OrderRows, Sources, Statuses, CallRows, SaveKinds
  <2>2. orderTable' = Append(orderTable, row) /\ Len(orderTable) < MaxOrders /\ Target(c) = Len(orderTable) + 1
    BY <1>1 DEF Result, Allowed, Target
  <2> HIDE DEF row
  <2>3. /\ orderTable' \in Seq(OrderRows) /\ Len(orderTable') = Len(orderTable) + 1
        /\ orderTable'[Len(orderTable) + 1] = row /\ \A k \in Known : orderTable'[k] = orderTable[k]
    BY <2>1, <2>2, AppendProperties DEF TypeInv, OrderTypes, Known
  <2>4. OrderTypes'
    BY <2>2, <2>3, Rows, BoundsAssumption DEF TypeInv, OrderTypes
  <2>5. Target(c) \notin Known /\ Known' = Known \cup {Target(c)}
    BY <2>2, <2>3, Rows DEF TypeInv, Known
  <2>6. \A k \in Known : orderTable[k].rev \in Nat
    BY Rows DEF TypeInv, OrderRows
  <2>7. Grows
    BY <2>3, <2>5, <2>6 DEF Grows
  <2>8. QED BY <1>1, <2>1, <2>2, <2>3, <2>4, <2>5, <2>7
<1>2. CASE c.kind # "create"
  <2>1. c.order \in Known /\ Target(c) = c.order /\ orderTable[c.order] \in OrderRows
    BY <1>2, Rows DEF Aimed, Target, TypeInv
  <2>2. CASE orderTable' = orderTable
    BY <1>2, <2>1, <2>2, OrdersStay
  <2>3. ASSUME NEW content \in Contents, NEW status \in Statuses, orderTable' = Rewritten(c.order, content, status)
        PROVE  OrderTypes' /\ Known' = Known /\ Grows
    BY <2>1, <2>3, WrittenRow
  <2>4. orderTable[c.order].content \in Contents /\ orderTable[c.order].status \in Statuses
    BY <2>1 DEF OrderRows
  <2>5. CASE c.kind = "update"
    BY <1>2, <2>1, <2>3, <2>4, <2>5 DEF Result, Aimed, SaveKinds
  <2>6. CASE c.kind = "customer"
    <3>1. WithCustomer(orderTable[c.order].content, c.body) \in Contents
      BY <2>4, <2>6 DEF WithCustomer, Contents, Aimed, SaveKinds
    <3>2. QED BY <1>2, <2>1, <2>3, <2>4, <2>6, <3>1 DEF Result
  <2>7. CASE c.kind = "status" /\ c.body # orderTable[c.order].status
    BY <1>2, <2>1, <2>3, <2>4, <2>7 DEF Result, Aimed
  <2>8. CASE c.kind = "invoice" \/ (c.kind = "status" /\ c.body = orderTable[c.order].status)
    BY <2>2, <2>8 DEF Result
  <2>9. QED BY <1>2, <2>5, <2>6, <2>7, <2>8 DEF CallRows, CallKinds
<1>3. QED BY <1>1, <1>2

\* What an answer to call c brings.
AnswerTo(c, ok) ==
  [call |-> c, ok |-> ok, order |-> Target(c), copy |-> IF ok THEN CopyOf(orderTable'[Target(c)]) ELSE Null]

LEMMA ExecuteEffect ==
  ASSUME TypeInv, NEW c \in wire, Execute(c)
  PROVE  /\ c \in CallRows /\ Aimed(c)
         /\ \E ok \in BOOLEAN :
              /\ ok => Allowed(c) /\ orderTable' = Result(c)
              /\ ~ok => orderTable' = orderTable
              /\ replies' = IF c.gone THEN replies ELSE replies \cup {AnswerTo(c, ok)}
<1>1. c \in CallRows /\ Aimed(c)
  BY DEF TypeInv, NetTypes
<1>2. PICK ok \in {Allowed(c)} \cup (IF c.kind \in {"create", "update"} THEN {FALSE} ELSE {}) :
        /\ orderTable' = IF ok THEN Result(c) ELSE orderTable
        /\ replies' = IF c.gone THEN replies ELSE replies \cup {AnswerTo(c, ok)}
  BY DEF Execute, AnswerTo
<1>3. ok \in BOOLEAN /\ (ok => Allowed(c))
  BY <1>1, <1>2, AllowedTypes
<1>4. QED BY <1>1, <1>2, <1>3

LEMMA ExecuteTypes ==
  ASSUME TypeInv, NEW c \in wire, Execute(c)
  PROVE  TypeInv' /\ Grows
<1>1. c \in CallRows /\ Aimed(c)
  BY ExecuteEffect
<1>2. PICK ok \in BOOLEAN :
        /\ ok => Allowed(c) /\ orderTable' = Result(c)
        /\ ~ok => orderTable' = orderTable
        /\ replies' = IF c.gone THEN replies ELSE replies \cup {AnswerTo(c, ok)}
  BY ExecuteEffect
<1>3. OrderTypes' /\ Grows /\ (ok => Target(c) \in Known')
  BY <1>1, <1>2, ResultRows, OrdersStay
<1>4. wire' = wire \ {c} /\ UNCHANGED <<settling, cache, fetch, page, stored, drafting, ghosts, typed, calls, events>>
  BY DEF Execute
<1>5. Known \subseteq Known'
  BY <1>3 DEF Grows
<1>6. PICK a : a = AnswerTo(c, ok)
  OBVIOUS
<1>7. a \in AnswerRows /\ a.call = c /\ Granted(a)'
  <2>1. Target(c) \in Nat
    BY <1>1, Rows DEF Target, TypeInv, Aimed
  <2>2. ok => orderTable'[Target(c)] \in OrderRows
    BY <1>3 DEF OrderTypes, Known
  <2>3. ok => CopyOf(orderTable'[Target(c)]) \in Copies /\ CopyOf(orderTable'[Target(c)]).rev = orderTable'[Target(c)].rev
                /\ orderTable'[Target(c)].rev \in Nat
    BY <2>2 DEF OrderRows, CopyOf, Copies, Sources
  <2>4. a \in AnswerRows /\ a.call = c
    BY <1>1, <1>6, <2>1, <2>3 DEF AnswerRows, AnswerTo
  <2>5. ok => a.order \in Known' /\ a.copy \in Copies /\ a.copy.rev <= orderTable'[a.order].rev
    BY <1>3, <1>6, <2>3 DEF AnswerTo
  <2>6. a.ok = ok
    BY <1>6 DEF AnswerTo
  <2>7. QED BY <2>4, <2>5, <2>6 DEF Granted
<1>8. NetTypes'
  <2>1. \A d \in wire' : d \in CallRows /\ Aimed(d)'
    BY <1>4, <1>5, SameAimed DEF TypeInv, NetTypes
  <2>2. \A b \in replies \cup settling : b \in AnswerRows /\ Aimed(b.call)' /\ Granted(b)'
    <3>1. TAKE b \in replies \cup settling
    <3>2. b \in AnswerRows /\ Aimed(b.call) /\ Granted(b)
      BY DEF TypeInv, NetTypes
    <3>3. QED BY <1>3, <1>5, <3>2, SameAimed, SameGranted DEF TypeInv
  <2>3. Aimed(a.call)'
    BY <1>1, <1>5, <1>7, SameAimed
  <2>4. replies' \subseteq replies \cup {a} /\ settling' = settling
    BY <1>2, <1>4, <1>6
  <2>5. QED BY <1>7, <2>1, <2>2, <2>3, <2>4 DEF NetTypes, TypeInv
<1>9. QED BY <1>3, <1>4, <1>5, <1>8, RestStays DEF TypeInv

LEMMA OtherTypes ==
  ASSUME TypeInv, NEW n \in Known, OtherWrites(n)
  PROVE  TypeInv' /\ Grows /\ Known' = Known
<1>1. orderTable[n].content \in Contents
  BY Rows DEF TypeInv, OrderRows
<1>2. \E content \in Contents, status \in Statuses : orderTable' = Rewritten(n, content, status)
  BY <1>1, ContentTypes, NextTypes DEF OtherWrites, Statuses
<1>3. OrderTypes' /\ Known' = Known /\ Grows
  BY <1>2, WrittenRow
<1>4. UNCHANGED <<net, cache, fetch, page, stored, drafting, ghosts, typed, calls>> /\ events' = events + 1
  BY DEF OtherWrites
<1>5. NetTypes'
  <2>1. wire' = wire /\ replies' = replies /\ settling' = settling
    BY <1>4 DEF net
  <2>2. QED BY <1>3, <2>1, NetStays DEF TypeInv, NetTypes
<1>6. CountTypes'
  BY <1>4 DEF TypeInv, CountTypes
<1>7. QED BY <1>3, <1>4, <1>5, <1>6, RestStays DEF TypeInv

\* A page is opened, from the copies and the draft at hand.
LEMMA MountTypes ==
  ASSUME TypeInv, Known' = Known, NEW p \in {Elsewhere, New} \cup Known,
         NEW copies \in [Ids -> Copies \cup {Null}], cache' = copies, NEW kept \in Contents, Mount(p, copies, kept)
  PROVE  PageTypes'
<1>1. /\ at' = p /\ busy' = {} /\ mode' = (IF p = New THEN "full" ELSE Null)
      /\ baseline' = (IF p \in Ids /\ copies[p] # Null THEN copies[p].content ELSE Empty)
      /\ draft' = (IF p = New THEN kept ELSE baseline')
      /\ initialized' = (p \in Ids /\ copies[p] # Null)
  BY DEF Mount
<1>2. baseline' \in Contents
  <2>1. CASE p \in Ids /\ copies[p] # Null
    <3>1. copies[p] \in Copies
      BY <2>1
    <3>2. QED BY <1>1, <2>1, <3>1 DEF Copies
  <2>2. CASE ~(p \in Ids /\ copies[p] # Null)
    BY <1>1, <2>2, ContentTypes
  <2>3. QED BY <2>1, <2>2
<1>3. draft' \in Contents
  BY <1>1, <1>2
<1>4. mode' \in {Null, "full", "customer"} /\ (mode' # Null => at' = New)
  BY <1>1
<1>5. initialized' \in BOOLEAN /\ (Shown' => initialized')
  BY <1>1 DEF Shown
<1>6. QED BY <1>1, <1>2, <1>3, <1>4, <1>5 DEF PageTypes

LEMMA FetchTypes ==
  ASSUME NEW p, NEW queries \in [Ids -> Copies \cup {Null, Sent}]
  PROVE  MountedFetch(p, queries) \in [Ids -> Copies \cup {Null, Sent}]
BY DEF MountedFetch

\* Leaving a page only takes its calls out of its hands.
LEMMA DesertedCalls ==
  ASSUME NetTypes, NEW told, told \subseteq replies, NEW over, over \subseteq settling
  PROVE  /\ \A c \in Deserted(wire) : ~c.live /\ \E d \in wire : Same(c, d) /\ c.gone = d.gone
         /\ DesertedAnswers(told) \subseteq AnswerRows /\ DesertedAnswers(over) \subseteq AnswerRows
         /\ \A a \in DesertedAnswers(told) : ~a.call.live /\ \E b \in told :
              Same(a.call, b.call) /\ a.ok = b.ok /\ a.order = b.order /\ a.copy = b.copy
         /\ \A a \in DesertedAnswers(over) : ~a.call.live /\ \E b \in over :
              Same(a.call, b.call) /\ a.ok = b.ok /\ a.order = b.order /\ a.copy = b.copy
<1>1. ASSUME NEW c \in Deserted(wire)
      PROVE  ~c.live /\ \E d \in wire : Same(c, d) /\ c.gone = d.gone
  <2>1. PICK d \in wire : c = [d EXCEPT !.live = FALSE]
    BY DEF Deserted
  <2>2. d \in CallRows
    BY DEF NetTypes
  <2>3. QED BY <2>1, <2>2, CallFields
<1>2. ASSUME NEW set, set \subseteq AnswerRows, NEW a \in DesertedAnswers(set)
      PROVE  /\ a \in AnswerRows /\ ~a.call.live
             /\ \E b \in set : Same(a.call, b.call) /\ a.ok = b.ok /\ a.order = b.order /\ a.copy = b.copy
  <2>1. PICK b \in set : a = [b EXCEPT !.call.live = FALSE]
    BY DEF DesertedAnswers
  <2>2. b \in AnswerRows
    BY <1>2
  <2>3. QED BY <2>1, <2>2, AnswerFields
<1>3. told \subseteq AnswerRows /\ over \subseteq AnswerRows
  BY DEF NetTypes
<1>4. QED BY <1>1, <1>2, <1>3

LEMMA DesertTypes ==
  ASSUME TypeInv, UNCHANGED orderTable, NEW told, told \subseteq replies, NEW over, over \subseteq settling,
         wire' = Deserted(wire), replies' = DesertedAnswers(told), settling' = DesertedAnswers(over)
  PROVE  NetTypes'
<1>1. /\ \A c \in wire' : \E d \in wire : Same(c, d)
      /\ replies' \subseteq AnswerRows /\ settling' \subseteq AnswerRows
      /\ \A a \in replies' : \E b \in told :
           Same(a.call, b.call) /\ a.ok = b.ok /\ a.order = b.order /\ a.copy = b.copy
      /\ \A a \in settling' : \E b \in over :
           Same(a.call, b.call) /\ a.ok = b.ok /\ a.order = b.order /\ a.copy = b.copy
  <2>1. NetTypes
    BY DEF TypeInv
  <2>2. QED BY <2>1, DesertedCalls
<1>2. \A a \in settling' : a.ok
  BY <1>1 DEF TypeInv, NetTypes
<1>3. OrderTypes' /\ Grows
  BY OrdersStay
<1>4. \A a \in replies' \cup settling' : \E b \in replies \cup settling :
        Same(a.call, b.call) /\ a.ok = b.ok /\ a.order = b.order /\ a.copy = b.copy
  BY <1>1
<1>5. \A c \in wire' : \E d \in wire : c = d \/ Same(c, d)
  BY <1>1
<1>6. \A a \in replies' \cup settling' : \E b \in replies \cup settling :
        /\ a.call = b.call \/ Same(a.call, b.call)
        /\ a.ok = b.ok /\ a.order = b.order /\ a.copy = b.copy
  BY <1>4
<1>7. QED BY <1>1, <1>2, <1>3, <1>5, <1>6, NetStays

LEMMA UnansweredTypes ==
  ASSUME NetTypes
  PROVE  Unanswered \subseteq Nat
BY DEF NetTypes, Unanswered, CallRows, AnswerRows

\* Fewer calls and answers are of their kinds too.
LEMMA NetShrinks ==
  ASSUME TypeInv, UNCHANGED orderTable, wire' \subseteq wire, replies' \subseteq replies,
         settling' \subseteq settling \cup {a \in replies : a.ok}
  PROVE  NetTypes'
<1>1. OrderTypes' /\ Grows
  BY OrdersStay
<1>2. replies' \subseteq AnswerRows /\ settling' \subseteq AnswerRows /\ \A a \in settling' : a.ok
  BY DEF TypeInv, NetTypes
<1>3. QED BY <1>1, <1>2, NetStays

\* What the pages ask of the server
Asks(slot, kind, body) ==
  /\ slot \notin busy /\ slot \in Slots /\ kind \in CallKinds /\ body \in Contents \cup Statuses \cup {Null}
  /\ Mutate(slot, kind, body)
  /\ kind \in SaveKinds <=> slot = "save"
  /\ kind \in SaveKinds => body \in Contents
  /\ kind = "status" => body \in Statuses
  /\ IF kind = "create" THEN at = New ELSE at \in Known
  /\ UNCHANGED <<orderTable, cache, fetch, at, mode, draft, baseline, initialized, stored, drafting, ghosts, typed, events>>

SentCall(slot, kind, body) ==
  [kind |-> kind, slot |-> slot, order |-> at, body |-> body, live |-> TRUE, gone |-> FALSE,
   nth |-> calls, draft |-> IF kind = "create" THEN drafting ELSE 0]

LEMMA AsksEffect ==
  ASSUME TypeInv, NEW slot, NEW kind, NEW body, Asks(slot, kind, body)
  PROVE  \E c \in CallRows :
           /\ c.kind = kind /\ c.slot = slot /\ c.order = at /\ c.live /\ ~c.gone
           /\ c.draft = (IF kind = "create" THEN drafting ELSE 0) /\ Aimed(c)
           /\ wire' = wire \cup {c} /\ busy' = busy \cup {slot} /\ calls' = calls + 1
           /\ UNCHANGED <<replies, settling>>
<1> DEFINE c == SentCall(slot, kind, body)
<1>1. /\ slot \in Slots /\ kind \in CallKinds /\ body \in Contents \cup Statuses \cup {Null}
      /\ calls \in Nat /\ drafting \in Nat /\ at \in {New} \cup Ids
  BY Rows DEF Asks, TypeInv, DraftTypes, CountTypes
<1>2. c \in CallRows /\ c.kind = kind /\ c.slot = slot /\ c.order = at /\ c.body = body /\ c.live /\ ~c.gone
        /\ c.draft = (IF kind = "create" THEN drafting ELSE 0)
  BY <1>1 DEF SentCall, CallRows
<1>3. Aimed(c)
  <2> HIDE DEF c
  <2>1. QED BY <1>2 DEF Aimed, Asks
<1>4. wire' = wire \cup {c} /\ busy' = busy \cup {slot} /\ calls' = calls + 1 /\ UNCHANGED <<replies, settling>>
  BY DEF Asks, Mutate, SentCall
<1>5. QED BY <1>2, <1>3, <1>4

LEMMA AsksTypes ==
  ASSUME TypeInv, NEW slot, NEW kind, NEW body, Asks(slot, kind, body)
  PROVE  TypeInv' /\ Grows
<1>1. PICK c \in CallRows :
        /\ Aimed(c) /\ wire' = wire \cup {c} /\ busy' = busy \cup {slot} /\ calls' = calls + 1
        /\ UNCHANGED <<replies, settling>>
  BY AsksEffect
<1>2. UNCHANGED <<orderTable, cache, fetch, at, mode, draft, baseline, initialized, stored, drafting, ghosts, typed, events>>
        /\ slot \in Slots
  BY DEF Asks
<1>3. OrderTypes' /\ Known' = Known /\ Grows
  BY <1>2, OrdersStay
<1>4. NetTypes'
  <2>1. \A d \in wire' : d \in CallRows /\ Aimed(d)'
    BY <1>1, <1>3, SameAimed DEF TypeInv, NetTypes
  <2>2. \A b \in replies \cup settling : b \in AnswerRows /\ Aimed(b.call)' /\ Granted(b)'
    BY <1>2, <1>3, SameAimed DEF TypeInv, NetTypes, Granted
  <2>3. QED BY <1>1, <2>1, <2>2 DEF NetTypes, TypeInv
<1>5. PageTypes'
  BY <1>1, <1>2, <1>3 DEF TypeInv, PageTypes, Shown
<1>6. CountTypes'
  BY <1>1, <1>2 DEF TypeInv, CountTypes
<1>7. QED BY <1>2, <1>3, <1>4, <1>5, <1>6, RestStays DEF TypeInv

LEMMA SaveAsks ==
  ASSUME TypeInv, SaveOrder \/ SendStatus \/ SendInvoice
  PROVE  \E slot, kind, body : Asks(slot, kind, body) /\ (kind = "create" => mode # Null /\ Buildable(draft))
<1>1. Shown => at \in Known
  <2>1. at \in Ids => at # New /\ at # Elsewhere
    BY Pages
  <2>2. QED BY <2>1 DEF Shown, TypeInv, PageTypes
<1>2. CASE SaveOrder
  <2> DEFINE kind == IF at = New THEN "create" ELSE IF mode = "customer" THEN "customer" ELSE "update"
  <2>1. mode # Null /\ Buildable(draft) /\ Mutate("save", kind, draft) /\ "save" \notin busy
          /\ UNCHANGED <<orderTable, cache, fetch, at, mode, draft, baseline, initialized, stored, drafting, ghosts, typed, events>>
    BY <1>2 DEF SaveOrder, Mutate
  <2>2. kind \in SaveKinds /\ (IF kind = "create" THEN at = New ELSE at \in Known)
    BY <1>1, <2>1 DEF SaveKinds, TypeInv, PageTypes
  <2>3. draft \in Contents
    BY DEF TypeInv, PageTypes
  <2> HIDE DEF kind
  <2>4. Asks("save", kind, draft)
    BY <2>1, <2>2, <2>3 DEF Asks, SaveKinds, CallKinds, Slots
  <2>5. QED BY <2>1, <2>4
<1>3. CASE SendStatus
  <2>1. PICK s \in NextOrderStatuses(cache[at].status) : Mutate("status", "status", s)
    BY <1>3 DEF SendStatus
  <2>2. s \in Statuses /\ at \in Known
    BY <1>1, <1>3, NextTypes DEF SendStatus
  <2>3. Asks("status", "status", s)
    BY <1>3, <2>1, <2>2 DEF SendStatus, Asks, Mutate, SaveKinds, CallKinds, Slots
  <2>4. QED BY <2>3
<1>4. CASE SendInvoice
  <2>1. Asks("invoice", "invoice", Null)
    BY <1>1, <1>4 DEF SendInvoice, Asks, Mutate, SaveKinds, CallKinds, Slots
  <2>2. QED BY <2>1
<1>5. QED BY <1>2, <1>3, <1>4

\* A copy of an order comes to the cache, and to the editor if it had none.
LEMMA FillTypes ==
  ASSUME TypeInv, NEW n \in Known, NEW copy \in Copies, cache' \in {cache, [cache EXCEPT ![n] = copy]},
         IF at = n /\ ~initialized THEN Initialized(copy) ELSE UNCHANGED <<initialized, draft, baseline>>,
         UNCHANGED <<at, mode, busy>>, Known' = Known
  PROVE  cache' \in [Ids -> Copies \cup {Null}] /\ PageTypes'
<1>1. cache \in [Ids -> Copies \cup {Null}] /\ n \in Ids /\ copy # Null /\ copy.content \in Contents
  BY Rows, NoneAssumption DEF TypeInv, CacheTypes, Copies
<1>2. cache' \in [Ids -> Copies \cup {Null}]
  BY <1>1
<1>3. draft' \in Contents /\ baseline' \in Contents /\ initialized' \in BOOLEAN /\ (initialized => initialized')
        /\ (at = n => initialized')
  BY <1>1 DEF TypeInv, PageTypes, Initialized
<1>4. Shown => Shown'
  BY <1>1 DEF Shown
<1>5. Shown' => Shown \/ at = n
  BY <1>1 DEF Shown
<1>6. QED BY <1>2, <1>3, <1>4, <1>5 DEF TypeInv, PageTypes

LEMMA ReleasedTypes == ASSUME PageTypes, NEW c PROVE Released(c) \subseteq Slots
BY DEF Released, PageTypes

LEMMA FieldsTypes ==
  ASSUME draft \in Contents, typed \in Nat, typed < MaxEdits, mode \in {"full", "customer"} \/ at = New,
         NEW form \in Fields(typed + 1)
  PROVE  form \in Contents
<1>1. typed + 1 \in 0..MaxEdits + 1
  BY BoundsAssumption
<1>2. TypedCustomer(draft, typed + 1) \in Contents /\ TypedItems(draft, typed + 1) \in Contents
  BY <1>1 DEF Contents, TypedCustomer, TypedItems
<1>3. form \in {TypedCustomer(draft, typed + 1), TypedItems(draft, typed + 1)}
  <2>1. CASE at = New
    BY <2>1 DEF Fields
  <2>2. CASE at # New /\ mode = "full"
    BY <2>2 DEF Fields
  <2>3. CASE at # New /\ mode = "customer"
    BY <2>3 DEF Fields
  <2>4. QED BY <2>1, <2>2, <2>3
<1>4. QED BY <1>2, <1>3

\* The page is left, also for that of an order that was created.
LEMMA GoTypes ==
  ASSUME TypeInv, NEW p \in {Elsewhere} \cup Known, NEW a \in settling, GoTo(p), UNCHANGED <<orderTable, cache, typed, calls, events>>,
         wire' = Deserted(wire), replies' = DesertedAnswers(replies), settling' = DesertedAnswers(settling \ {a}),
         unsure' \subseteq unsure \cup Unanswered, late' \in BOOLEAN, stored' \in Contents, drafting' \in Nat
  PROVE  TypeInv'
<1>1. OrderTypes' /\ Known' = Known
  BY OrdersStay
<1>2. NetTypes'
  BY DesertTypes
<1>3. CacheTypes' /\ acked' = 0
  BY FetchTypes DEF TypeInv, CacheTypes, GoTo
<1>4. PageTypes'
  BY <1>1, MountTypes, ContentTypes DEF GoTo, TypeInv, CacheTypes
<1>5. DraftTypes' /\ CountTypes'
  BY <1>3, UnansweredTypes DEF TypeInv, DraftTypes, CountTypes
<1>6. QED BY <1>1, <1>2, <1>3, <1>4, <1>5 DEF TypeInv

LEMMA DeliverTypes ==
  ASSUME TypeInv, NEW a \in replies, Deliver(a)
  PROVE  TypeInv'
<1>1. a \in AnswerRows /\ a.ok /\ a.order \in Known /\ a.copy \in Copies /\ a.copy.rev \in Nat
  BY DEF TypeInv, NetTypes, Deliver, Granted, Copies
<1>2. /\ replies' = replies \ {a} /\ settling' = settling \cup {a}
      /\ cache' \in {cache, [cache EXCEPT ![a.order] = a.copy]} /\ fetch' \in {fetch, Invalidated(fetch)}
      /\ acked' \in {acked, a.copy.rev}
      /\ IF at = a.order /\ ~initialized THEN Initialized(a.copy) ELSE UNCHANGED <<initialized, draft, baseline>>
      /\ UNCHANGED <<orderTable, wire, at, mode, busy, stored, drafting, late, unsure, typed, calls, events>>
  BY DEF Deliver
<1>3. OrderTypes' /\ Known' = Known
  BY <1>2, OrdersStay
<1>4. NetTypes'
  BY <1>1, <1>2, NetShrinks
<1>5. cache' \in [Ids -> Copies \cup {Null}] /\ PageTypes'
  BY <1>1, <1>2, <1>3, FillTypes
<1>6. fetch' \in [Ids -> Copies \cup {Null, Sent}]
  BY <1>2 DEF TypeInv, CacheTypes, Invalidated
<1>7. DraftTypes' /\ CountTypes'
  BY <1>1, <1>2 DEF TypeInv, DraftTypes, CountTypes
<1>8. QED BY <1>3, <1>4, <1>5, <1>6, <1>7 DEF TypeInv, CacheTypes

LEMMA ReloadTypes ==
  ASSUME TypeInv, Reload
  PROVE  TypeInv'
<1>1. /\ events' = events + 1 /\ wire' = {[c EXCEPT !.gone = TRUE] : c \in wire} /\ replies' = {} /\ settling' = {}
      /\ unsure' = unsure \cup Unanswered /\ cache' = [n \in Ids |-> Null] /\ Mount(at, cache', stored)
      /\ fetch' = MountedFetch(at, [n \in Ids |-> Null]) /\ acked' = 0 /\ late' = FALSE
      /\ UNCHANGED <<orderTable, stored, drafting, typed, calls>>
  BY DEF Reload
<1>2. OrderTypes' /\ Known' = Known /\ Grows
  BY <1>1, OrdersStay
<1>3. \A c \in wire' : \E d \in wire : Same(c, d)
  <2>1. ASSUME NEW d \in wire
        PROVE  Same([d EXCEPT !.gone = TRUE], d)
    BY CallFields DEF TypeInv, NetTypes
  <2>2. QED BY <1>1, <2>1
<1>4. NetTypes'
  <2>1. \A c \in wire' : \E d \in wire : c = d \/ Same(c, d)
    BY <1>3
  <2>2. QED BY <1>1, <1>2, <2>1, NetStays
<1>5. [n \in Ids |-> Null] \in [Ids -> Copies \cup {Null}] /\ [n \in Ids |-> Null] \in [Ids -> Copies \cup {Null, Sent}]
  OBVIOUS
<1>6. CacheTypes'
  <2>1. MountedFetch(at, [n \in Ids |-> Null]) \in [Ids -> Copies \cup {Null, Sent}]
    BY <1>5, FetchTypes
  <2>2. QED BY <1>1, <1>5, <2>1 DEF CacheTypes
<1>7. PageTypes'
  <2>1. PICK copies \in [Ids -> Copies \cup {Null}] : cache' = copies
    BY <1>1, <1>5
  <2>2. Mount(at, copies, stored)
    BY <1>1, <2>1
  <2>3. QED BY <1>2, <2>1, <2>2, MountTypes DEF TypeInv, PageTypes, DraftTypes
<1>8. DraftTypes' /\ CountTypes'
  <2>1. Unanswered \subseteq Nat
    BY UnansweredTypes DEF TypeInv
  <2>2. late' \in BOOLEAN
    BY <1>1, Zenon
  <2>3. QED BY <1>1, <2>1, <2>2 DEF TypeInv, DraftTypes, CountTypes
<1>9. QED BY <1>2, <1>4, <1>6, <1>7, <1>8 DEF TypeInv

LEMMA LoseTypes ==
  ASSUME TypeInv, Lose
  PROVE  TypeInv'
<1>1. /\ events' = events + 1
      /\ UNCHANGED <<orderTable, settling, cache, fetch, at, mode, draft, baseline, initialized, stored, drafting, acked, late, typed, calls>>
  BY DEF Lose
<1>2. OrderTypes' /\ Known' = Known /\ Grows
  BY <1>1, OrdersStay
<1>3. /\ \E c \in CallRows : busy' = Released(c) /\ unsure' = unsure \cup {c.draft}
      /\ NetTypes'
  <2>1. ASSUME NEW c \in wire, wire' \in {wire \ {c}, (wire \ {c}) \cup {[c EXCEPT !.gone = TRUE]}}, replies' = replies
        PROVE  NetTypes'
    <3>1. Same([c EXCEPT !.gone = TRUE], c)
      BY CallFields DEF TypeInv, NetTypes
    <3>2. \A e \in wire' : \E d \in wire : e = d \/ Same(e, d)
      BY <2>1, <3>1
    <3>3. QED BY <1>1, <1>2, <2>1, <3>2, NetStays DEF TypeInv, NetTypes
  <2>2. ASSUME NEW a \in replies, replies' = replies \ {a}, wire' = wire
        PROVE  NetTypes'
    BY <1>1, <2>2, NetShrinks
  <2>3. \A c \in wire : c \in CallRows
    BY DEF TypeInv, NetTypes
  <2>4. \A a \in replies : a.call \in CallRows
    BY DEF TypeInv, NetTypes, AnswerRows
  <2>5. QED BY <2>1, <2>2, <2>3, <2>4 DEF Lose
<1>4. busy' \subseteq Slots /\ unsure' \subseteq Nat
  BY <1>3, ReleasedTypes DEF TypeInv, DraftTypes, CallRows
<1>5. PageTypes' /\ CacheTypes'
  BY <1>1, <1>2, <1>4 DEF TypeInv, PageTypes, CacheTypes, Shown
<1>6. DraftTypes' /\ CountTypes'
  BY <1>1, <1>4 DEF TypeInv, DraftTypes, CountTypes
<1>7. QED BY <1>2, <1>3, <1>5, <1>6 DEF TypeInv

LEMMA SettledTypes ==
  ASSUME TypeInv, NEW a \in settling, Created(a) \/ Updated(a) \/ StatusChanged(a) \/ Invoiced(a)
  PROVE  TypeInv'
<1>1. a \in AnswerRows /\ a.ok /\ a.order \in Known /\ a.copy.content \in Contents /\ calls \in Nat
  BY DEF TypeInv, NetTypes, Granted, Copies, CountTypes
<1>2. /\ UNCHANGED <<orderTable, cache, typed, calls, events>>
      /\ stored' \in {stored, Empty} /\ drafting' \in {drafting, calls + 1} /\ late' \in BOOLEAN
  <2>1. late \in BOOLEAN
    BY DEF TypeInv, DraftTypes
  <2>2. CASE Created(a)
    BY <2>1, <2>2 DEF Created, ghosts
  <2>3. CASE Updated(a) \/ StatusChanged(a) \/ Invoiced(a)
    BY <2>1, <2>3 DEF Updated, StatusChanged, Invoiced, ghosts
  <2>4. QED BY <2>2, <2>3
<1>3. stored' \in Contents /\ drafting' \in Nat
  BY <1>1, <1>2, ContentTypes DEF TypeInv, DraftTypes
<1>4. CASE \E p \in {Elsewhere, a.order} :
             /\ GoTo(p) /\ wire' = Deserted(wire) /\ replies' = DesertedAnswers(replies)
             /\ settling' = DesertedAnswers(settling \ {a}) /\ unsure' \subseteq unsure \cup Unanswered
  BY <1>1, <1>2, <1>3, <1>4, GoTypes
<1>5. CASE /\ settling' = settling \ {a} /\ busy' \in {busy, Released(a.call)}
           /\ UNCHANGED <<wire, replies, fetch, at, acked, unsure>>
           /\ \/ UNCHANGED <<mode, initialized, draft, baseline>>
              \/ mode' = Null /\ Initialized(a.copy)
  <2>1. OrderTypes' /\ Known' = Known
    BY <1>2, OrdersStay
  <2>2. NetTypes'
    BY <1>2, <1>5, NetShrinks
  <2>3. busy' \subseteq Slots
    BY <1>5, ReleasedTypes DEF TypeInv, PageTypes
  <2>4. PageTypes'
    <3>1. Shown' = Shown /\ at' \in {Elsewhere, New} \cup Known'
      BY <1>2, <1>5, <2>1 DEF TypeInv, PageTypes, Shown
    <3>2. CASE UNCHANGED <<mode, initialized, draft, baseline>>
      BY <2>3, <3>1, <3>2, <1>5 DEF TypeInv, PageTypes
    <3>3. CASE mode' = Null /\ Initialized(a.copy)
      BY <1>1, <2>3, <3>1, <3>3 DEF PageTypes, Initialized
    <3>4. QED BY <1>5, <3>2, <3>3
  <2>5. CacheTypes' /\ DraftTypes' /\ CountTypes'
    BY <1>2, <1>3, <1>5 DEF TypeInv, CacheTypes, DraftTypes, CountTypes
  <2>6. QED BY <2>1, <2>2, <2>4, <2>5 DEF TypeInv
<1>6. CASE Created(a)
  BY <1>4, <1>5, <1>6 DEF Created, page
<1>7. CASE Updated(a) \/ StatusChanged(a)
  BY <1>5, <1>7 DEF Updated, StatusChanged, ghosts
<1>8. CASE Invoiced(a)
  BY <1>4, <1>5, <1>8 DEF Invoiced, ghosts
<1>9. QED BY <1>6, <1>7, <1>8

\* The steps of the tab and of those around it
LEMMA StepKinds ==
  ASSUME TypeInv, [DeskNext]_deskVars
  PROVE  \/ \E c \in wire : Execute(c)
         \/ \E n \in Known : OtherWrites(n) \/ Refetch(n) \/ Read(n) \/ Arrive(n)
         \/ \E p \in Known \cup {New} : EnterPage(p)
         \/ Leave \/ ReturnToOrders \/ Reload \/ EditOrder \/ Type
         \/ \E slot, kind, body : Asks(slot, kind, body)
         \/ CancelEditing
         \/ \E a \in replies : Deliver(a) \/ Refused(a)
         \/ \E a \in settling : Created(a) \/ Updated(a) \/ StatusChanged(a) \/ Invoiced(a)
         \/ Lose
         \/ UNCHANGED deskVars
<1>1. CASE SaveOrder \/ SendStatus \/ SendInvoice
  BY <1>1, SaveAsks
<1>2. CASE UNCHANGED deskVars
  BY <1>2
<1>3. CASE DeskNext
  BY <1>1, <1>3 DEF DeskNext
<1>4. QED BY <1>2, <1>3

LEMMA LeaveTypes ==
  ASSUME TypeInv, NEW kept \in Contents, Mount(Elsewhere, cache, kept), Desert, acked' = 0, late' = FALSE,
         stored' \in Contents, drafting' \in Nat, UNCHANGED <<orderTable, cache, fetch, typed, calls, events>>
  PROVE  TypeInv'
<1>1. OrderTypes' /\ Known' = Known
  BY OrdersStay
<1>2. NetTypes'
  BY DesertTypes DEF Desert
<1>3. PageTypes'
  BY <1>1, MountTypes DEF TypeInv, CacheTypes
<1>4. unsure' \subseteq Nat
  BY UnansweredTypes DEF Desert, TypeInv, DraftTypes
<1>5. QED BY <1>1, <1>2, <1>3, <1>4 DEF TypeInv, CacheTypes, DraftTypes, CountTypes

LEMMA StepTypes ==
  ASSUME TypeInv, [DeskNext]_deskVars
  PROVE  TypeInv' /\ Grows
<1>1. ASSUME UNCHANGED orderTable
      PROVE  OrderTypes' /\ Known' = Known /\ Grows
  BY <1>1, OrdersStay
<1>2. ASSUME UNCHANGED <<orderTable, net>>
      PROVE  NetTypes'
  <2>1. wire' = wire /\ replies' = replies /\ settling' = settling /\ orderTable' = orderTable
    BY <1>2 DEF net
  <2>2. QED BY <2>1, NetShrinks
<1>3. stored \in Contents /\ drafting \in Nat /\ calls + 1 \in Nat
  BY DEF TypeInv, DraftTypes, CountTypes
<1>4. ASSUME NEW n \in Known, Refetch(n) \/ Read(n)
      PROVE  TypeInv' /\ Grows
  <2>1. UNCHANGED <<orderTable, net, cache, page, stored, drafting, ghosts, typed, calls, events>>
          /\ fetch' \in {[fetch EXCEPT ![n] = Sent], [fetch EXCEPT ![n] = Copy(n)]}
    BY <1>4 DEF Refetch, Read
  <2>2. Copy(n) \in Copies
    BY Rows DEF TypeInv
  <2>3. CacheTypes'
    BY <2>1, <2>2 DEF TypeInv, CacheTypes
  <2>4. QED BY <1>1, <1>2, <2>1, <2>3, RestStays DEF TypeInv
<1>5. ASSUME NEW n \in Known, Arrive(n)
      PROVE  TypeInv' /\ Grows
  <2>1. /\ fetch[n] \notin {Null, Sent} /\ cache' = [cache EXCEPT ![n] = fetch[n]] /\ fetch' = [fetch EXCEPT ![n] = Null]
        /\ IF at = n /\ ~initialized THEN Initialized(fetch[n]) ELSE UNCHANGED <<initialized, draft, baseline>>
        /\ UNCHANGED <<orderTable, net, at, mode, busy, stored, drafting, ghosts, typed, calls, events>>
    BY <1>5 DEF Arrive
  <2>2. fetch[n] \in Copies
    BY <2>1, Rows DEF TypeInv, CacheTypes
  <2>3. cache' \in [Ids -> Copies \cup {Null}] /\ PageTypes'
    BY <1>1, <2>1, <2>2, FillTypes
  <2>4. CacheTypes'
    BY <2>1, <2>3 DEF TypeInv, CacheTypes
  <2>5. QED BY <1>1, <1>2, <2>1, <2>3, <2>4, RestStays DEF TypeInv
<1>6. ASSUME NEW p \in Known \cup {New}, EnterPage(p)
      PROVE  TypeInv' /\ Grows
  <2>1. /\ Mount(p, cache, stored) /\ fetch' = MountedFetch(p, fetch) /\ acked' = 0
        /\ UNCHANGED <<orderTable, net, cache, stored, drafting, late, unsure, typed, calls, events>>
    BY <1>6 DEF EnterPage
  <2>2. PageTypes'
    BY <1>1, <1>3, <2>1, MountTypes DEF TypeInv, CacheTypes
  <2>3. CacheTypes'
    BY <2>1, FetchTypes DEF TypeInv, CacheTypes
  <2>4. DraftTypes'
    BY <2>1 DEF TypeInv, DraftTypes
  <2>5. QED BY <1>1, <1>2, <2>1, <2>2, <2>3, <2>4, RestStays DEF TypeInv
<1>7. CASE Leave \/ ReturnToOrders
  <2>1. /\ Mount(Elsewhere, cache, stored) /\ Desert /\ acked' = 0 /\ late' = FALSE
        /\ stored' \in {stored, Empty} /\ drafting' \in {drafting, calls + 1}
        /\ UNCHANGED <<orderTable, cache, fetch, typed, calls, events>>
    BY <1>7 DEF Leave, ReturnToOrders
  <2>2. QED BY <1>1, <1>3, <2>1, ContentTypes, LeaveTypes
<1>8. CASE CancelEditing
  <2>1. CASE at = New
    <3>1. /\ Mount(Elsewhere, cache, Empty) /\ Desert /\ acked' = 0 /\ late' = FALSE
          /\ stored' = Empty /\ drafting' = calls + 1
          /\ UNCHANGED <<orderTable, cache, fetch, typed, calls, events>>
      BY <1>8, <2>1 DEF CancelEditing
    <3>2. QED BY <1>1, <1>3, <3>1, ContentTypes, LeaveTypes
  <2>2. CASE at # New
    <3>1. /\ Shown /\ mode' = Null /\ draft' = cache[at].content /\ baseline' = cache[at].content
          /\ UNCHANGED <<net, at, initialized, busy, stored, drafting, ghosts, orderTable, cache, fetch, typed, calls, events>>
      BY <1>8, <2>2 DEF CancelEditing
    <3>2. cache[at] \in Copies
      BY <3>1 DEF Shown, TypeInv, CacheTypes
    <3>3. PageTypes'
      BY <1>1, <3>1, <3>2 DEF TypeInv, PageTypes, Shown, Copies
    <3>4. QED BY <1>1, <1>2, <3>1, <3>3, RestStays DEF TypeInv
  <2>3. QED BY <2>1, <2>2
<1>9. CASE EditOrder
  <2>1. /\ Shown /\ mode' \in {"full", "customer"}
        /\ UNCHANGED <<orderTable, net, cache, fetch, at, draft, baseline, initialized, busy, stored, drafting, ghosts, typed, calls, events>>
    BY <1>9 DEF EditOrder
  <2>2. PageTypes'
    BY <1>1, <2>1 DEF TypeInv, PageTypes, Shown
  <2>3. QED BY <1>1, <1>2, <2>1, <2>2, RestStays DEF TypeInv
<1>10. CASE Type
  <2>1. /\ mode # Null /\ typed < MaxEdits /\ typed' = typed + 1 /\ draft' \in Fields(typed + 1)
        /\ stored' = (IF at = New THEN draft' ELSE stored) /\ late' = FALSE
        /\ UNCHANGED <<orderTable, net, cache, fetch, at, mode, baseline, initialized, busy, drafting, acked, unsure, calls, events>>
    BY <1>10 DEF Type
  <2>2. draft \in Contents /\ typed \in Nat /\ mode \in {"full", "customer"}
    BY <2>1 DEF TypeInv, PageTypes, CountTypes
  <2>3. draft' \in Contents
    BY <2>1, <2>2, FieldsTypes
  <2>4. PageTypes'
    BY <1>1, <2>1, <2>3 DEF TypeInv, PageTypes, Shown
  <2>5. DraftTypes' /\ CountTypes'
    <3>1. late' \in BOOLEAN
      BY <2>1, Zenon
    <3>2. stored' \in Contents /\ UNCHANGED <<drafting, acked, unsure>>
      BY <2>1, <2>3 DEF TypeInv, DraftTypes
    <3>3. DraftTypes'
      BY <3>1, <3>2 DEF TypeInv, DraftTypes
    <3>4. CountTypes'
      BY <2>1, <2>2 DEF TypeInv, CountTypes
    <3>5. QED BY <3>3, <3>4
  <2>6. QED BY <1>1, <1>2, <2>1, <2>4, <2>5, RestStays DEF TypeInv
<1>11. ASSUME NEW a \in replies, Refused(a)
       PROVE  TypeInv' /\ Grows
  <2>1. /\ replies' = replies \ {a} /\ busy' = Released(a.call)
        /\ UNCHANGED <<orderTable, wire, settling, cache, fetch, at, mode, draft, baseline, initialized, stored, drafting, ghosts, typed, calls, events>>
    BY <1>11 DEF Refused
  <2>2. NetTypes'
    BY <2>1, NetShrinks
  <2>3. PageTypes'
    BY <1>1, <2>1, ReleasedTypes DEF TypeInv, PageTypes, Shown
  <2>4. QED BY <1>1, <2>1, <2>2, <2>3, RestStays DEF TypeInv
<1>12. ASSUME NEW a \in replies, Deliver(a)
       PROVE  TypeInv' /\ Grows
  BY <1>1, <1>12, DeliverTypes DEF Deliver
<1>13. ASSUME NEW a \in settling, Created(a) \/ Updated(a) \/ StatusChanged(a) \/ Invoiced(a)
       PROVE  TypeInv' /\ Grows
  BY <1>1, <1>13, SettledTypes DEF Created, Updated, StatusChanged, Invoiced
<1>14. CASE Reload
  BY <1>1, <1>14, ReloadTypes DEF Reload
<1>15. CASE Lose
  BY <1>1, <1>15, LoseTypes DEF Lose
<1>16. CASE UNCHANGED deskVars
  BY <1>1, <1>2, <1>16, RestStays DEF deskVars, TypeInv
<1>17. QED
  BY <1>4, <1>5, <1>6, <1>7, <1>8, <1>9, <1>10, <1>11, <1>12, <1>13, <1>14, <1>15, <1>16, StepKinds, ExecuteTypes,
     OtherTypes, AsksTypes

LEMMA Started ==
  ASSUME DeskInit
  PROVE  TypeInv /\ \A n \in Known : n = 1 /\ orderTable[n].draft = 0
<1>1. OrderTypes /\ \A n \in Known : n = 1 /\ orderTable[n].draft = 0
  <2>1. CASE orderTable = <<>>
    BY <2>1, BoundsAssumption DEF OrderTypes, Known
  <2>2. ASSUME NEW source \in Sources,
               orderTable = <<[source |-> source, status |-> "NEW", content |-> Empty, rev |-> 1, draft |-> 0]>>
        PROVE  OrderTypes /\ \A n \in Known : n = 1 /\ orderTable[n].draft = 0
    <3> DEFINE row == [source |-> source, status |-> "NEW", content |-> Empty, rev |-> 1, draft |-> 0]
    <3>1. row \in OrderRows /\ row.draft = 0
      BY ContentTypes DEF OrderRows, Statuses
    <3>2. orderTable = <<row>>
      BY <2>2
    <3> HIDE DEF row
    <3>3. orderTable \in Seq(OrderRows) /\ Len(orderTable) = 1 /\ orderTable[1] = row
      BY <3>1, <3>2
    <3>4. QED BY <3>1, <3>3, BoundsAssumption DEF OrderTypes, Known
  <2>3. QED BY <2>1, <2>2 DEF DeskInit, Sources
<1>2. CacheTypes
  BY DEF DeskInit, CacheTypes
<1>3. PageTypes
  BY Pages, ContentTypes DEF DeskInit, PageTypes, Shown
<1>4. NetTypes /\ DraftTypes /\ CountTypes
  BY ContentTypes DEF DeskInit, NetTypes, DraftTypes, CountTypes
<1>5. QED BY <1>1, <1>2, <1>3, <1>4 DEF TypeInv

(* The pages and the server hold orders, calls and answers of their kinds; what is
   asked of the server is about an order that was made, what it answers is an order
   as it was, and a form is open only on a page that has its order. *)
THEOREM DeskTypeCorrect == DeskSpec => []TypeInv
<1>1. DeskInit => TypeInv
  BY Started
<1>2. TypeInv /\ [DeskNext]_deskVars => TypeInv'
  BY StepTypes
<1>3. QED BY <1>1, <1>2, PTL DEF DeskSpec

-----------------------------------------------------------------------------
(* The page rests on its own writes *)

\* A write of the page is in the row, and any read the page waits for began after it.
AckedIsWritten == acked # 0 => at \in Known /\ acked <= orderTable[at].rev
ReadIsLater == at \in Ids /\ fetch[at] \notin {Null, Sent} => acked <= fetch[at].rev
RestInv == AckedIsWritten /\ ReadIsLater /\ RestsOnOwnWrites

\* A page that is opened has written nothing yet.
LEMMA RestFresh ==
  ASSUME TypeInv', acked' = 0
  PROVE  RestInv'
<1>1. \A n \in Ids : /\ cache'[n] # Null => cache'[n].rev \in Nat
                     /\ fetch'[n] \notin {Null, Sent} => fetch'[n].rev \in Nat
  BY DEF TypeInv, CacheTypes, Copies
<1>2. QED BY <1>1 DEF RestInv, AckedIsWritten, ReadIsLater, RestsOnOwnWrites, Shown

LEMMA RestStill ==
  ASSUME TypeInv, TypeInv', Grows, RestInv, UNCHANGED <<cache, fetch, at, acked>>
  PROVE  RestInv'
<1>1. at \in Known => orderTable[at].rev \in Nat /\ orderTable'[at].rev \in Nat /\ orderTable[at].rev <= orderTable'[at].rev
        /\ at \in Known'
  <2>1. at \in Known => at \in Known' /\ orderTable[at] \in OrderRows /\ orderTable'[at] \in OrderRows
    BY DEF Grows, TypeInv, OrderTypes, Known
  <2>2. QED BY <2>1 DEF Grows, OrderRows
<1>2. acked \in Nat
  BY DEF TypeInv, DraftTypes
<1>3. AckedIsWritten'
  BY <1>1, <1>2 DEF RestInv, AckedIsWritten
<1>4. ReadIsLater' /\ RestsOnOwnWrites'
  BY DEF RestInv, ReadIsLater, RestsOnOwnWrites, Shown
<1>5. QED BY <1>3, <1>4 DEF RestInv

LEMMA QueryRests ==
  ASSUME TypeInv, TypeInv', RestInv, NEW n \in Known, Refetch(n) \/ Read(n) \/ Arrive(n)
  PROVE  RestInv'
<1>1. UNCHANGED <<orderTable, at, acked>> /\ n \in Ids /\ acked \in Nat
  BY Rows DEF Refetch, Read, Arrive, page, ghosts, TypeInv, DraftTypes
<1>2. AckedIsWritten'
  BY <1>1 DEF RestInv, AckedIsWritten, Known
<1>3. ReadIsLater' /\ RestsOnOwnWrites'
  <2>1. fetch \in [Ids -> Copies \cup {Null, Sent}] /\ cache \in [Ids -> Copies \cup {Null}]
    BY DEF TypeInv, CacheTypes
  <2>2. CASE Refetch(n)
    <3>1. fetch' = [fetch EXCEPT ![n] = Sent] /\ cache' = cache
      BY <2>2 DEF Refetch
    <3>2. QED BY <1>1, <2>1, <3>1 DEF RestInv, ReadIsLater, RestsOnOwnWrites, Shown
  <2>3. CASE Read(n)
    <3>1. fetch' = [fetch EXCEPT ![n] = Copy(n)] /\ cache' = cache /\ Copy(n) # Null /\ Copy(n).rev = orderTable[n].rev
            /\ orderTable[n].rev \in Nat
      BY <2>3, Rows, NoneAssumption DEF Read, TypeInv, OrderRows
    <3>2. CASE n = at
      <4>1. acked <= Copy(n).rev
        BY <1>1, <3>1, <3>2 DEF RestInv, AckedIsWritten
      <4>2. fetch'[at] = Copy(n)
        BY <1>1, <2>1, <3>1, <3>2
      <4>3. QED BY <1>1, <3>1, <4>1, <4>2 DEF ReadIsLater, RestsOnOwnWrites
    <3>3. CASE n # at
      BY <1>1, <2>1, <3>1, <3>3 DEF RestInv, ReadIsLater, RestsOnOwnWrites, Shown
    <3>4. QED BY <3>2, <3>3
  <2>4. CASE Arrive(n)
    <3>1. fetch[n] \notin {Null, Sent} /\ cache' = [cache EXCEPT ![n] = fetch[n]] /\ fetch' = [fetch EXCEPT ![n] = Null]
      BY <2>4 DEF Arrive
    <3>2. CASE n = at
      <4>1. acked <= fetch[n].rev /\ fetch[n].rev \in Nat
        BY <1>1, <2>1, <3>1, <3>2 DEF RestInv, ReadIsLater, Copies
      <4>2. fetch'[at] = Null /\ cache'[at] = fetch[n]
        BY <1>1, <2>1, <3>1, <3>2
      <4>3. QED BY <1>1, <4>1, <4>2 DEF ReadIsLater, RestsOnOwnWrites
    <3>3. CASE n # at
      BY <1>1, <2>1, <3>1, <3>3 DEF RestInv, ReadIsLater, RestsOnOwnWrites, Shown
    <3>4. QED BY <3>2, <3>3
  <2>5. QED BY <2>2, <2>3, <2>4
<1>4. QED BY <1>2, <1>3 DEF RestInv

LEMMA DeliverRests ==
  ASSUME TypeInv, TypeInv', RestInv, NEW a \in replies, Deliver(a)
  PROVE  RestInv'
<1>1. a.order \in Known /\ a.order \in Ids /\ a.copy \in Copies /\ a.copy # Null /\ a.copy.rev \in Nat
        /\ a.copy.rev <= orderTable[a.order].rev
  BY Rows, NoneAssumption DEF TypeInv, NetTypes, Deliver, Granted, Copies
<1>2. /\ cache' = (IF a.call.kind = "invoice" THEN cache ELSE [cache EXCEPT ![a.order] = a.copy])
      /\ fetch' = (IF a.call.kind = "invoice" THEN fetch ELSE Invalidated(fetch))
      /\ acked' = (IF at = a.order /\ a.call.kind # "invoice" /\ a.copy.rev > acked THEN a.copy.rev ELSE acked)
      /\ UNCHANGED <<orderTable, at>>
  BY DEF Deliver
<1>3. acked \in Nat /\ fetch \in [Ids -> Copies \cup {Null, Sent}] /\ cache \in [Ids -> Copies \cup {Null}]
  BY DEF TypeInv, CacheTypes, DraftTypes
<1>4. CASE a.call.kind = "invoice"
  BY <1>2, <1>4, RestStill, OrdersStay
<1>5. CASE a.call.kind # "invoice" /\ at = a.order
  <2>1. cache'[at] = a.copy /\ fetch'[at] = Sent
    BY <1>1, <1>2, <1>3, <1>5 DEF Invalidated
  <2>2. acked' \in {acked, a.copy.rev}
    BY <1>2
  <2>3. AckedIsWritten'
    BY <1>1, <1>2, <1>3, <1>5, <2>2 DEF RestInv, AckedIsWritten, Known
  <2>4. QED BY <1>2, <2>1, <2>3 DEF RestInv, ReadIsLater, RestsOnOwnWrites
<1>6. CASE a.call.kind # "invoice" /\ at # a.order
  <2>1. acked' = acked
    BY <1>2, <1>6
  <2>2. at \in Ids => cache'[at] = cache[at] /\ fetch'[at] \in {fetch[at], Sent}
    BY <1>1, <1>2, <1>3, <1>6 DEF Invalidated
  <2>3. AckedIsWritten'
    BY <1>2, <2>1 DEF RestInv, AckedIsWritten, Known
  <2>4. ReadIsLater' /\ RestsOnOwnWrites'
    BY <1>2, <2>1, <2>2 DEF RestInv, ReadIsLater, RestsOnOwnWrites, Shown
  <2>5. QED BY <2>3, <2>4 DEF RestInv
<1>7. QED BY <1>4, <1>5, <1>6

LEMMA StepRests ==
  ASSUME TypeInv, RestInv, [DeskNext]_deskVars
  PROVE  RestInv'
<1>1. TypeInv' /\ Grows
  BY StepTypes
<1>2. ASSUME UNCHANGED <<cache, fetch, at, acked>>
      PROVE  RestInv'
  BY <1>1, <1>2, RestStill
<1>3. ASSUME acked' = 0
      PROVE  RestInv'
  BY <1>1, <1>3, RestFresh
<1>4. ASSUME \E p : GoTo(p)
      PROVE  RestInv'
  BY <1>3, <1>4 DEF GoTo
<1>5. CASE \E c \in wire : Execute(c)
  BY <1>2, <1>5 DEF Execute, page, ghosts
<1>6. CASE \E n \in Known : OtherWrites(n)
  BY <1>2, <1>6 DEF OtherWrites, page, ghosts
<1>7. CASE \E p \in Known \cup {New} : EnterPage(p)
  BY <1>3, <1>7 DEF EnterPage
<1>8. CASE Leave \/ ReturnToOrders \/ Reload
  BY <1>3, <1>8 DEF Leave, ReturnToOrders, Reload
<1>9. CASE CancelEditing
  BY <1>2, <1>3, <1>9 DEF CancelEditing, ghosts
<1>10. CASE EditOrder \/ Type
  BY <1>2, <1>10 DEF EditOrder, Type, ghosts
<1>11. CASE \E slot, kind, body : Asks(slot, kind, body)
  BY <1>2, <1>11 DEF Asks, ghosts
<1>12. CASE \E a \in replies : Refused(a)
  BY <1>2, <1>12 DEF Refused, ghosts
<1>13. CASE \E a \in settling : Created(a) \/ Updated(a) \/ StatusChanged(a) \/ Invoiced(a)
  BY <1>2, <1>4, <1>13 DEF Created, Updated, StatusChanged, Invoiced, ghosts, page
<1>14. CASE Lose \/ UNCHANGED deskVars
  BY <1>2, <1>14 DEF Lose, deskVars, ghosts, page
<1>15. QED
  BY <1>1, <1>5, <1>6, <1>7, <1>8, <1>9, <1>10, <1>11, <1>12, <1>13, <1>14, StepKinds, QueryRests, DeliverRests

(* The page never rests on a copy of its order older than a change it has made and
   seen confirmed: a read that began after that change is under way. *)
THEOREM RestsOnItsWrites == DeskSpec => []RestsOnOwnWrites
<1>1. DeskInit => TypeInv /\ RestInv
  BY Started DEF DeskInit, RestInv, AckedIsWritten, ReadIsLater, RestsOnOwnWrites, Shown
<1>2. TypeInv /\ RestInv /\ [DeskNext]_deskVars => TypeInv' /\ RestInv'
  BY StepTypes, StepRests
<1>3. RestInv => RestsOnOwnWrites
  BY DEF RestInv
<1>4. QED BY <1>1, <1>2, <1>3, PTL DEF DeskSpec

-----------------------------------------------------------------------------
(* What is typed stays *)

\* The live calls are those of the page that is shown.
HereInv ==
  /\ \A c \in wire : c.live => c.order = at
  /\ \A a \in replies \cup settling : a.call.live => a.call.order = at

\* Calls that go on, on a page that goes on.
LEMMA HereStays ==
  ASSUME HereInv, at' = at,
         \A c \in wire' : c.live => c.order = at \/ \E d \in wire : d.live /\ d.order = c.order,
         \A a \in replies' \cup settling' : a.call.live =>
           \/ \E b \in replies \cup settling : b.call.live /\ b.call.order = a.call.order
           \/ \E d \in wire : d.live /\ d.order = a.call.order
  PROVE  HereInv'
BY DEF HereInv

LEMMA DesertedHere ==
  ASSUME TypeInv, NEW told, told \subseteq replies, NEW over, over \subseteq settling,
         wire' = Deserted(wire), replies' = DesertedAnswers(told), settling' = DesertedAnswers(over)
  PROVE  HereInv'
BY DesertedCalls DEF TypeInv, HereInv

\* Away from the orders no call is live.
LEMMA AwayIdle ==
  ASSUME TypeInv, HereInv, at = Elsewhere
  PROVE  (\A c \in wire : ~c.live) /\ \A a \in replies \cup settling : ~a.call.live
<1>1. \A c \in CallRows : c.order # Elsewhere
  BY Pages DEF CallRows
<1>2. \A a \in AnswerRows : a.call.order # Elsewhere
  BY <1>1 DEF AnswerRows
<1>3. QED BY <1>1, <1>2 DEF HereInv, TypeInv, NetTypes

LEMMA StepHere ==
  ASSUME TypeInv, HereInv, [DeskNext]_deskVars
  PROVE  HereInv'
<1>1. ASSUME UNCHANGED <<net, at>>
      PROVE  HereInv'
  BY <1>1 DEF net, HereInv
<1>2. ASSUME wire' \subseteq wire, replies' \cup settling' \subseteq replies \cup settling, at' = at
      PROVE  HereInv'
  BY <1>2 DEF HereInv
<1>3. ASSUME NEW c \in wire, Execute(c)
      PROVE  HereInv'
  <2>1. wire' \subseteq wire /\ settling' = settling /\ at' = at
    BY <1>3 DEF Execute, page
  <2>2. \A a \in replies' : a \in replies \/ a.call = c
    BY <1>3, ExecuteEffect DEF AnswerTo
  <2>3. QED BY <2>1, <2>2, HereStays DEF HereInv
<1>4. CASE \E n \in Known : OtherWrites(n) \/ Refetch(n) \/ Read(n) \/ Arrive(n)
  BY <1>1, <1>4 DEF OtherWrites, Refetch, Read, Arrive, page
<1>5. ASSUME NEW p \in Known \cup {New}, EnterPage(p)
      PROVE  HereInv'
  <2>1. at = Elsewhere /\ wire' = wire /\ replies' = replies /\ settling' = settling
    BY <1>5 DEF EnterPage, net
  <2>2. QED BY <2>1, AwayIdle DEF HereInv
<1>6. ASSUME Desert
      PROVE  HereInv'
  BY <1>6, DesertedHere DEF Desert
<1>7. CASE Leave \/ ReturnToOrders
  BY <1>6, <1>7 DEF Leave, ReturnToOrders
<1>8. CASE Reload
  <2>1. wire' = {[c EXCEPT !.gone = TRUE] : c \in wire} /\ replies' = {} /\ settling' = {} /\ at' = at
    BY <1>8 DEF Reload, Mount
  <2>2. \A c \in wire' : \E d \in wire : c.order = d.order /\ c.live = d.live
    <3>1. ASSUME NEW d \in wire
          PROVE  [d EXCEPT !.gone = TRUE].order = d.order /\ [d EXCEPT !.gone = TRUE].live = d.live
      BY CallFields DEF TypeInv, NetTypes, Same
    <3>2. QED BY <2>1, <3>1
  <2>3. QED BY <2>1, <2>2, HereStays
<1>9. CASE EditOrder \/ Type
  BY <1>1, <1>9 DEF EditOrder, Type
<1>10. CASE CancelEditing
  BY <1>1, <1>6, <1>10 DEF CancelEditing
<1>11. ASSUME NEW slot, NEW kind, NEW body, Asks(slot, kind, body)
       PROVE  HereInv'
  <2>1. PICK c \in CallRows : c.order = at /\ wire' = wire \cup {c} /\ UNCHANGED <<replies, settling>>
    BY <1>11, AsksEffect
  <2>2. at' = at
    BY <1>11 DEF Asks
  <2>3. QED BY <2>1, <2>2 DEF HereInv
<1>12. ASSUME NEW a \in replies, Deliver(a) \/ Refused(a)
       PROVE  HereInv'
  BY <1>2, <1>12 DEF Deliver, Refused
<1>13. ASSUME NEW a \in settling, Created(a) \/ Updated(a) \/ StatusChanged(a) \/ Invoiced(a)
       PROVE  HereInv'
  <2>1. CASE wire' = Deserted(wire) /\ replies' = DesertedAnswers(replies) /\ settling' = DesertedAnswers(settling \ {a})
    BY <2>1, DesertedHere
  <2>2. CASE wire' = wire /\ replies' = replies /\ settling' = settling \ {a} /\ at' = at
    BY <1>2, <2>2
  <2>3. QED BY <1>13, <2>1, <2>2 DEF Created, Updated, StatusChanged, Invoiced, page
<1>14. CASE Lose
  <2>1. at' = at /\ settling' = settling
    BY <1>14 DEF Lose
  <2>2. ASSUME NEW c \in wire, wire' \in {wire \ {c}, (wire \ {c}) \cup {[c EXCEPT !.gone = TRUE]}}, replies' = replies
        PROVE  HereInv'
    <3>1. [c EXCEPT !.gone = TRUE].order = c.order /\ [c EXCEPT !.gone = TRUE].live = c.live
      BY CallFields DEF TypeInv, NetTypes, Same
    <3>2. \A e \in wire' : \E d \in wire : e.order = d.order /\ e.live = d.live
      BY <2>2, <3>1
    <3>3. QED BY <2>1, <2>2, <3>2, HereStays
  <2>3. ASSUME NEW a \in replies, replies' = replies \ {a}, wire' = wire
        PROVE  HereInv'
    BY <1>2, <2>1, <2>3
  <2>4. QED BY <1>14, <2>2, <2>3 DEF Lose
<1>15. CASE UNCHANGED deskVars
  BY <1>1, <1>15 DEF deskVars, page
<1>16. QED
  BY <1>3, <1>4, <1>5, <1>7, <1>8, <1>9, <1>10, <1>11, <1>12, <1>13, <1>14, <1>15, StepKinds

\* A page whose form is open has its order, so that no answer fills the form again.
LEMMA Filled ==
  ASSUME TypeInv, mode # Null
  PROVE  /\ at = New \/ (at \in Known /\ initialized)
         /\ at # Elsewhere /\ (at = New => at \notin Ids)
<1>1. at \in Ids => at # Elsewhere /\ at # New
  BY Pages
<1>2. QED BY <1>1, Pages DEF TypeInv, PageTypes, Shown

\* No step replaces the draft of a new order under the eyes of its writer.
LEMMA StepSurvives ==
  ASSUME TypeInv, HereInv, DraftSurvives, [DeskNext]_deskVars
  PROVE  DraftSurvives'
<1>1. ASSUME UNCHANGED <<at, late, stored, draft>>
      PROVE  DraftSurvives'
  BY <1>1 DEF DraftSurvives
<1>2. ASSUME at # New, at' = at
      PROVE  DraftSurvives'
  BY <1>2 DEF DraftSurvives
<1>3. ASSUME NEW p, NEW copies, NEW kept, Mount(p, copies, kept), p # New \/ stored' = kept
      PROVE  DraftSurvives'
  BY <1>3 DEF Mount, DraftSurvives
<1>4. \A n \in Known : n # New
  BY Rows, Pages DEF TypeInv
<1>5. CASE \E c \in wire : Execute(c)
  BY <1>1, <1>5 DEF Execute, page, ghosts
<1>6. ASSUME NEW n \in Known, OtherWrites(n) \/ Refetch(n) \/ Read(n)
      PROVE  DraftSurvives'
  BY <1>1, <1>6 DEF OtherWrites, Refetch, Read, page, ghosts
<1>7. ASSUME NEW n \in Known, Arrive(n)
      PROVE  DraftSurvives'
  BY <1>1, <1>2, <1>4, <1>7 DEF Arrive, ghosts
<1>8. CASE \E p \in Known \cup {New} : EnterPage(p)
  BY <1>3, <1>8 DEF EnterPage
<1>9. CASE Leave \/ ReturnToOrders \/ Reload
  BY <1>3, <1>9, MarksAssumption DEF Leave, ReturnToOrders, Reload
<1>10. CASE EditOrder
  BY <1>1, <1>10 DEF EditOrder, ghosts
<1>11. CASE Type
  BY <1>11 DEF Type, DraftSurvives
<1>12. CASE \E slot, kind, body : Asks(slot, kind, body)
  BY <1>1, <1>12 DEF Asks, ghosts
<1>13. CASE CancelEditing
  BY <1>2, <1>3, <1>13, MarksAssumption DEF CancelEditing
<1>14. ASSUME NEW a \in replies, Deliver(a) \/ Refused(a)
       PROVE  DraftSurvives'
  <2>1. CASE Deliver(a)
    <3>1. a.order # New
      BY <1>4, <2>1 DEF Deliver, TypeInv, NetTypes, Granted
    <3>2. QED BY <1>1, <1>2, <2>1, <3>1 DEF Deliver
  <2>2. CASE Refused(a)
    BY <1>1, <2>2 DEF Refused, ghosts
  <2>3. QED BY <1>14, <2>1, <2>2
<1>15. ASSUME NEW a \in settling, Created(a) \/ Updated(a) \/ StatusChanged(a) \/ Invoiced(a)
       PROVE  DraftSurvives'
  <2>1. a.order # New /\ (a.call.live /\ a.call.kind # "create" => at # New)
    BY <1>4 DEF TypeInv, NetTypes, Granted, HereInv, Aimed
  <2>2. CASE Created(a)
    <3>1. CASE GoTo(a.order)
      BY <1>3, <2>1, <3>1 DEF GoTo
    <3>2. CASE late' = (late \/ at = New) /\ UNCHANGED page
      <4>1. at' = New => late'
        BY <3>2 DEF page
      <4>2. QED BY <4>1 DEF DraftSurvives
    <3>3. QED BY <2>2, <3>1, <3>2 DEF Created
  <2>3. CASE Updated(a)
    BY <1>1, <1>2, <2>1, <2>3 DEF Updated, ghosts
  <2>4. CASE StatusChanged(a)
    BY <1>1, <2>4 DEF StatusChanged, ghosts
  <2>5. CASE Invoiced(a)
    BY <1>1, <1>3, <2>5, MarksAssumption DEF Invoiced, GoTo, ghosts
  <2>6. QED BY <1>15, <2>2, <2>3, <2>4, <2>5
<1>16. CASE Lose \/ UNCHANGED deskVars
  BY <1>1, <1>16 DEF Lose, deskVars, page, ghosts
<1>17. QED
  BY <1>5, <1>6, <1>7, <1>8, <1>9, <1>10, <1>11, <1>12, <1>13, <1>14, <1>15, <1>16, StepKinds

\* A form that stays open changes by typing only.
LEMMA StepKept ==
  ASSUME TypeInv, HereInv, DraftSurvives, [DeskNext]_deskVars, mode # Null, mode' # Null, at' = at, ~late
  PROVE  draft' = draft \/ typed' # typed
<1>1. ASSUME NEW p, NEW copies, NEW kept, Mount(p, copies, kept)
      PROVE  at = New /\ draft' = kept
  BY <1>1 DEF Mount
<1>2. at = New => stored = draft
  BY DEF DraftSurvives
<1>3. \A n \in Known : n # New /\ n # Elsewhere
  BY Rows, Pages DEF TypeInv
<1>4. at # Elsewhere /\ (at # New => initialized)
  BY Filled
<1>5. CASE \E c \in wire : Execute(c)
  BY <1>5 DEF Execute, page
<1>6. CASE \E n \in Known : OtherWrites(n) \/ Refetch(n) \/ Read(n)
  BY <1>6 DEF OtherWrites, Refetch, Read, page
<1>7. CASE \E n \in Known : Arrive(n)
  BY <1>3, <1>4, <1>7 DEF Arrive
<1>8. CASE \E p \in Known \cup {New} : EnterPage(p)
  BY <1>4, <1>8 DEF EnterPage
<1>9. CASE Leave \/ ReturnToOrders
  BY <1>4, <1>9 DEF Leave, ReturnToOrders, Mount
<1>10. CASE Reload
  BY <1>1, <1>2, <1>10 DEF Reload
<1>11. CASE EditOrder
  BY <1>11 DEF EditOrder
<1>12. CASE Type
  <2>1. typed \in Nat /\ typed' = typed + 1
    BY <1>12 DEF Type, TypeInv, CountTypes
  <2>2. QED BY <2>1
<1>13. CASE \E slot, kind, body : Asks(slot, kind, body)
  BY <1>13 DEF Asks
<1>14. CASE CancelEditing
  BY <1>4, <1>14 DEF CancelEditing, Mount
<1>15. ASSUME NEW a \in replies, Deliver(a) \/ Refused(a)
       PROVE  draft' = draft
  <2>1. CASE Deliver(a)
    <3>1. a.order # New
      BY <1>3, <2>1 DEF Deliver, TypeInv, NetTypes, Granted
    <3>2. QED BY <1>4, <2>1, <3>1 DEF Deliver
  <2>2. CASE Refused(a)
    BY <2>2 DEF Refused
  <2>3. QED BY <1>15, <2>1, <2>2
<1>16. ASSUME NEW a \in settling, Created(a) \/ Updated(a) \/ StatusChanged(a) \/ Invoiced(a)
       PROVE  draft' = draft
  <2>1. a.order # New /\ a.order # Elsewhere
    BY <1>3 DEF TypeInv, NetTypes, Granted
  <2>2. ASSUME NEW p, GoTo(p)
        PROVE  p = New
    BY <2>2 DEF GoTo, Mount
  <2>3. CASE Created(a)
    BY <2>1, <2>2, <2>3 DEF Created, page
  <2>4. CASE Updated(a) \/ StatusChanged(a)
    BY <2>4 DEF Updated, StatusChanged
  <2>5. CASE Invoiced(a)
    BY <2>2, <2>5, MarksAssumption DEF Invoiced
  <2>6. QED BY <1>16, <2>3, <2>4, <2>5
<1>17. CASE Lose \/ UNCHANGED deskVars
  BY <1>17 DEF Lose, deskVars, page
<1>18. QED
  BY <1>5, <1>6, <1>7, <1>8, <1>9, <1>10, <1>11, <1>12, <1>13, <1>14, <1>15, <1>16, <1>17, StepKinds

LEMMA HereStarts ==
  ASSUME DeskInit
  PROVE  TypeInv /\ HereInv /\ DraftSurvives
BY Started, MarksAssumption DEF DeskInit, HereInv, DraftSurvives

(* What is on the screen of the creation page is what a reload brings back, except
   after the answer to a creation that was left. *)
THEOREM DraftIsKept == DeskSpec => []DraftSurvives
<1>1. DeskInit => TypeInv /\ HereInv /\ DraftSurvives
  BY HereStarts
<1>2. TypeInv /\ HereInv /\ DraftSurvives /\ [DeskNext]_deskVars => TypeInv' /\ HereInv' /\ DraftSurvives'
  BY StepTypes, StepHere, StepSurvives
<1>3. QED BY <1>1, <1>2, PTL DEF DeskSpec

(* A form that stays open changes by typing only: neither a refetch, nor another
   administrator, nor the answer to an earlier call replaces what is in it. *)
THEOREM TypedStays == DeskSpec => TypedTextKept
<1>1. DeskInit => TypeInv /\ HereInv /\ DraftSurvives
  BY HereStarts
<1>2. TypeInv /\ HereInv /\ DraftSurvives /\ [DeskNext]_deskVars => TypeInv' /\ HereInv' /\ DraftSurvives'
  BY StepTypes, StepHere, StepSurvives
<1>3. TypeInv /\ HereInv /\ DraftSurvives /\ [DeskNext]_deskVars
        => [mode # Null /\ mode' # Null /\ at' = at /\ ~late => draft' = draft \/ typed' # typed]_deskVars
  BY StepKept
<1>4. QED BY <1>1, <1>2, <1>3, PTL DEF DeskSpec, TypedTextKept

-----------------------------------------------------------------------------
(* One order for a draft *)

\* The saves whose answer the page still awaits, and those it was told of
Awaited == {c \in wire : c.slot = "save" /\ c.live /\ ~c.gone}
Told == {a \in replies \cup settling : a.call.slot = "save" /\ a.call.live}
Made(d) == \E n \in Known : orderTable[n].draft = d

\* A draft is told by a number of its own; it is unsure unless its call is awaited.
CallNumbers ==
  \A c \in wire : c.kind = "create" => c.draft \in 1..calls /\ (c \in Awaited \/ c.draft \in unsure)
AnswerNumbers ==
  \A a \in replies \cup settling : a.call.kind = "create" =>
    a.call.draft \in 1..calls /\ (a \in Told \/ a.call.draft \in unsure)
DraftNumbers ==
  /\ drafting \in 1..calls + 1
  /\ \A n \in Known : orderTable[n].draft <= calls
  /\ CallNumbers /\ AnswerNumbers

\* One save is awaited at most.
OneAwaited ==
  /\ \A c, d \in Awaited : c = d
  /\ \A a, b \in Told : a = b
  /\ Awaited = {} \/ Told = {}
  /\ Awaited # {} \/ Told # {} => "save" \in busy
  /\ Told \cap replies \cap settling = {}

\* Its draft has no order before the server made one.
NotMade ==
  /\ \A c \in Awaited : c.kind = "create" => c.draft \in unsure \/ ~Made(c.draft)
  /\ \A a \in Told : a.call.kind = "create" => a.ok \/ a.call.draft \in unsure \/ ~Made(a.call.draft)

\* Once made, the draft is not sent again: its page still awaits the answer, or that
\* the order is read.
Ending(a, d) == a.call.kind = "create" /\ a.ok /\ a.call.draft = d
DraftFinished == Made(drafting) /\ drafting \notin unsure => \E a \in Told : Ending(a, drafting)

DraftInv == DraftNumbers /\ OneAwaited /\ NotMade /\ OneOrderPerDraft /\ DraftFinished

\* The orders after a step come from the same drafts as before it.
SameDrafts == Known' = Known /\ \A n \in Known : orderTable'[n].draft = orderTable[n].draft

LEMMA DraftTyped ==
  ASSUME TypeInv
  PROVE  calls \in Nat /\ \A n \in Known : orderTable[n].draft \in Nat
BY Rows DEF TypeInv, CountTypes, OrderRows

\* Steps that make nothing, after which nothing more is awaited.
LEMMA QuietDrafts ==
  ASSUME TypeInv, DraftInv, SameDrafts, Awaited' \subseteq Awaited, Told' \subseteq Told, CallNumbers', AnswerNumbers',
         Told' \cap replies' \cap settling' = {}, calls' \in {calls, calls + 1}, unsure \subseteq unsure',
         drafting' \in {drafting, calls' + 1},
         "save" \in busy => "save" \in busy' \/ (Awaited' = {} /\ Told' = {}),
         \A a \in Told : \/ a \in Told' \/ a.call.kind # "create" \/ ~a.ok
                         \/ a.call.draft \in unsure' \/ a.call.draft # drafting'
  PROVE  DraftInv'
<1>1. \A d : (\E n \in Known' : orderTable'[n].draft = d) => Made(d)
  BY DEF SameDrafts, Made
<1>2. calls \in Nat /\ calls' \in Nat /\ calls <= calls' /\ \A n \in Known : orderTable[n].draft \in Nat
  BY DraftTyped
<1>3. DraftNumbers'
  <2>1. drafting' \in 1..calls' + 1
    <3>1. drafting \in 1..calls + 1
      BY DEF DraftInv, DraftNumbers
    <3>2. CASE calls' = calls
      BY <1>2, <3>1, <3>2
    <3>3. CASE calls' = calls + 1
      BY <1>2, <3>1, <3>3
    <3>4. QED BY <3>2, <3>3
  <2>2. \A n \in Known' : orderTable'[n].draft <= calls'
    BY <1>2 DEF DraftInv, DraftNumbers, SameDrafts
  <2>3. QED BY <2>1, <2>2 DEF DraftNumbers
<1>4. OneAwaited'
  BY DEF DraftInv, OneAwaited
<1>5. NotMade'
  BY <1>1 DEF DraftInv, NotMade, Made
<1>6. OneOrderPerDraft'
  BY DEF DraftInv, OneOrderPerDraft, SameDrafts
<1>7. DraftFinished'
  <2>1. SUFFICES ASSUME \E n \in Known' : orderTable'[n].draft = drafting', drafting' \notin unsure'
                 PROVE  \E a \in Told' : Ending(a, drafting')
    BY DEF DraftFinished, Made, Ending
  <2>2. Made(drafting') /\ drafting' \notin unsure
    BY <1>1, <2>1
  <2>3. drafting' = drafting
    <3>1. \A n \in Known : orderTable[n].draft <= calls
      BY DEF DraftInv, DraftNumbers
    <3>2. QED BY <1>2, <2>2, <3>1 DEF Made
  <2>4. PICK a \in Told : Ending(a, drafting)
    BY <2>2, <2>3 DEF DraftInv, DraftFinished
  <2>5. a \in Told'
    BY <2>1, <2>3, <2>4 DEF Ending
  <2>6. QED BY <2>3, <2>4, <2>5
<1>8. QED BY <1>3, <1>4, <1>5, <1>6, <1>7 DEF DraftInv

\* Only the tab acts, and what it awaits stays.
LEMMA RestDrafts ==
  ASSUME TypeInv, DraftInv, SameDrafts, UNCHANGED <<net, busy, unsure, calls>>, drafting' \in {drafting, calls + 1}
  PROVE  DraftInv'
<1>1. Awaited' = Awaited /\ Told' = Told /\ replies' = replies /\ settling' = settling
  BY DEF Awaited, Told, net
<1>2. CallNumbers' /\ AnswerNumbers'
  BY <1>1 DEF DraftInv, DraftNumbers, CallNumbers, AnswerNumbers, net
<1>3. Told' \cap replies' \cap settling' = {}
  BY <1>1 DEF DraftInv, OneAwaited
<1>4. QED BY <1>1, <1>2, <1>3, QuietDrafts

\* A call is answered; an order is made of its draft at most.
LEMMA AnsweredDrafts ==
  ASSUME TypeInv, DraftInv, NEW c \in wire, NEW ok \in BOOLEAN, NEW new,
         \A a \in new : a.call = c /\ a.ok = ok /\ ~c.gone, \A a, b \in new : a = b, new # {} \/ c.gone,
         wire' = wire \ {c}, replies' = replies \cup new, UNCHANGED <<settling, busy, drafting, unsure, calls>>,
         \A n \in Known' : \/ n \in Known /\ orderTable'[n].draft = orderTable[n].draft
                           \/ n = Len(orderTable) + 1 /\ ok /\ c.kind = "create" /\ orderTable'[n].draft = c.draft
  PROVE  DraftInv'
<1>1. c \in CallRows /\ Aimed(c) /\ (c.kind = "create" => c.slot = "save")
  BY DEF TypeInv, NetTypes, Aimed, SaveKinds
<1>2. c.kind = "create" => c.draft \in 1..calls /\ (c \in Awaited \/ c.draft \in unsure)
  BY DEF DraftInv, DraftNumbers, CallNumbers
<1>3. Awaited' = Awaited \ {c}
  BY DEF Awaited
<1>4. IF c \in Awaited THEN Told = {} /\ Told' = new /\ Awaited' = {} ELSE Told' = Told
  <2>1. CASE c \in Awaited
    <3>1. Told = {} /\ Awaited' = {}
      BY <1>3, <2>1 DEF DraftInv, OneAwaited
    <3>2. Told' = new
      BY <2>1, <3>1 DEF Awaited, Told
    <3>3. QED BY <2>1, <3>1, <3>2
  <2>2. CASE c \notin Awaited
    <3>1. \A a \in new : ~(a.call.slot = "save" /\ a.call.live)
      BY <2>2 DEF Awaited
    <3>2. QED BY <2>2, <3>1 DEF Told
  <2>3. QED BY <2>1, <2>2
<1>5. Len(orderTable) \in Nat /\ calls \in Nat /\ \A n \in Known : orderTable[n].draft \in Nat
  BY Rows, DraftTyped DEF TypeInv
<1>6. ASSUME NEW d, d # c.draft \/ ~ok \/ c.kind # "create", \E n \in Known' : orderTable'[n].draft = d
      PROVE  Made(d)
  BY <1>6 DEF Made
<1>7. DraftNumbers'
  <2>1. CallNumbers'
    <3>1. \A e \in wire' : e \in wire /\ e # c
      OBVIOUS
    <3>2. QED BY <1>3, <3>1 DEF DraftInv, DraftNumbers, CallNumbers
  <2>2. AnswerNumbers'
    <3>1. \A a \in replies \cup settling : a \in Told => a \in Told'
      BY <1>4
    <3>2. \A a \in new : c \in Awaited => a \in Told'
      BY <1>4
    <3>3. QED BY <1>2, <3>1, <3>2 DEF DraftInv, DraftNumbers, AnswerNumbers
  <2>3. \A n \in Known' : orderTable'[n].draft <= calls'
    BY <1>2, <1>5 DEF DraftInv, DraftNumbers
  <2>4. QED BY <2>1, <2>2, <2>3 DEF DraftInv, DraftNumbers
<1>8. OneAwaited'
  <2>1. CASE c \in Awaited
    <3>1. settling \cap new = {}
      <4>1. \A a \in new : a \in settling => a \in Told
        BY <2>1 DEF Awaited, Told
      <4>2. QED BY <1>4, <2>1, <4>1
    <3>2. "save" \in busy
      BY <2>1 DEF DraftInv, OneAwaited
    <3>3. QED BY <1>4, <2>1, <3>1, <3>2 DEF OneAwaited
  <2>2. CASE c \notin Awaited
    <3>1. Told' = Told /\ Awaited' = Awaited
      BY <1>3, <1>4, <2>2
    <3>2. \A a \in new : a \notin Told
      BY <2>2 DEF Awaited, Told
    <3>3. QED BY <3>1, <3>2 DEF DraftInv, OneAwaited
  <2>3. QED BY <2>1, <2>2
<1>9. OneOrderPerDraft'
  <2>1. ok /\ c.kind = "create" => c.draft \in unsure \/ ~Made(c.draft)
    BY <1>2 DEF DraftInv, NotMade
  <2>2. SUFFICES ASSUME NEW i \in Known', NEW j \in Known', orderTable'[i].draft = orderTable'[j].draft,
                        orderTable'[i].draft # 0, orderTable'[i].draft \notin unsure
                 PROVE  i = j
    BY DEF OneOrderPerDraft
  <2>3. ~(i = Len(orderTable) + 1 /\ j \in Known /\ orderTable'[j].draft = orderTable[j].draft
            /\ ok /\ c.kind = "create" /\ orderTable'[i].draft = c.draft)
    BY <2>1, <2>2 DEF Made
  <2>4. ~(j = Len(orderTable) + 1 /\ i \in Known /\ orderTable'[i].draft = orderTable[i].draft
            /\ ok /\ c.kind = "create" /\ orderTable'[j].draft = c.draft)
    BY <2>1, <2>2 DEF Made
  <2>5. i \in Known /\ j \in Known /\ orderTable'[i].draft = orderTable[i].draft /\ orderTable'[j].draft = orderTable[j].draft => i = j
    BY <2>2 DEF DraftInv, OneOrderPerDraft
  <2>6. QED BY <2>2, <2>3, <2>4, <2>5
<1>10. NotMade'
  <2>1. ASSUME NEW e \in Awaited', e.kind = "create", e.draft \notin unsure
        PROVE  ~(\E n \in Known' : orderTable'[n].draft = e.draft)
    <3>1. e \in Awaited /\ e # c /\ c \notin Awaited /\ ~Made(e.draft)
      BY <1>3, <1>4, <2>1 DEF DraftInv, NotMade
    <3>2. c.kind = "create" => c.draft # e.draft
      BY <1>2, <2>1, <3>1
    <3>3. QED BY <1>6, <3>1, <3>2
  <2>2. ASSUME NEW a \in Told', a.call.kind = "create", ~a.ok, a.call.draft \notin unsure
        PROVE  ~(\E n \in Known' : orderTable'[n].draft = a.call.draft)
    <3>1. CASE c \in Awaited
      <4>1. a.call = c /\ ~ok /\ ~Made(c.draft)
        BY <1>4, <2>2, <3>1 DEF DraftInv, NotMade
      <4>2. QED BY <1>6, <4>1
    <3>2. CASE c \notin Awaited
      <4>1. ~Made(a.call.draft) /\ (c.kind = "create" => c.draft # a.call.draft)
        BY <1>2, <1>4, <2>2, <3>2 DEF DraftInv, NotMade
      <4>2. QED BY <1>6, <4>1
    <3>3. QED BY <3>1, <3>2
  <2>3. QED BY <2>1, <2>2 DEF NotMade, Made
<1>11. DraftFinished'
  <2>1. SUFFICES ASSUME \E n \in Known' : orderTable'[n].draft = drafting, drafting \notin unsure
                 PROVE  \E a \in Told' : Ending(a, drafting)
    BY DEF DraftFinished, Made, Ending
  <2>2. CASE Made(drafting)
    <3>1. PICK a \in Told : Ending(a, drafting)
      BY <2>1, <2>2 DEF DraftInv, DraftFinished
    <3>2. QED BY <1>4, <3>1
  <2>3. CASE ~Made(drafting)
    <3>1. ok /\ c.kind = "create" /\ c.draft = drafting
      BY <1>6, <2>1, <2>3
    <3>2. c \in Awaited
      BY <1>2, <2>1, <3>1
    <3>3. new # {}
      BY <3>2 DEF Awaited
    <3>4. QED BY <1>4, <3>1, <3>2, <3>3 DEF Ending
  <2>4. QED BY <2>2, <2>3
<1>12. QED BY <1>7, <1>8, <1>9, <1>10, <1>11 DEF DraftInv

LEMMA ExecuteDrafts ==
  ASSUME TypeInv, DraftInv, NEW c \in wire, Execute(c)
  PROVE  DraftInv'
<1>1. c \in CallRows /\ Aimed(c)
  BY ExecuteEffect
<1>2. PICK ok \in BOOLEAN :
        /\ ok => Allowed(c) /\ orderTable' = Result(c)
        /\ ~ok => orderTable' = orderTable
        /\ replies' = IF c.gone THEN replies ELSE replies \cup {AnswerTo(c, ok)}
  BY ExecuteEffect
<1>3. wire' = wire \ {c} /\ UNCHANGED <<settling, busy, drafting, unsure, calls>>
  BY DEF Execute, page, ghosts
<1>4. PICK a : a = AnswerTo(c, ok)
  OBVIOUS
<1>5. a.call = c /\ a.ok = ok
  BY <1>4 DEF AnswerTo
<1>6. PICK new : new = IF c.gone THEN {} ELSE {a}
  OBVIOUS
<1>7. replies' = replies \cup new
  BY <1>2, <1>4, <1>6
<1>8. /\ \A b \in new : b.call = c /\ b.ok = ok /\ ~c.gone
      /\ \A b, d \in new : b = d
      /\ new # {} \/ c.gone
  BY <1>5, <1>6
<1>9. \A n \in Known' : \/ n \in Known /\ orderTable'[n].draft = orderTable[n].draft
                        \/ n = Len(orderTable) + 1 /\ ok /\ c.kind = "create" /\ orderTable'[n].draft = c.draft
  BY <1>1, <1>2, ResultRows, OrdersStay DEF Grows, Target
<1>10. QED BY <1>3, <1>7, <1>8, <1>9, AnsweredDrafts

LEMMA AsksDrafts ==
  ASSUME TypeInv, DraftInv, NEW slot, NEW kind, NEW body, Asks(slot, kind, body)
  PROVE  DraftInv'
<1>1. PICK c \in CallRows :
        /\ c.kind = kind /\ c.slot = slot /\ c.live /\ ~c.gone /\ c.draft = (IF kind = "create" THEN drafting ELSE 0)
        /\ wire' = wire \cup {c} /\ busy' = busy \cup {slot} /\ calls' = calls + 1
        /\ UNCHANGED <<replies, settling>>
  BY AsksEffect
<1>2. slot \notin busy /\ (kind = "create" => slot = "save") /\ UNCHANGED <<orderTable, drafting, unsure>>
  BY DEF Asks, SaveKinds, ghosts
<1>3. SameDrafts
  BY <1>2 DEF SameDrafts, Known
<1>4. Told' = Told /\ Awaited' = Awaited \cup (IF slot = "save" THEN {c} ELSE {})
  BY <1>1 DEF Told, Awaited
<1>5. calls \in Nat
  BY DraftTyped
<1>6. CallNumbers' /\ AnswerNumbers'
  <2>1. drafting \in 1..calls + 1 /\ CallNumbers /\ AnswerNumbers
    BY DEF DraftInv, DraftNumbers
  <2>2. 1..calls \subseteq 1..calls' /\ 1..calls + 1 = 1..calls'
    BY <1>1, <1>5
  <2>3. CallNumbers'
    BY <1>1, <1>2, <1>4, <2>1, <2>2 DEF CallNumbers
  <2>4. AnswerNumbers'
    BY <1>1, <1>2, <1>4, <2>1, <2>2 DEF AnswerNumbers
  <2>5. QED BY <2>3, <2>4
<1>7. Told' \cap replies' \cap settling' = {}
  BY <1>1, <1>4 DEF DraftInv, OneAwaited
<1>8. CASE slot # "save"
  BY <1>1, <1>2, <1>3, <1>4, <1>6, <1>7, <1>8, QuietDrafts
<1>9. CASE slot = "save"
  <2>1. Awaited = {} /\ Told = {}
    BY <1>2, <1>9 DEF DraftInv, OneAwaited
  <2>2. Made(drafting) => drafting \in unsure
    BY <2>1 DEF DraftInv, DraftFinished
  <2>3. OneOrderPerDraft' /\ (Made(drafting)' => Made(drafting))
    BY <1>2, <1>3 DEF DraftInv, OneOrderPerDraft, SameDrafts, Made
  <2>4. DraftNumbers'
    <3>1. \A n \in Known : orderTable[n].draft \in Nat /\ orderTable[n].draft <= calls
      BY DraftTyped DEF DraftInv, DraftNumbers
    <3>2. QED BY <1>1, <1>2, <1>3, <1>5, <1>6, <3>1 DEF DraftInv, DraftNumbers, SameDrafts
  <2>5. OneAwaited'
    BY <1>1, <1>4, <1>7, <1>9, <2>1 DEF OneAwaited
  <2>6. NotMade'
    BY <1>1, <1>2, <1>4, <1>9, <2>1, <2>2 DEF NotMade, Made, Known
  <2>7. DraftFinished'
    BY <1>2, <2>2, <2>3 DEF DraftFinished
  <2>8. QED BY <2>3, <2>4, <2>5, <2>6, <2>7 DEF DraftInv
<1>10. QED BY <1>8, <1>9

\* A page that is left awaits nothing; the drafts of its calls are unsure, but for a
\* creation that is over.
LEMMA LeftDrafts ==
  ASSUME TypeInv, DraftInv, NEW done, done \subseteq settling, \A a, b \in done : a = b,
         wire' = Deserted(wire), replies' = DesertedAnswers(replies), settling' = DesertedAnswers(settling \ done),
         Unanswered \ {a.call.draft : a \in {b \in done : b.call.kind = "create"}} \subseteq unsure',
         unsure \subseteq unsure', UNCHANGED <<orderTable, calls>>, drafting' \in {drafting, calls + 1},
         \A a \in done : a.call.kind = "create" => a.call.draft # drafting'
  PROVE  DraftInv'
<1> DEFINE over == {a.call.draft : a \in {b \in done : b.call.kind = "create"}}
<1>1. /\ \A c \in wire' : ~c.live /\ \E d \in wire : Same(c, d)
      /\ \A a \in replies' : ~a.call.live /\ \E b \in replies : Same(a.call, b.call)
      /\ \A a \in settling' : ~a.call.live /\ \E b \in settling \ done : Same(a.call, b.call)
  BY DesertedCalls DEF TypeInv
<1>2. Awaited' = {} /\ Told' = {}
  BY <1>1 DEF Awaited, Told
<1>3. SameDrafts
  BY DEF SameDrafts, Known
<1>4. \A a \in replies \cup settling : a.call.kind = "create" => a.call.slot = "save"
  BY DEF TypeInv, NetTypes, Aimed, SaveKinds
<1>5. ASSUME NEW a \in done, a.call.kind = "create"
      PROVE  /\ \A c \in wire : c.kind = "create" => c.draft # a.call.draft \/ c.draft \in unsure
             /\ \A b \in replies \cup (settling \ done) :
                  b.call.kind = "create" => b.call.draft # a.call.draft \/ b.call.draft \in unsure
  <2>1. a \in settling
    BY <1>5
  <2>2. CASE a \in Told
    <3>1. Awaited = {} /\ a \notin replies /\ \A b \in Told : b = a
      BY <2>1, <2>2 DEF DraftInv, OneAwaited
    <3>2. \A b \in replies \cup (settling \ done) : b # a
      BY <3>1, <1>5
    <3>3. QED BY <3>1, <3>2 DEF DraftInv, DraftNumbers, CallNumbers, AnswerNumbers
  <2>3. CASE a \notin Told
    BY <1>5, <2>1, <2>3 DEF DraftInv, DraftNumbers, AnswerNumbers
  <2>4. QED BY <2>2, <2>3
<1>6. \A d \in Unanswered : d \in unsure' \/ \E a \in done : a.call.kind = "create" /\ d = a.call.draft
  OBVIOUS
<1>7. ASSUME NEW c \in wire, c.kind = "create"
      PROVE  c.draft \in 1..calls /\ c.draft \in unsure'
  <2>1. c.draft \in 1..calls
    BY <1>7 DEF DraftInv, DraftNumbers, CallNumbers
  <2>2. c.draft \in Unanswered
    BY <1>7 DEF Unanswered
  <2>3. QED BY <1>5, <1>6, <1>7, <2>1, <2>2
<1>8. ASSUME NEW b \in replies \cup (settling \ done), b.call.kind = "create"
      PROVE  b.call.draft \in 1..calls /\ b.call.draft \in unsure'
  <2>1. b.call.draft \in 1..calls
    BY <1>8 DEF DraftInv, DraftNumbers, AnswerNumbers
  <2>2. b.call.draft \in Unanswered
    BY <1>8 DEF Unanswered
  <2>3. QED BY <1>5, <1>6, <1>8, <2>1, <2>2
<1>9. CallNumbers' /\ AnswerNumbers'
  <2>1. CallNumbers'
    BY <1>1, <1>7 DEF CallNumbers, Same
  <2>2. \A a \in replies' \cup settling' : \E b \in replies \cup (settling \ done) : Same(a.call, b.call)
    BY <1>1
  <2>3. ASSUME NEW a \in replies' \cup settling', a.call.kind = "create"
        PROVE  a.call.draft \in 1..calls /\ a.call.draft \in unsure'
    <3>1. PICK b \in replies \cup (settling \ done) : Same(a.call, b.call)
      BY <2>2
    <3>2. b.call.kind = "create" /\ a.call.draft = b.call.draft
      BY <2>3, <3>1 DEF Same
    <3>3. QED BY <1>8, <3>2
  <2>4. AnswerNumbers'
    BY <2>3 DEF AnswerNumbers
  <2>5. QED BY <2>1, <2>4
<1>10. \A a \in Told : a.call.kind # "create" \/ a.call.draft \in unsure' \/ a.call.draft # drafting'
  BY <1>8 DEF Told
<1>11. Told' \cap replies' \cap settling' = {}
  BY <1>2
<1>12. QED BY <1>2, <1>3, <1>9, <1>10, <1>11, QuietDrafts

LEMMA DesertDrafts ==
  ASSUME TypeInv, DraftInv, Desert, UNCHANGED <<orderTable, calls>>, drafting' \in {drafting, calls + 1}
  PROVE  DraftInv'
<1>1. PICK done : done = {}
  OBVIOUS
<1>2. wire' = Deserted(wire) /\ replies' = DesertedAnswers(replies) /\ settling' = DesertedAnswers(settling)
        /\ unsure' = unsure \cup Unanswered
  BY DEF Desert
<1>3. settling \ done = settling
  BY <1>1
<1>4. settling' = DesertedAnswers(settling \ done)
  BY <1>2, <1>3
<1>5. done \subseteq settling /\ (\A a, b \in done : a = b)
        /\ \A a \in done : a.call.kind = "create" => a.call.draft # drafting'
  BY <1>1
<1>6. /\ Unanswered \ {a.call.draft : a \in {b \in done : b.call.kind = "create"}} \subseteq unsure'
      /\ unsure \subseteq unsure'
  BY <1>2
<1>7. QED BY <1>2, <1>4, <1>5, <1>6, LeftDrafts

LEMMA ReloadDrafts ==
  ASSUME TypeInv, DraftInv, Reload
  PROVE  DraftInv'
<1>1. /\ wire' = {[c EXCEPT !.gone = TRUE] : c \in wire} /\ replies' = {} /\ settling' = {}
      /\ unsure' = unsure \cup Unanswered /\ UNCHANGED <<orderTable, drafting, calls>>
  BY DEF Reload
<1>2. \A c \in wire' : c.gone /\ \E d \in wire : Same(c, d)
  <2>1. ASSUME NEW d \in wire
        PROVE  Same([d EXCEPT !.gone = TRUE], d) /\ [d EXCEPT !.gone = TRUE].gone
    BY CallFields DEF TypeInv, NetTypes
  <2>2. QED BY <1>1, <2>1
<1>3. Awaited' = {} /\ Told' = {}
  BY <1>1, <1>2 DEF Awaited, Told
<1>4. SameDrafts
  BY <1>1 DEF SameDrafts, Known
<1>5. /\ \A c \in wire : c.kind = "create" => c.draft \in 1..calls /\ c.draft \in unsure'
      /\ \A b \in replies \cup settling : b.call.kind = "create" => b.call.draft \in unsure'
  BY <1>1 DEF Unanswered, DraftInv, DraftNumbers, CallNumbers
<1>6. CallNumbers' /\ AnswerNumbers'
  BY <1>1, <1>2, <1>5 DEF CallNumbers, AnswerNumbers, Same
<1>7. \A a \in Told : a.call.kind # "create" \/ a.call.draft \in unsure'
  BY <1>5 DEF Told
<1>8. unsure \subseteq unsure' /\ Told' \cap replies' \cap settling' = {}
  BY <1>1
<1>9. QED BY <1>1, <1>3, <1>4, <1>6, <1>7, <1>8, QuietDrafts

LEMMA LoseDrafts ==
  ASSUME TypeInv, DraftInv, Lose
  PROVE  DraftInv'
<1>1. SameDrafts /\ UNCHANGED <<settling, drafting, calls>>
  BY DEF Lose, SameDrafts, Known
<1>2. ASSUME NEW c \in wire, ~c.gone, replies' = replies, busy' = Released(c), unsure' = unsure \cup {c.draft},
             \/ wire' = wire \ {c}
             \/ wire' = (wire \ {c}) \cup {[c EXCEPT !.gone = TRUE]}
      PROVE  DraftInv'
  <2> DEFINE e == [c EXCEPT !.gone = TRUE]
  <2>1. Same(e, c) /\ e.gone
    BY CallFields DEF TypeInv, NetTypes
  <2>2. wire' = wire \ {c} \/ wire' = (wire \ {c}) \cup {e}
    BY <1>2
  <2> HIDE DEF e
  <2>3. Awaited' = Awaited \ {c}
    BY <2>1, <2>2 DEF Awaited
  <2>4. Told' = Told
    BY <1>1, <1>2 DEF Told
  <2>5. CallNumbers'
    <3>1. ASSUME NEW d \in wire', d.kind = "create"
          PROVE  d.draft \in 1..calls /\ (d \in Awaited' \/ d.draft \in unsure')
      <4>1. CASE d \in wire /\ d # c
        BY <1>2, <2>3, <3>1, <4>1 DEF DraftInv, DraftNumbers, CallNumbers
      <4>2. CASE d = e
        BY <1>2, <2>1, <3>1, <4>2 DEF DraftInv, DraftNumbers, CallNumbers, Same
      <4>3. QED BY <2>2, <4>1, <4>2
    <3>2. QED BY <1>1, <3>1 DEF CallNumbers
  <2>6. AnswerNumbers'
    BY <1>1, <1>2, <2>4 DEF DraftInv, DraftNumbers, AnswerNumbers
  <2>7. Told' \cap replies' \cap settling' = {}
    BY <1>1, <1>2, <2>4 DEF DraftInv, OneAwaited
  <2>8. "save" \in busy => "save" \in busy' \/ (Awaited' = {} /\ Told' = {})
    <3>1. CASE c \in Awaited
      BY <2>3, <2>4, <3>1 DEF DraftInv, OneAwaited
    <3>2. CASE c \notin Awaited
      BY <1>2, <3>2 DEF Awaited, Released
    <3>3. QED BY <3>1, <3>2
  <2>9. QED BY <1>1, <1>2, <2>3, <2>4, <2>5, <2>6, <2>7, <2>8, QuietDrafts
<1>3. ASSUME NEW a \in replies, wire' = wire, replies' = replies \ {a}, busy' = Released(a.call),
             unsure' = unsure \cup {a.call.draft}
      PROVE  DraftInv'
  <2>1. Awaited' = Awaited /\ Told' \subseteq Told /\ \A b \in Told : b = a \/ b \in Told'
    BY <1>1, <1>3 DEF Awaited, Told
  <2>2. CallNumbers'
    BY <1>1, <1>3, <2>1 DEF DraftInv, DraftNumbers, CallNumbers
  <2>3. AnswerNumbers'
    BY <1>1, <1>3, <2>1 DEF DraftInv, DraftNumbers, AnswerNumbers
  <2>4. Told' \cap replies' \cap settling' = {}
    BY <1>1, <1>3, <2>1 DEF DraftInv, OneAwaited
  <2>5. "save" \in busy => "save" \in busy' \/ (Awaited' = {} /\ Told' = {})
    <3>1. CASE a \in Told
      <4>1. a \notin settling /\ Awaited = {} /\ \A b \in Told : b = a
        BY <1>3, <3>1 DEF DraftInv, OneAwaited
      <4>2. a \notin Told'
        BY <1>1, <1>3, <4>1 DEF Told
      <4>3. QED BY <2>1, <4>1, <4>2
    <3>2. CASE a \notin Told
      BY <1>3, <3>2 DEF Told, Released
    <3>3. QED BY <3>1, <3>2
  <2>6. \A b \in Told : b \in Told' \/ b.call.draft \in unsure'
    BY <1>3, <2>1
  <2>7. QED BY <1>1, <1>3, <2>1, <2>2, <2>3, <2>4, <2>5, <2>6, QuietDrafts
<1>4. QED BY <1>2, <1>3 DEF Lose

\* An answer is delivered, or its page has done with it.
LEMMA AnswerDrafts ==
  ASSUME TypeInv, DraftInv, NEW a, UNCHANGED <<orderTable, wire, unsure, calls>>,
         \/ a \in replies /\ replies' = replies \ {a} /\ settling' = settling \cup {a} /\ busy' = busy
         \/ a \in replies /\ ~a.ok /\ replies' = replies \ {a} /\ settling' = settling /\ busy' = Released(a.call)
         \/ /\ a \in settling /\ (a \notin Told \/ a.call.kind # "create")
            /\ replies' = replies /\ settling' = settling \ {a} /\ busy' \in {busy, Released(a.call)},
         drafting' \in {drafting, calls + 1}
  PROVE  DraftInv'
<1>1. SameDrafts
  BY DEF SameDrafts, Known
<1>2. Awaited' = Awaited /\ Told' \subseteq Told
  BY DEF Awaited, Told
<1>3. \A b \in Told : b \in Told' \/ (b = a /\ (~a.ok \/ a.call.kind # "create"))
  BY DEF Told
<1>4. Told' \cap replies' \cap settling' = {}
  BY <1>2 DEF DraftInv, OneAwaited
<1>5. CallNumbers'
  BY <1>2 DEF DraftInv, DraftNumbers, CallNumbers
<1>6. AnswerNumbers'
  <2>1. \A b \in replies' \cup settling' : b \in replies \cup settling /\ (b \in Told => b \in Told')
    BY DEF Told
  <2>2. QED BY <2>1 DEF DraftInv, DraftNumbers, AnswerNumbers
<1>7. "save" \in busy => "save" \in busy' \/ (Awaited' = {} /\ Told' = {})
  <2>1. CASE a \in Told /\ busy' # busy
    <3>1. Awaited = {} /\ \A b \in Told : b = a
      BY <2>1 DEF DraftInv, OneAwaited
    <3>2. a \notin replies \/ a \notin settling
      BY <2>1 DEF DraftInv, OneAwaited
    <3>3. a \notin replies' \cup settling'
      BY <2>1, <3>2
    <3>4. a \notin Told'
      BY <3>3 DEF Told
    <3>5. QED BY <1>2, <3>1, <3>4
  <2>2. CASE a \notin Told /\ busy' # busy
    <3>1. a \in replies \cup settling /\ busy' = Released(a.call)
      BY <2>2
    <3>2. QED BY <2>2, <3>1 DEF Told, Released
  <2>3. CASE busy' = busy
    BY <2>3
  <2>4. QED BY <2>1, <2>2, <2>3
<1>8. QED BY <1>1, <1>2, <1>3, <1>4, <1>5, <1>6, <1>7, QuietDrafts

\* The rest of a handler runs, and another page may open.
LEMMA SettledDrafts ==
  ASSUME TypeInv, DraftInv, NEW a \in settling, Created(a) \/ Updated(a) \/ StatusChanged(a) \/ Invoiced(a)
  PROVE  DraftInv'
<1>1. a.call.kind = "create" => a.call.draft \in 1..calls /\ a.call.slot = "save"
  BY DEF DraftInv, DraftNumbers, AnswerNumbers, TypeInv, NetTypes, Aimed, SaveKinds
<1>2. PICK done : done = {a}
  OBVIOUS
<1>3. done \subseteq settling /\ (\A b, d \in done : b = d) /\ settling \ {a} = settling \ done
  BY <1>2
<1>4. CASE Created(a)
  <2>1. /\ a.call.kind = "create" /\ drafting' = (IF a.call.draft = drafting THEN calls + 1 ELSE drafting)
        /\ UNCHANGED <<orderTable, calls>>
    BY <1>4 DEF Created
  <2>2. a.call.draft # drafting'
    BY <1>1, <2>1, DraftTyped
  <2>3. CASE /\ wire' = Deserted(wire) /\ replies' = DesertedAnswers(replies)
             /\ settling' = DesertedAnswers(settling \ {a})
             /\ unsure' = unsure \cup {d \in Unanswered : d # a.call.draft}
    <3>1. /\ Unanswered \ {b.call.draft : b \in {d \in done : d.call.kind = "create"}} \subseteq unsure'
          /\ unsure \subseteq unsure'
      BY <1>2, <2>1, <2>3
    <3>2. \A b \in done : b.call.kind = "create" => b.call.draft # drafting'
      BY <1>2, <2>2
    <3>3. settling' = DesertedAnswers(settling \ done)
      BY <1>3, <2>3
    <3>4. QED BY <1>3, <2>1, <2>3, <3>1, <3>2, <3>3, LeftDrafts
  <2>4. CASE ~a.call.live /\ settling' = settling \ {a} /\ UNCHANGED <<page, wire, replies, unsure>>
    BY <2>1, <2>4, AnswerDrafts DEF Told, page
  <2>5. QED BY <1>4, <2>3, <2>4 DEF Created
<1>5. CASE Updated(a) \/ StatusChanged(a)
  BY <1>5, AnswerDrafts DEF Updated, StatusChanged, ghosts
<1>6. CASE Invoiced(a)
  <2>1. a.call.kind = "invoice" /\ UNCHANGED <<orderTable, drafting, calls>>
    BY <1>6 DEF Invoiced
  <2>2. CASE /\ wire' = Deserted(wire) /\ replies' = DesertedAnswers(replies)
             /\ settling' = DesertedAnswers(settling \ {a}) /\ unsure' = unsure \cup Unanswered
    <3>1. /\ Unanswered \ {b.call.draft : b \in {d \in done : d.call.kind = "create"}} \subseteq unsure'
          /\ unsure \subseteq unsure'
      BY <2>2
    <3>2. \A b \in done : b.call.kind = "create" => b.call.draft # drafting'
      BY <1>2, <2>1
    <3>3. settling' = DesertedAnswers(settling \ done)
      BY <1>3, <2>2
    <3>4. QED BY <1>3, <2>1, <2>2, <3>1, <3>2, <3>3, LeftDrafts
  <2>3. CASE settling' = settling \ {a} /\ busy' = Released(a.call) /\ UNCHANGED <<wire, replies, ghosts>>
    BY <2>1, <2>3, AnswerDrafts DEF ghosts
  <2>4. QED BY <1>6, <2>2, <2>3 DEF Invoiced
<1>7. QED BY <1>4, <1>5, <1>6

LEMMA StepDrafts ==
  ASSUME TypeInv, HereInv, DraftInv, [DeskNext]_deskVars
  PROVE  DraftInv'
<1>1. ASSUME UNCHANGED <<orderTable, net, busy, unsure, calls>>, drafting' \in {drafting, calls + 1}
      PROVE  DraftInv'
  BY <1>1, RestDrafts DEF SameDrafts, Known
<1>2. ASSUME Desert, UNCHANGED <<orderTable, calls>>, drafting' \in {drafting, calls + 1}
      PROVE  DraftInv'
  BY <1>2, DesertDrafts
<1>3. ASSUME NEW n \in Known, OtherWrites(n)
      PROVE  DraftInv'
  <2>1. UNCHANGED <<net, busy, unsure, calls, drafting>>
    BY <1>3 DEF OtherWrites, page, ghosts
  <2>2. SameDrafts
    BY <1>3, OtherTypes DEF Grows, SameDrafts
  <2>3. QED BY <2>1, <2>2, RestDrafts
<1>4. CASE \E n \in Known : Refetch(n) \/ Read(n) \/ Arrive(n)
  BY <1>1, <1>4 DEF Refetch, Read, Arrive, page, ghosts
<1>5. ASSUME NEW p \in Known \cup {New}, EnterPage(p)
      PROVE  DraftInv'
  <2>1. UNCHANGED <<orderTable, unsure, calls, drafting, wire, replies, settling>> /\ at = Elsewhere
    BY <1>5 DEF EnterPage, net
  <2>2. Awaited = {} /\ Told = {}
    BY <2>1, AwayIdle DEF Awaited, Told
  <2>3. Awaited' = Awaited /\ Told' = Told
    BY <2>1 DEF Awaited, Told
  <2>4. CallNumbers' /\ AnswerNumbers'
    BY <2>1, <2>3 DEF DraftInv, DraftNumbers, CallNumbers, AnswerNumbers
  <2>5. SameDrafts
    BY <2>1 DEF SameDrafts, Known
  <2>6. QED BY <2>1, <2>2, <2>3, <2>4, <2>5, QuietDrafts
<1>6. CASE Leave \/ ReturnToOrders
  BY <1>2, <1>6 DEF Leave, ReturnToOrders
<1>7. CASE EditOrder \/ Type
  BY <1>1, <1>7 DEF EditOrder, Type, ghosts
<1>8. CASE CancelEditing
  BY <1>1, <1>2, <1>8 DEF CancelEditing, ghosts
<1>9. ASSUME NEW a \in replies, Deliver(a) \/ Refused(a)
      PROVE  DraftInv'
  BY <1>9, AnswerDrafts DEF Deliver, Refused, ghosts
<1>10. CASE UNCHANGED deskVars
  BY <1>1, <1>10 DEF deskVars, page, ghosts
<1>11. QED
  BY <1>3, <1>4, <1>5, <1>6, <1>7, <1>8, <1>9, <1>10, StepKinds, ExecuteDrafts, AsksDrafts, ReloadDrafts, LoseDrafts,
     SettledDrafts

(* A draft becomes two orders only when the administrator could not know of the
   first: its answer was lost, or its creation was left or reloaded. *)
THEOREM OneOrder == DeskSpec => []OneOrderPerDraft
<1>1. DeskInit => TypeInv /\ HereInv /\ DraftInv
  <2>1. SUFFICES ASSUME DeskInit
                 PROVE  TypeInv /\ HereInv /\ DraftInv
    OBVIOUS
  <2>2. wire = {} /\ replies = {} /\ settling = {} /\ drafting = 1 /\ calls = 0
    BY <2>1 DEF DeskInit
  <2>3. Awaited = {} /\ Told = {}
    BY <2>2 DEF Awaited, Told
  <2>4. \A n \in Known : n = 1 /\ orderTable[n].draft = 0
    BY <2>1, Started
  <2>5. DraftNumbers
    BY <2>2, <2>4 DEF DraftNumbers, CallNumbers, AnswerNumbers
  <2>6. OneAwaited /\ NotMade /\ OneOrderPerDraft
    BY <2>3, <2>4 DEF OneAwaited, NotMade, OneOrderPerDraft
  <2>7. DraftFinished
    BY <2>2, <2>4 DEF DraftFinished, Made
  <2>8. QED BY <2>1, <2>5, <2>6, <2>7, HereStarts DEF DraftInv
<1>2. TypeInv /\ HereInv /\ DraftInv /\ [DeskNext]_deskVars => TypeInv' /\ HereInv' /\ DraftInv'
  BY StepTypes, StepHere, StepDrafts
<1>3. DraftInv => OneOrderPerDraft
  BY DEF DraftInv
<1>4. QED BY <1>1, <1>2, <1>3, PTL DEF DeskSpec
=============================================================================
