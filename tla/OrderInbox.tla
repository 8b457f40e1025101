----------------------------- MODULE OrderInbox -----------------------------
(***************************************************************************)
(* A customer order from the storefront to the local database: the RPC     *)
(* receive_customer_order of Supabase, which keeps a ledger of request     *)
(* ids, and the manual import of the API (ImportOrdersUseCase), of which   *)
(* several may run at the same time.                                       *)
(*                                                                         *)
(* The RPC is one transaction.  An import talks to two databases: it reads *)
(* the pending rows once, and then checks, saves and acknowledges one row  *)
(* after the other, each in a step that can fail on its own.               *)
(***************************************************************************)
EXTENDS Naturals, Sequences, FiniteSets

CONSTANTS
  Requests,    \* request ids of the storefront
  Payloads,    \* contents of an order
  Importable,  \* the contents CustomerOrderImportMapper accepts
  Unreadable,  \* the contents SupabaseCustomerOrderMapper refuses to read
  NoPayload,
  Callers,     \* connections of the storefront
  Importers,   \* administrators that run the import
  MaxFaults,   \* bound: failed or ambiguous calls and crashes
  MaxResets    \* bound: failed rows an administrator makes pending again

ASSUME InboxAssumption ==
  /\ Importable \subseteq Payloads /\ Unreadable \subseteq Payloads
  /\ Importable \cap Unreadable = {} /\ NoPayload \notin Payloads
  /\ IsFiniteSet(Importers) /\ MaxFaults \in Nat /\ MaxResets \in Nat

VARIABLES
  caller,    \* caller[c]: the RPC c is executing
  ledger,    \* ledger[r]: the content of the completed request r, or NoPayload
  inbox,     \* customer_orders, in the order of their creation
  importer,  \* importer[i]: how far the import of i has come
  imported,  \* imported[n]: local orders with the id of inbox[n] as external_order_id
  answers,   \* history: what callers were answered
  faults, resets  \* history: faults and resets so far

inboxVars == <<caller, ledger, inbox, importer, imported, answers, faults, resets>>

\* A row keeps the request it was created by and its content; ids are positions.
Row == [request : Requests, payload : Payloads, sync : {"pending", "synced", "failed"}]
Positions == 1..Len(inbox)
Pending == {n \in Positions : inbox[n].sync = "pending"}

\* A call of the RPC whose row of the ledger is inserted.
Claiming == [step : {"claimed"}, request : Requests, payload : Payloads]

\* An import: the rows it has still to handle, the oldest of them being handled.
Import == [step : {"idle", "checking", "saving", "acknowledging", "failing", "refused"},
           todo : SUBSET (Nat \ {0})]
Resting == [step |-> "idle", todo |-> {}]

InboxInit ==
  /\ caller = [c \in Callers |-> [step |-> "idle"]]
  /\ ledger = [r \in Requests |-> NoPayload]
  /\ inbox = <<>> /\ imported = <<>>
  /\ importer = [i \in Importers |-> Resting]
  /\ answers = {} /\ faults = 0 /\ resets = 0

Fault == faults < MaxFaults /\ faults' = faults + 1 /\ UNCHANGED resets
NoFault == UNCHANGED <<faults, resets>>
-----------------------------------------------------------------------------
(* receive_customer_order *)

rpc == <<caller, ledger, answers>>

\* The row of the ledger belongs to a transaction that has not ended.
Claimed(r) == \E c \in Callers : caller[c].step = "claimed" /\ caller[c].request = r

\* Faulty: nothing keeps two transactions from claiming one request.
Unclaimed(r) == TRUE

\* The insertion waits for a transaction that is inserting the same primary key.
MayInsert(r) == ~Claimed(r)

\* A valid payload whose request id is new: its row of the ledger is inserted.
Claim(c, r, p) ==
  /\ caller[c].step = "idle" /\ MayInsert(r) /\ ledger[r] = NoPayload
  /\ caller' = [caller EXCEPT ![c] = [step |-> "claimed", request |-> r, payload |-> p]]
  /\ UNCHANGED <<ledger, inbox, importer, imported, answers>> /\ NoFault

\* The commit of the transaction: the order, the completed row of the ledger and
\* the answer with the id of the order, which may be lost on its way.
Receive(c) ==
  LET r == caller[c].request
      p == caller[c].payload
  IN /\ caller[c].step = "claimed"
     /\ inbox' = Append(inbox, [request |-> r, payload |-> p, sync |-> "pending"])
     /\ imported' = Append(imported, 0)
     /\ ledger' = [ledger EXCEPT ![r] = p]
     /\ answers' = answers \cup {[request |-> r, payload |-> p, order |-> Len(inbox) + 1]}
     /\ caller' = [caller EXCEPT ![c] = [step |-> "idle"]]
     /\ UNCHANGED importer /\ NoFault

\* A failing statement or a lost connection rolls all of it back.
RollBackClaim(c) ==
  /\ caller[c].step = "claimed" /\ Fault
  /\ caller' = [caller EXCEPT ![c] = [step |-> "idle"]]
  /\ UNCHANGED <<ledger, inbox, importer, imported, answers>>

\* Faulty: the fingerprint of a known request is not compared.
AnyContent(known, p) == TRUE

SameContent(known, p) == known = p

\* A request that is in the ledger: its content must be the one received (else
\* the call ends in ORDER_IDEMPOTENCY_CONFLICT), and its order is answered again.
Replay(c, r, p) ==
  /\ caller[c].step = "idle" /\ MayInsert(r) /\ ledger[r] # NoPayload
  /\ SameContent(ledger[r], p)
  /\ \E n \in Positions :
       /\ inbox[n].request = r
       /\ answers' = answers \cup {[request |-> r, payload |-> p, order |-> n]}
  /\ UNCHANGED <<caller, ledger, inbox, importer, imported>> /\ NoFault
-----------------------------------------------------------------------------
(* ImportOrdersUseCase.execute *)

\* fetchPending reads the rows in the order of their creation.
Oldest(rows) == CHOOSE n \in rows : \A m \in rows : n <= m
Current(i) == Oldest(importer[i].todo)
Go(i, step) == importer' = [importer EXCEPT ![i].step = step]

\* On to the next row, or the import ends.
Advance(i) ==
  importer' = [importer EXCEPT ![i] =
                 IF @.todo = {Oldest(@.todo)} THEN Resting
                 ELSE [step |-> "checking", todo |-> @.todo \ {Oldest(@.todo)}]]

\* All pending rows are read and mapped before the first is handled.
Fetch(i) ==
  /\ importer[i] = Resting /\ Pending # {}
  /\ \A n \in Pending : inbox[n].payload \notin Unreadable
  /\ importer' = [importer EXCEPT ![i] = [step |-> "checking", todo |-> Pending]]
  /\ UNCHANGED <<rpc, inbox, imported>> /\ NoFault

\* One row that cannot be mapped ends the import before it began.
FetchRefused(i) ==
  /\ importer[i] = Resting
  /\ \E n \in Pending : inbox[n].payload \in Unreadable
  /\ Go(i, "refused")
  /\ UNCHANGED <<rpc, inbox, imported>> /\ NoFault

RefusalReported(i) ==
  /\ importer[i].step = "refused"
  /\ importer' = [importer EXCEPT ![i] = Resting]
  /\ UNCHANGED <<rpc, inbox, imported>> /\ NoFault

\* A row whose order exists is only acknowledged; a content the mapper refuses
\* fails.
Check(i) ==
  /\ importer[i].step = "checking"
  /\ Go(i, CASE imported[Current(i)] > 0 -> "acknowledging"
             [] inbox[Current(i)].payload \in Importable -> "saving"
             [] OTHER -> "failing")
  /\ UNCHANGED <<rpc, inbox, imported>> /\ NoFault

\* Faulty: the database accepts a second order with the same external id.
AcceptsAnother(n) == TRUE

\* The unique constraint on (source, external_order_id).
AcceptsOrder(n) == imported[n] = 0

Persisted(n) == imported' = [imported EXCEPT ![n] = @ + 1]

\* Either the order is saved, or the constraint refuses it and it is found to
\* exist already.
Save(i) ==
  /\ importer[i].step = "saving"
  /\ IF AcceptsOrder(Current(i)) THEN Persisted(Current(i)) ELSE UNCHANGED imported
  /\ Go(i, "acknowledging")
  /\ UNCHANGED <<rpc, inbox>> /\ NoFault

\* The check or the save raises; a save may raise although it was committed.
StepRaises(i) ==
  /\ importer[i].step \in {"checking", "saving"} /\ Fault
  /\ \/ UNCHANGED imported
     \/ importer[i].step = "saving" /\ AcceptsOrder(Current(i)) /\ Persisted(Current(i))
  /\ Go(i, "failing")
  /\ UNCHANGED <<rpc, inbox>>

\* An acknowledgement changes a pending row only.
UpdatedPending(row, sync) ==
  IF row.sync = "pending" THEN [row EXCEPT !.sync = sync] ELSE row

\* Faulty: a row that failed is acknowledged like one that was imported.
OutcomeAlwaysSynced(step) == "synced"

\* Faulty: a failure is reported to the administrator only.
FailureNotMarked(step) == IF step = "failing" THEN "pending" ELSE "synced"

Outcome(step) == IF step = "failing" THEN "failed" ELSE "synced"

\* markSynced or markFailed, and on to the next row.
Acknowledge(i) ==
  /\ importer[i].step \in {"acknowledging", "failing"}
  /\ inbox' = [inbox EXCEPT ![Current(i)] = UpdatedPending(@, Outcome(importer[i].step))]
  /\ Advance(i)
  /\ UNCHANGED <<rpc, imported>> /\ NoFault

\* A call that raises without effect is reported, and the row left as it is.
AcknowledgementLost(i) ==
  /\ importer[i].step \in {"acknowledging", "failing"} /\ Fault
  /\ Advance(i)
  /\ UNCHANGED <<rpc, inbox, imported>>

\* The API stops in the middle of an import.
Crash(i) ==
  /\ importer[i] # Resting /\ Fault
  /\ importer' = [importer EXCEPT ![i] = Resting]
  /\ UNCHANGED <<rpc, inbox, imported>>

\* An administrator reviews a failed row and makes it pending again.
Reset(n) ==
  /\ inbox[n].sync = "failed" /\ resets < MaxResets
  /\ inbox' = [inbox EXCEPT ![n].sync = "pending"]
  /\ resets' = resets + 1
  /\ UNCHANGED <<rpc, importer, imported, faults>>
-----------------------------------------------------------------------------
CallerNext(c) ==
  \/ \E r \in Requests, p \in Payloads : Claim(c, r, p) \/ Replay(c, r, p)
  \/ Receive(c) \/ RollBackClaim(c)

\* The steps of a started import.
ImporterNext(i) ==
  \/ Check(i) \/ Save(i) \/ Acknowledge(i) \/ RefusalReported(i)

InboxNext ==
  \/ \E c \in Callers : CallerNext(c)
  \/ \E i \in Importers :
       \/ Fetch(i) \/ FetchRefused(i) \/ ImporterNext(i)
       \/ StepRaises(i) \/ AcknowledgementLost(i) \/ Crash(i)
  \/ \E n \in Positions : Reset(n)

InboxSpec == InboxInit /\ [][InboxNext]_inboxVars

\* A claimed request commits and a started import goes on.  That administrators
\* keep running the import is the operating procedure of the API's README.
FairSpec ==
  /\ InboxSpec
  /\ \A c \in Callers : WF_inboxVars(Receive(c))
  /\ \A i \in Importers : WF_inboxVars(Fetch(i) \/ ImporterNext(i))
-----------------------------------------------------------------------------
(* Properties *)

\* Every variable stays in its domain.
InboxTypeOK ==
  /\ caller \in [Callers -> {[step |-> "idle"]} \cup Claiming]
  /\ ledger \in [Requests -> Payloads \cup {NoPayload}]
  /\ inbox \in Seq(Row)
  /\ imported \in Seq(Nat) /\ Len(imported) = Len(inbox)
  /\ importer \in [Importers -> Import]
  /\ \A i \in Importers :
       /\ importer[i].todo \subseteq Positions
       /\ importer[i].step \in {"idle", "refused"} <=> importer[i].todo = {}
  /\ faults \in 0..MaxFaults /\ resets \in 0..MaxResets

\* Whoever is answered an order id finds there the content they sent, and a
\* request is answered one id only (docs/integration/customer-order-reception-rpc.md).
AnswersAgree ==
  \A a, b \in answers :
    /\ inbox[a.order].request = a.request /\ inbox[a.order].payload = a.payload
    /\ a.request = b.request => a.order = b.order

\* Supabase says synced only of a row whose order is in the local database, however
\* imports overlapped, failed or stopped (README: acknowledgement follows persistence).
SyncedIsImported == \A n \in Positions : inbox[n].sync = "synced" => imported[n] > 0

\* The content of the requests and the orders they became, as the abstract
\* specification sees them.
Received == [r \in Requests |->
  IF \E n \in Positions : inbox[n].request = r
  THEN inbox[CHOOSE n \in Positions : inbox[n].request = r].payload
  ELSE NoPayload]

OrdersOf == [r \in Requests |->
  Cardinality({o \in Positions \X (1..Cardinality(Importers)) :
                 inbox[o[1]].request = r /\ o[2] <= imported[o[1]]})]

Reception == INSTANCE OrderReception WITH received <- Received, orders <- OrdersOf

\* Ledger, inbox and import together receive every request once and import it at
\* most once, for all the retries, overlaps and crashes.
ImplementsReception == Reception!Spec

\* As long as administrators keep importing, a received order is either imported
\* and synced, or failed for one of them to review: no crash and no lost
\* acknowledgement leaves it pending for ever.  The one thing that can is a row
\* that cannot be read: it ends every import before its first row.
EventuallySettled ==
  \A r \in Requests :
    ledger[r] # NoPayload ~>
      \/ \E n \in Positions : inbox[n].request = r /\ inbox[n].sync # "pending"
      \/ \E n \in Pending : inbox[n].payload \in Unreadable
=============================================================================
