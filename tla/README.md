# SAVIS verification project

TLA+ models of SAVIS, the system in this repository: what its components do, checked
by TLC on small instances, and the most important results proved with TLAPS for every
value of the constants. Paths are relative to the repository, module names to this
directory.

- [The system](#the-system)
- [The modules and the code](#the-modules-and-the-code)
- [The runs](#the-runs)
- [Fairness](#fairness)
- [The proofs](#the-proofs)
- [What the models show of the code](#what-the-models-show-of-the-code)
- [Not modelled](#not-modelled)
- [Plan](#plan)
- [Running it](#running-it)

## The system

SAVIS runs a small catering business. It has four programs and three stores:

| Program | What it is | State |
|---|---|---|
| `savis-api` | Spring modular monolith: resources, BOM, Supply, Catalog, Sales | PostgreSQL |
| `savis-executor` | FastAPI + Celery: collects and refreshes supplier offers by scraping | PostgreSQL of its own |
| `savis-admin` | React application of the administrator | query cache and forms of each tab, drafts in the browser's storage |
| Supabase | storefront database: public catalog, reception of orders and quote requests | PostgreSQL |

They talk by HTTP (admin to API and Executor, API to Supabase, storefront to Supabase
RPCs) and by RabbitMQ (Executor to API: offer results and offer invalidations; Celery
messages inside the Executor).

```
 storefront --RPC--> Supabase <--import / acknowledge / publish-- savis-api <-- savis-admin
                                                                     ^               |
                              savis.offer.results, .invalidations    |               | HTTP
     Maxi web site <--page loads-- savis-executor -------------------+ <-------------+
                                     (API, Beat, one Celery worker)
```

### Inventory

| Component | State | Operations | What is hard | What makes it correct |
|---|---|---|---|---|
| Provider access policy (Executor) | one row per provider: slots, circuit, probe | wait for a request, record a success or a block | clock read before the lock, sleep after the commit, workers killed between two transactions | requests are spaced, never early; a refused provider is left alone, and probed once per timeout |
| SAVIS tasks (Executor) | `savis_tasks`, one Celery queue, worker, Beat | create, push, deliver, retry, report an outcome, clean up, schedule | row and message in two systems, early acknowledgement, kills without callback, cleanup in the queue it cleans | one active refresh of an offer; no task is dropped; each reaches one consistent outcome |
| Offers (Executor) and Supply (API) | `offers` in both databases, two queues, two listeners | review, delete, refresh, observe, publish, apply, associate | read, minutes of scraping, save whole row; publication without outbox; queues that overtake each other; flush of all columns | only reviewed offers are priced; Supply agrees with the Executor |
| Order reception and import | ledger of request ids, `customer_orders`, local orders | receive, replay, import, acknowledge | repeated and concurrent calls, two databases, crash between them, ambiguous saves | a request is received once, becomes one order at most, is synced only if imported, is settled in the end |
| Orders, quotations, invoices (API) | three tables | create, replace, change status, convert, bill, issue, pay, cancel | concurrent requests, rows with and without lock or version | agreed terms stay agreed, one invoice per order, an issued invoice is frozen |
| Quote requests (API, pages) | request row with a version, its quotations, forms and dialogs of each page | qualify, propose, repeat, close, refetch | expected versions, dialogs that copy what the page shows, lost answers, intentions sent again | a proposal is made of what its author saw, once; no qualification is lost |
| Order pages | creation draft in `sessionStorage`, query cache, edit form | create, edit, change status, bill | handlers that go on after an await, on whatever page is shown by then | drafts are not lost or doubled; the page shows its own writes |
| Quotation and invoice pages | the same, and the mounting of a page by its route | create, edit, send, convert, issue, pay, cancel | a component that outlives its route | a form is saved on the document it was filled from |
| Catalog pages, product rows, publication | product rows, public projection in Supabase, editor, draft in `localStorage` | save, publish, unpublish, delete | two stores without a common commit, one draft for all tabs, saves from a cached copy | the storefront shows what is published |
| Compositions (BOM) and pages | compositions, their component rows, active resources, form and draft | save, delete, clone, deactivate | rows found again by identifier, resources deactivated behind the page | what is shown can be saved; an offer fits its resource |
| Rates, resources, supplier offers, reviews: API and pages | rows of savis-api and of the Executor, list in the URL, dialogs, optimistic updates | every change these pages offer | answers that close dialogs, optimistic lists, page numbers beyond the list | an answer closes its own dialog; a status shown is the one confirmed |
| Quote-request reception and import | receipts and requests in Supabase, local requests | submit, import, acknowledge | the inbox protocol again, window of rows, acknowledgement by id alone | a submission is received once |
| Catalog ordering and pricing | none | resolve a line's configuration, price it | many purchase modes | the price is that of the configuration |
| Supply pricing, order requirement report | none | cheapest compatible offer, needs of orders | units | the minimum over compatible offers |
| Sales workspace | none | assemble dossiers, offer actions | actions must be those the services accept | an offered action is not refused |
| Money, units, PDF | none | arithmetic, rendering | rounding | - |
| List pages, dashboard and shell of the admin | none | tables, navigation | - | - |
| Deployment, backup, restore | - | shell scripts | - | - |

`PROJECT.json` lists the components with their sources and status, and every behaviour
of the code that a test would hardly reach ("hazards"), at its line, with the
properties that watch it.

## The modules and the code

`PROJECT.json` ("map") names for each definition the lines it models. What is left out
of the data is said here; control is kept as it is in the code.

### `ProviderAccess`: `provider_access_policy.py`, `scraper.py` (`load_page`)

One row of `provider_access_states` (providers do not interact) and the page loads of
the workers. A page load is the sequence `Call` (the clock is read) - `Reserve` or
`Refuse` (the locked transaction) - `Wake` - `Navigate` - `Outcome` (the clock is read
again) - `RecordSuccess`/`RecordBlock`, with `LoadFails`, `RecordFails` and `Die`
(crash, redeployment, or the hard time limit of Celery) in between, because these are
the points where other workers and time can come in. The random delay is any value of
`MinDelay..MaxDelay`. What the page contains is not modelled, only which of the outcomes
(expected page, refusal, other error) it leads to. `slots` is history: every request slot
granted, in the order of the commits, so that two grants of one slot are told apart.

### `SavisTasks`: `use_case_savis_tasks.py`, `savis_task_repository.py`, `celery_*.py`

The row, the message, the creating thread and the worker of each task. A thread that
creates a task (the API's event loop, the RabbitMQ subscriber, or the worker that runs
the hourly schedule) saves (`Save`, `SaveRefused` by the partial unique index), pushes
(`Push`, `PushRaises`) and reports (`MarkPushFailed`). A worker takes a message
(`Deliver`; acknowledged early, so that only a lost acknowledgement delivers it again),
runs it to an exception or a result, retries, and writes the outcome in two steps,
load and flush, of which the flush writes the changed columns only (`Flush`). The
cleanup of stale tasks and the schedule are messages of the same queue. `age` is the
time since `updated_at` up to the first stale value. What the handlers do to offers is
`OfferPipeline`. `queue` is a set: the broker delivers in order, which matters only for
how long a task waits, and the model lets it wait for any time.

### `OfferPipeline`: `use_case_offers.py`, `publisher.py`, Supply's `OfferService`, `OfferRepositoryAdapter`, listeners

One supplier product from the Executor's row to its rows in Supply. The API of the
Executor serves one request at a time (its handlers are synchronous inside `async`
routes), the worker one task; both read the row, work, save the whole row they read
and publish afterwards. In Supply each transaction loads a row and writes all columns at
commit (`Flushed`), because `OfferEntity` has neither `@Version` nor `@DynamicUpdate`.
The variable `explained` records that one of the causes, each named at the action where
it happens, has made Supply and the Executor disagree: `AgreesUnlessExplained` then says
that the list of causes is complete. `merge()` in an Executor save is load and flush in one
step. Prices and package sizes are members of `Data`.

### `OrderReception`, `OrderInbox`: `receive_customer_order` (SQL), `ImportOrdersUseCase`, `SupabaseOrderInboxAdapter`

`OrderReception` is the promise: a request is received once with one content and becomes
one local order at most. `OrderInbox` is the code: the RPC with its ledger as a claim
(row inserted, others wait), a commit (`Receive`) or a roll back, and a `Replay` for
a known id; the import as one read of all pending rows and then, oldest first, check, save
and acknowledgement, each of which can fail alone or be ambiguous. Contents are of three
classes, after what the two mappers do with them: importable, refused by the import
mapper, unreadable for the inbox mapper. `ImplementsReception` is the refinement.

### `Sales`: `OrderService`, `QuotationService`, `InvoiceService`, their records and repositories

Each request is one transaction at READ COMMITTED with the row it read and the row it
will write. Quotations, invoices and the order being billed are read `FOR UPDATE`; the
requests on orders read without a lock, and `OrderEntity` has no version. `Written` is
what Hibernate then flushes: all columns of the row, but only the item rows that changed.
Simplifications: the items and amounts of a document are one value, the moment they were
entered (`Lines`), and `total` is the content the total was computed from, so that only
their agreement is kept; a replacement is taken to change the total; the order row and
its items are read in one step; the flush and the commit are one step; customer columns
are not modelled, so that `CorrectCustomer` writes back the row it read; requests that
change nothing (the present status again, an invoice that exists already) are no steps.
`@Version` of quotations and invoices adds nothing to the row locks. `crossed` is history:
the orders that were written over by a transaction that had read an older row.
### `QuoteRequests`: `CreateQuoteRequestProposal`, `QuoteRequest` and its repository; the quote-request pages

One request row and the details pages of several administrators on it. On the server a
call is one step (`Execute`), because it holds the row lock (`findByIdForUpdate`) from its
read to its commit: it finds a proposal already made under its key, or checks the expected
version and the state, and writes. On a page the `view` is the copy it shows, `fetch` the
GET under way, `edit` the qualification form, `form` the proposal dialogs. The form and
the dialogs copy version and lines when they are opened (`BeginEdit`, `OpenForm`); a
confirmation makes an intention, whose key is repeated until it is answered (`Confirm`).
An answer (`Deliver`) invalidates the query, and the mutation ends with the refetch
(`Arrive`, phase `settling`); a failed refetch unmounts every form of the page
(`FetchFails`). Calls and answers get lost (`Lose`), a call may be executed after its
answer was given up. `recognised` is what the catalogue still recognises in the original
request, which moves by itself (`CatalogueMoves`). `changeStatus` is modelled for CLOSED,
the only value the pages send. Names, notes, exclusions, validity and amounts are part
of a line's content; the import is not modelled, the request is there at the start.
A quotation keeps, as history, what its author saw (`seen`, `knows`).

### The desk modules

Each of these models the part of savis-api that its pages use and one browser tab, with
everything a second tab or another administrator does to it as actions of their own
(`OtherWrites`, `OtherSaves`, `OtherDeletes`, `OtherTab`, `Other`, `Deactivate`). A call
is on the `wire` until the server executes it, its answer in `answers` (`replies` in
`OrderDesk`) until the browser handles it, and, where the handler awaits a refetch, in `settling` until that has come.
A call of a page that was left is executed all the same; whether its answer still does
something is, in each module, as the code has it: callbacks given to `mutate` are dropped
with the component, what follows an `await mutateAsync` is not. Text is told by a
number (what was typed first, second, by another), amounts and validation by the fact
that the server may also refuse a save for its content. Creating and working on what
exists are explored apart (the bound is named in `Init`).

`OrderDesk` (`OrderDetailsPage`, which also creates, `useOrderApi`, `useOrderEditor`, the
draft storage; `Order`, `OrderService`): `stored` is the draft in `sessionStorage`,
`draft`/`baseline`/`mode` the editor, `cache` and `fetch` the query of each order.
`Created`, `Updated`, `StatusChanged` and `Invoiced` are the ends of the handlers, on
whatever page the tab shows by then.

`DocumentDesk` (`QuotationDetailsPage`, which also creates, `InvoiceDetailsPage`, their
hooks; `QuotationService`, `InvoiceService`): `Jump` is a change of the route under one
component, which starts a quotation's page afresh (it is keyed by its number) and leaves
the form of an invoice as it is; `Opened` the navigation by the answer to a conversion or
an invoice request.

`CatalogDesk` (`CatalogProductsPage`, `CatalogProductEditor`, the draft storage;
`ProductService`, `CatalogPublicationService`, `ProductRepositoryAdapter`): a publication is
three steps on the server, `Begin` (the row is read), `Push` (the storefront is written)
and `Commit`, each of which may fail or overlap with a save or deletion; `crossed` holds
the products whose mark and projection were set apart by one of the named causes.

`BomDesk` (`BomPage`, `useBomForm`, `useBomList`, `BomComponentInput`, the loader and the
draft storage; `BomService`, `BomRepositoryAdapter`, and what `ResourceService` and
`OfferService` do to resources and offers behind it): a save is accepted (`Allowed`) if
each resource is active or kept in the row that had it and the unit of each component
suits its resource (`Suiting`), and then finds the component rows again by identifier
(`Numbered`). `material` holds the reference unit of each resource and the resource of
each offer; a unit is edited (`ReviseUnit`) and an offer associated with another resource
(`Associate`) whatever compositions refer to them, and the form offers units and offers as
it last read them (`seen`, `ReadMaterials`). `past` is history: every state of the material
there has been. A unit counts by its base (mass, volume, ...), which is all the check
compares. `Follow` and `Opened` are the route with its loader.

`ProcurementDesk` (activity rates, resources, supplier offers and the review of acquired
offers: their pages, hooks and the services they call): `view` is what the URL asks of
the list, `shown` the list as it was last read, `dialog` the one dialog that is open.
`ChangeStatus` is optimistic, with its put-back on a refusal; a resource is written in two
steps (`Begin`, `Commit`) because its row has no version. A search of the supplier offers
changes the text and the page number in the URL at once (`Search`) and what is asked for
300 ms after the last key (`Debounce`), while the list of the former search stays shown.
Simplifications: a copy of another list in the query cache is not shown while that list is
read again, which changes nothing for the properties (what the page knows of its reviews,
`ours`, is forgotten with the list); coming back to a page starts a reading although one
under way would be joined. History: `ours`, the reviews this page gave last, since it asked
for the list it shows; `searched`, the supplier offers shown are not those of the search;
`thinned`, a supplier offer was withdrawn or the page was turned among those.

## The runs

All bounds are constants of the instances (`*.cfg`) or guards named in the modules.

| Run | Instance | Shows |
|---|---|---|
| `provider_access_pair` | two workers, one of which may die; delays of 2 and 3, two cooldowns, clock to 5 | `SlotsSpaced`, `ProbesSpaced`, in every interleaving of two transactions |
| `tasks_deployed` | one worker, two refreshes of one offer; a retry, a redelivery, a fault | `OneActiveRefresh`, `Accounted`, `OutcomeConsistent`, `CompletedIsFinal`; no deadlock |
| `tasks_live` | a refresh and a collection, one fault, `FairSpec` | `EventuallyTerminal`; no deadlock |
| `offer_pipeline` | six requests and tasks, two faults, two ids and a manual one, two data | `NothingUnreviewed`, `AgreesUnlessExplained` |
| `order_inbox` | two requests, three contents, two callers, two imports, three faults, two resets, `FairSpec` | `AnswersAgree`, `SyncedIsImported`, `ImplementsReception`, `EventuallySettled` |
| `sales` | two requests at a time, one quotation, two orders, one invoice | `AgreedTermsKept`, `LookupStaysValid`, `LawfulUnlessCrossed`, `IssuedIsFrozen` |
| `quote_requests` | two pages with a form and a dialog each, one line of two contents, two calls, one event | `QuotedAsSeen`, `InformedProposals`, `ConfirmedIsShown`, `RetryIsHonoured`, `NoLostQualification` |
| `order_desk` | two orders, two texts, two calls, one event | `RestsOnOwnWrites`, `OneOrderPerDraft`, `DraftSurvives`, `TypedTextKept` |
| `document_desk` | two documents, one text, two calls, one event | `OwnForm`, `StoredDraft` |
| `catalog_desk` | one text, two calls, one event | `StorefrontAccounted`, `DraftStored`, `OneProductPerDraft` |
| `bom_desk` | two resources, two bases of units, one offer, one component, one change in the form, two calls, one event | `SavedAgain`, `OfferFits`, `DraftStored`, `OneBomPerDraft` |
| `procurement_desk` | each of the four pages; two resources, one rate, two offers, one text or search, two calls, one event | `ClosedByOwnAnswer`, `StatusSettled`, `ReviewKept`, `NoEmptyPage` |

An event is a lost call or answer, a failed read, a reload, leaving the page
(`procurement_desk`), or a write from elsewhere.
A property that names exceptions (`AgreesUnlessExplained`, `LawfulUnlessCrossed`,
`StorefrontAccounted`, `SavedAgain`, `OwnForm` and others) says that nothing else than the
named causes can break what a user expects; the exceptions themselves are listed
[below](#what-the-models-show-of-the-code).

Why the bounds are enough to meet the cases:

- Provider: two cooldowns show the saturation of the last one; the clock passes a
  cooldown, a probe and its timeout, and the workers overlap in every phase. The delay is
  2, so that a slot granted twice and one that comes a moment too early both violate
  `SlotsSpaced`; two workers show every order of two reservations, and each repeats.
- Tasks: two refreshes of one offer are what the index must keep apart, with one fault
  at any point of either. `TimeLimit` and `StaleAfter` are 1 so that a kill and a stale row
  happen at once; the order of longer times does not change what is enabled.
- Offers: a disagreement takes at most create, accept, one change and one read that is
  too old: four to five operations; the sixth lets a product be deleted and found again.
- Inbox: a second call or import is all that an overlap needs, three faults cover a lost
  commit, a lost acknowledgement and a crash in one behaviour, and two resets a row that
  failed twice.
- Sales: the rows of different documents meet only in a conversion (one quotation, its
  order) and in billing (one order, one invoice); the second order is there so that the
  one of the quotation can be a wrong one. Two requests are what a lost update needs.
- Quote requests: two calls are a confirmation and its repetition, or the writes of two
  administrators; one event loses the answer between them. One line can be missing,
  present, changed and ticked or not, which is all a comparison of what was seen with
  what was quoted can tell. The proofs cover any number of each.
- Desks: each hazard is one late answer or one stale copy: two calls (the early and the
  late one) and one event from outside are what it takes. A second text is needed where a
  text may replace another (`order_desk`), a second document where a page goes from one to
  another, a second resource where a component changes its resource, and a second offer
  where a page of the list empties. In `bom_desk` the one event is also an edit of a unit or
  an association; components added beside others, whose rows shift, and several offers are
  covered by the proofs, which have no bound on either.

Deadlock checking is off where the system may really stop: the clock, the calls or the
operations have reached their bound, every document its last status, every request its
answer. In the task runs it is on: time and Beat always go on.

In each passing run every property is also tried against a faulty variant of a definition
(`PROJECT.json`, "mutants"), and
TLC finds the property violated.

## Fairness

- `SavisTasks.FairSpec`: time passes (`WF Tick`), Beat publishes the cleanup
  (`WF Beat(Cleanup)`: its container is `restart: unless-stopped`), the hard limit kills a
  worker that reached it (`WF Kill`, Celery's parent process), the queue is first in first
  out, so that a cleanup message is not passed over for ever (`SF Deliver`), and the
  cleanup, one UPDATE statement, does not lose against its time limit each time
  (`SF MarkStale`). Nothing is assumed of the handlers, of retries or of the threads that
  create tasks: they may hang until killed.
- `OrderInbox.FairSpec`: a claimed RPC commits unless it fails (`WF Receive`), and imports
  are run and go on (`WF Fetch \/ ImporterNext`). That the administrator runs the import
  again is the procedure of `savis-api/README.md`; nothing in the code does it.
- The other modules assume no fairness and state no liveness: an administrator may stop
  at any point, and a call may never be answered.

## The proofs

TLAPS checks the following for every value of the constants (any number of workers,
clients, documents, pages and messages, all delays and cooldowns, no bound on time, calls
or faults), from the assumptions named in the modules and nothing else.

`ExecutorOffersProofs` has the two modules of the Executor that meet at an offer.

Of `ProviderAccess` (its specification is `AccessSpec`): the invariant `AccessInv` is
`AccessTypeOK /\ CircuitShape /\ RowOrder /\ LoadOrder /\ SlotsSpaced`.
`RowOrder` (the next free slot of the row is at least `MinDelay` after every slot granted,
not only after the last) and `LoadOrder` (a
sample is not in the future, a sleep ends no earlier than its slot, who is past the sleep
is past the slot) are needed because the effect of a step is computed from a sample that
may be older than the row it is applied to. From it: `AccessTypeCorrect`,
`NeverBeforeSlot`, `CircuitConsistent`, `SlotSpacing`, `ProbeSpacing`, and, with
`SeenClear` for a single worker (the suspension of the row was already over at the sample
of whoever is under way), `SuspensionRespected`.

Of `OfferPipeline`: a thread of the Executor may save a row it read long before, a
listener may apply a message that is older than its row, so the invariant `IInv` says of
every place an offer can be in that an operator accepted it before: `ExecutorSound` (rows
and copies held by threads), `ResultsReviewed` (both queues), `SupplySound` and
`RowsReviewed` (rows and what transactions loaded). From it: `TypeCorrect`,
`OnlyReviewedIsPriced`. `ProjectionAgrees` shows that the list of
causes in `explained` is complete. Its invariant `AInv` adds, as long as no cause has
happened: `Deciding` (what a thread of the Executor is about to publish is the present
row), `Served` (one queue at most carries messages, and a transaction of Supply read what
is in its row) and `Settling` (once what is under way has ended, Supply shows what the
Executor has).

`SavisTasksProofs`: the effects of a step come first, one lemma per variable (`TaskSteps`,
`EnqueuerSteps`, `WorkerSteps`, `MessagesFlow`: a message comes from a publication or from
the run that is retried; `RunSource`: a run comes from a message). The invariant `IInv` is
`Shape` (types, which job a worker has at which step, and that a worker that creates a
task waits for it), `Begun` and `Fresh` (messages and runs only after the publication, no
row before the commit), `ReadWithOutcome` (a row read with an outcome is not in progress
when it is written), `OneActiveRefresh` and `Accounted`. `ReadWithOutcome` is needed
because a flush does not write a status that equals the one loaded: a row that went back
to in progress in between would stay there, with nobody left to end it. From it:
`TypeCorrect`, `RefreshesAreUnique`, `NothingIsDropped`. `CompletionIsFinal` adds
`Undoubted`: for a task whose publication, delivery or commit was never in doubt, one
thread, message or worker at most has it, and nobody has a completed one; any number of
workers. `OutcomesAreConsistent` adds `OneStory` and assumes `Alone`, the single worker of
the deployment: the cleanup runs on the same worker, so what a worker read of a row is
still there when it writes. With two workers it is not, and the row may mix the columns of
two outcomes.

`OrdersProofs` has the reception of customer orders, the sales documents and the order
pages.

Of `OrderInbox` (its specification is `InboxSpec`): `Claims` (a request is claimed by one call, before it is in the
ledger), `OneRowEach` (a row has the content its request has in the ledger, and no other
row has the same request), `AnswersKept` (what was answered is in the inbox), `SavedFirst`
(an import acknowledges a row as imported only when its order exists), `AtMostOneOrder` and
`SyncedIsImported`. That a set of rows has an oldest one is a lemma of its own. From it: `InboxTypeCorrect`, `AnswersAlwaysAgree`,
`SyncedIsAlwaysImported`, and the refinement `ReceptionIsImplemented`: initial states map
to initial states of `OrderReception`, and each action to one of its actions or to a
stutter, one lemma each.

Of `Sales`: the invariant joins `TypeOK` with what open transactions know. `Locks`: no
two transactions hold one row lock. `QuotationTx`, `BillTx`, `InvoiceTx`: what a locking
transaction read still holds of the row in the table when it writes. `OrderTx`: a request
on an order, which has no lock, still knows its origin and source, and cannot replace an
order that came from a quotation. `OriginIsConversion`, `PaidIsIssued`, `BilledExists`:
facts about the tables. With `AgreedTermsKept`, `LookupStaysValid` and
`LawfulUnlessCrossed` they are inductive (`Invariance`, one lemma per action). From it:
`TypeCorrect`, `TermsAreKept`, `BillingNeverCollides`, `OrdersAreLawful`,
`IssuedStaysFrozen`.

Of `OrderDesk` (its specification is `DeskSpec`): `TypeInv` says of every call that it is
about an order that was made (`Aimed`) and of every positive answer that it brings that
order as it was, no newer than its row (`Granted`); both last because rows are only added
and revisions only grow (`Grows`, `NetStays`). `RestInv` adds to `RestsOnOwnWrites` that a
confirmed write of the page is in its row (`AckedIsWritten`) and that a read that has come
back since began after it (`ReadIsLater`): the handlers cancel or repeat what was under
way. `HereInv`, that calls whose callbacks still run are about the page that is shown, so that
no answer to an earlier page writes into a form; `TypedStays` rests on it. `DraftInv`, for the drafts, is as in `BomDeskProofs`. From them:
`DeskTypeCorrect`, `RestsOnItsWrites`, `DraftIsKept`, `TypedStays`, `OneOrder`.

`QuoteRequestsProofs`: all that keeps a proposal right is the version number, so the
invariant says what it stands for: whoever holds the present version of the row knows what
the row holds (`ViewsAreRight`, `FetchesAreRight`, `EditsAreRight`, `CallsAreRight`,
`FormsAreRight`, for every copy in a page, a refetch, a form, a call and a dialog), and
nobody holds a later one. `FormsAreRight` also says that, while the page shows the copy a
dialog was opened on, the chosen lines are among those of the copy. `OneInFlight` (a component that waits has one call
or one answer under way) and `FormsAnswered` (a positive answer is about a quotation that
exists, and a reported one is on the page) carry the argument through lost and repeated calls; `QuotationsAreRight` holds the
promises themselves and that each quotation moved the version on. From it: `TypeCorrect`,
`QuotationsAreAsSeen`, `ProposalsAreInformed`, `ConfirmationsAreShown`,
`QualificationsAreKept`, `RetriesAreHonoured`.

`DocumentDeskProofs`: a saved form is right because of what the page shows when it is
saved, so `FormIsRight` says of the page that the editor of a quotation is filled from the
quotation it shows, and an open form of an invoice from that invoice unless `carried`, and
of what is under way that an update whose handlers still run belongs to a page with a
document (its answer writes into the form). `GrownKeeps` (writes of the server and of
others do not change the kind of what is shown), `FilledKeeps` (whatever copy comes in),
`DesertKeeps`, `MountKeeps` and `NavigateKeeps` (changes of page) carry it through the
actions, one lemma each. From it: `TypeCorrect`, `FormsAreOwn`, `DraftsAreStored`.

`ProcurementDeskProofs`: `Shapes` and `TypeInv` (calls, dialogs, answers and lists have the
fields of their kind, and what is asked of a resource names one that is there) carry four
invariants. `ReviewInv`, for the reviews, has four parts: calls are awaited and dialogs open
only on the page that is shown (`HereInv`); one change of a review is awaited at a time, and
none while one is edited (`AloneInv`), because the buttons wait until the list is read
again; a review that the page gave is what its list shows, or what the reading under way
will bring, or an answer is there that asks for that reading (`KnownInv`); so an edit, in its
dialog or on the wire, holds the review its offer has, unless others changed it
(`RightInv`). `OwnInv`: one save of a resource is awaited at
most, wherever it is, and the dialog that asked for it is still open, because it cannot be
closed while it saves. `EmptyInv`: an empty list is explained, by there being nothing or by
a page number that is corrected; a list of supplier offers that is not of another search
never tells of more offers than there are (`Within`), and while it is of another search the
first page is asked for, unless the page was turned (`NthExists`, by the least element of
what is still to be numbered). `SettledInv`:
whatever may still change the list of resources will have it read again. From them:
`TypeCorrect`, `FrequencyKeepsReview`, `AnswersCloseTheirOwn`, `EmptyMeansNone`,
`StatusesSettle`.

`BomDeskProofs`: `TypeInv`; `FitInv`, that an offer has been associated with the resource of
its component in the form, the draft, the cache, the calls and the rows, whatever becomes of
the material afterwards (`past` only grows); `DraftStored`, which is inductive as it stands;
`DraftInv`, for the drafts: their numbers are not used again (`DraftNumbers`), one creation
of a draft is awaited at most (`OneAwaited`) and has made nothing before the server ran it
(`NotMade`), and a draft that made a composition is not sent again (`Finished`), because its
page still awaits the answer or the composition that opens, unless it is unsure. `SavedInv`, for what a
page shows: names differ, resources are given, each component saved had a unit that suited
its resource at that time, and the component rows of the form that
have an identifier are, in their order, among the rows of the server (`Embeds`). When the
form has as many rows as the server, it therefore has the same ones (`InPlace`, by the
least row that differs), which is what the save looks for. From them: `TypeCorrect`,
`OffersBelong`, `TypedIsKept`, `OneBom`, `ShownIsSaved`.

`CatalogDeskProofs`: `TypeInv`; `DraftStored`, which is inductive as it stands;
`PublicationInv`, of each product: a publication that runs alone is the only one and the
storefront shows what it wrote (`RunsAlone`), publications at once count as a cause
(`RunsCrossed`), and without a cause the row still has the mark that the publication read
(`KnowsMark`), so that the write it may leave out is not needed. `DraftInv`, for the
drafts, as in `BomDeskProofs`: numbers that are not used again, one save awaited at most,
and a draft that made a product is not sent again, because its page still awaits the answer
or the list it reads anew (`DraftFinished`). Steps that make nothing share one lemma
(`QuietDrafts`), those that answer a call another (`AnsweredDrafts`). From them:
`TypeCorrect`, `TypedIsStored`, `StorefrontIsAccounted`, `OneProduct`.

The assumptions of the constants say no more than that marks are told apart from data
(`None` or `Null` is no resource, page, number, row or copy, and a page without an order is no
order) and that bounds are natural numbers.

Only model-checked: liveness (`EventuallyTerminal`, `EventuallySettled`), which is out of
TLAPS's reach. Three invariants of `ProviderAccess` (`NotBeforeSlot`, `CircuitShape`,
`QuietWhileSuspended`) are proved and have no run.

## What the models show of the code

The properties name their exceptions. Each of the following is behaviour of the code that
an exception stands for, or that a property had to be worded around; they are for whoever
decides whether it is intended.

Services:

- A task that only waits in the queue for longer than the stale timeout is marked FAILED,
  and is run and completed later: `mark_stale_in_progress_as_failed` selects by status and
  `updated_at` alone. `docs/ARCHITECTURE.md:864` speaks of tasks "whose worker never
  reported a terminal state".
- A refresh that read its offer before the operator rejected it saves it VALID again
  (`use_case_offers.py:213` and `:232`; `savis-executor/README.md:153`).
- A result that loaded its Supply row before an association was committed writes the row
  without it (`OfferRepositoryAdapter.java:109`: "Acquisition refreshes never overwrite an
  operator-validated association"); the entity has no version.
- A customer-order row that cannot be read raises out of `fetchPending` and stops every
  import (`SupabaseOrderInboxAdapter.java:80`; `savis-api/README.md:580` "Each row is handled
  independently"). Each request is settled in the end only once no such row is pending.
- A status change of an order that crosses a replacement writes the old total over the new
  items, and the row can no longer be read (`OrderService.java:217`; `savis-api/README.md:249`).
- Publications of one product at once, a lost answer of Supabase, the deletion of a
  product that is projected, or a save from a copy older than a publication set the
  product's mark and its projection apart. A publication that overlaps a save writes back
  the product's own columns as it had read them.
- Names of compositions are unique, so that a second clone of one is refused; a clone of a
  composition with components is always refused, because it sends their identifiers. A
  deleted composition is made again by a save from a page that was opened before, if no
  component carries an identifier.
- Page loads are spaced by their reserved slots; the connection to the browser comes after
  the sleep (`scraper.py:58`), so that two navigations may start closer than the delay.
  `savis-executor/README.md:401` says that navigation starts are separated.
- Resources are written whole from the row that was read: an edit and a status change at
  once lose one of them.

Pages:

- Quote request: a line of a preparation that was never saved, hidden by a refetch while a
  dialog is open, stays selected and may be quoted (the exception of `QuotedAsSeen`). A
  repetition that overtakes its own delayed first copy can be refused although the copy
  then makes the quotation. A failed refetch unmounts the forms of the page. Text typed
  during a save of the qualification is dropped by its success.
- Orders: the end of a creation that was left empties the stored draft under one being
  written and navigates away from it; what is typed during a save is replaced by its answer.
- Invoices: the page is not keyed by the invoice, so that an open form survives a change of
  the route and is saved on the other invoice (the exception of `OwnForm`). Quotations: the
  late end of a creation empties the stored draft and opens the quotation without asking;
  cancelling keeps the stored draft; contact and note are never stored.
- Catalog: the late end of a creation empties the draft shared by all tabs; keeping the
  draft overwrites a newer one of another tab; a refetch without the product closes its
  editor. `usePublishCatalog` is used by no page.
- Compositions: a component added on the page has no identifier until the page is opened
  again; when its resource is deactivated the next save is refused although the page says
  the resource is kept, and so is any save of a composition with a resource whose unit was
  edited to another base (`BomService.java:88`; the exceptions of `SavedAgain`). An offer that
  is associated with another resource stays selected in the compositions that had it
  (`OFFER_RESOURCE_MISMATCH`; `OfferFits` says that there is no other way to it). Cancelling on an existing
  composition asks about the draft of the new one, and can delete it. Typing while a created
  composition is being opened writes a draft nobody sees.
- Rates, resources, offers: the late success of a manual offer or a retrieval closes the
  dialog opened meanwhile and drops its text (the exception of `ClosedByOwnAnswer`); rate
  and review dialogs close when sent, and a refusal loses what was typed. An edit of a
  frequency from a list that another administrator's review has overtaken, or whose last
  reading failed, undoes that review (the exceptions of `ReviewKept`). The
  review list brings a page number beyond its end back; the supplier offers do not, so that
  a page emptied by a withdrawal, or by turning the page before a search just typed is asked
  for (`useSupplyOffers.ts:32` and `:39`), says that nothing matches, without a way back (the
  exceptions of `NoEmptyPage`), and so do the other lists paged by the server.

## Not modelled

- Reception and import of quote requests: the protocol of `OrderInbox` once more, with a
  window of the oldest rows and an acknowledgement by id alone; planned.
- Pricing and ordering configurations, the cheapest offer, the requirement report, the
  workspace's dossiers: queries and computations without state.
- Decimal and floating-point arithmetic (`Money`, `Quantity`, `Unit`), PDF rendering,
  formatting and search: computations without control, or output.
- HTML extraction: what a selector finds in a third party's page.
- The list pages, dashboard and shell of the admin application: tables over what a query
  returned. The lists that are worked in are part of the desk modules.
- Supabase tables, grants and policies; deployment, backup and restore scripts.
- `ComponentNeededEvent` of the API: no use case publishes it any more; the subscriber that
  would receive it is `Request(t, "subscriber")` of `SavisTasks`.

## Plan

Done: the eleven models above, the abstract specification `OrderReception` and its
refinement, and the proofs of all their invariants and action properties.

Next, in this order:

1. The import of quote requests, as a second instance of `OrderReception` with what is
   different: the window, and an acknowledgement that may fall on a row already synced.
2. Pure operators: allowed purchase configurations, prices in cents, cheapest offer, and
   the permitted actions of the workspace (`ActionPolicy`) against the guards of `Sales`.

## Running it

With TLC, the community modules and TLAPS 1.4.5 on the path, in this directory:

```
tlc -workers 2 -config MCSales.cfg MCSales          # one run; see PROJECT.json "runs"
tlapm OrdersProofs.tla                              # one proof module
```

A run takes from twenty seconds to two and a half minutes with two workers.
