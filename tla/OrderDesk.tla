----------------------------- MODULE OrderDesk -----------------------------
(* The orders of savis-api and one browser tab of the admin application on
   them: the page that creates an order, whose draft lives in sessionStorage,
   and the details page of an order, over a query cache.

   A save is an await in the middle of a handler: while it lasts the
   administrator types on, leaves, comes back or reloads, and when the answer
   is there the rest of the handler runs, whatever page is shown by then. *)
EXTENDS Naturals, FiniteSets, Sequences

CONSTANTS
  Null,
  Sent,        \* a GET the server has not answered
  Elsewhere,   \* a page without an order
  New,         \* the page that creates an order
  MaxOrders,   \* bound on the orders of the API
  MaxEdits,    \* bound on what is typed in the tab
  MaxCalls,    \* bound on the calls of the tab
  MaxEvents    \* bound on lost calls, reloads and writes of others

ASSUME MarksAssumption == Null # Sent /\ Elsewhere # New
(* A page is told from an order. *)
ASSUME PagesAssumption == {Elsewhere, New} \cap (1..MaxOrders) = {}
ASSUME BoundsAssumption ==
  MaxOrders \in Nat \ {0} /\ MaxEdits \in Nat /\ MaxCalls \in Nat /\ MaxEvents \in Nat

Statuses == {"NEW", "ACCEPTED", "IN_PREPARATION", "READY", "COMPLETED", "REJECTED", "CANCELLED"}
(* What is typed is told apart by its number; 0 is the empty form and the last
   number what another administrator types. *)
Contents == [customer : 0..MaxEdits + 1, items : 0..MaxEdits + 1]
Empty == [customer |-> 0, items |-> 0]
Others == [customer |-> MaxEdits + 1, items |-> MaxEdits + 1]
Copies == [source : {"ADMIN", "SAVOURETPLUS_WEB"}, status : Statuses, content : Contents, rev : Nat]
ASSUME NoneAssumption == Null \notin Copies

VARIABLES
  orderTable, \* the rows: source, status, content, revision, and the draft they come from
  wire,       \* calls under way
  replies,    \* answers under way
  settling,   \* answered mutations that wait for the refetch they caused
  cache,      \* the tab's copy of each order
  fetch,      \* the GET of each order: Null, Sent or what was read
  at,         \* the page: Elsewhere, New or the number of an order
  mode,       \* editMode: Null, "full" or "customer"
  draft, baseline, initialized,
  busy,       \* pending mutations of the page
  stored,     \* the draft in sessionStorage
  drafting,   \* the draft being written, told by the calls made before it
  acked,      \* revision of the last write of the page whose answer it has had
  late,       \* an answer came to a creation page that had been left
  unsure,     \* drafts whose creation was left, reloaded or lost
  typed, calls, events

page == <<at, mode, draft, baseline, initialized, busy>>
net == <<wire, replies, settling>>
ghosts == <<acked, late, unsure>>
deskVars == <<orderTable, net, cache, fetch, page, stored, drafting, ghosts, typed, calls, events>>

Ids == 1..MaxOrders
Known == 1..Len(orderTable)
Existing == {n \in Known : orderTable[n].draft = 0}
CopyOf(row) == [source |-> row.source, status |-> row.status, content |-> row.content, rev |-> row.rev]
Copy(n) == CopyOf(orderTable[n])

-----------------------------------------------------------------------------
(* Rules of the order (order.domain.Order) *)

NextOrderStatuses(s) ==
  CASE s = "NEW" -> {"ACCEPTED", "REJECTED", "CANCELLED"}
    [] s = "ACCEPTED" -> {"IN_PREPARATION", "CANCELLED"}
    [] s = "IN_PREPARATION" -> {"READY", "CANCELLED"}
    [] s = "READY" -> {"COMPLETED", "CANCELLED"}
    [] OTHER -> {}
CanEdit(o) == o.source = "ADMIN" /\ o.status = "NEW"
CanEditWebCustomer(o) == o.source = "SAVOURETPLUS_WEB" /\ o.status = "NEW"
CanInvoice(o) == o.status \in {"ACCEPTED", "IN_PREPARATION", "READY", "COMPLETED"}

Rewritten(n, content, status) ==
  [orderTable EXCEPT ![n].content = content, ![n].status = status, ![n].rev = @ + 1]
WithCustomer(content, from) == [content EXCEPT !.customer = from.customer]

(* The rows after a call that is accepted. *)
Result(c) ==
  CASE c.kind = "create" ->
         Append(orderTable, [source |-> "ADMIN", status |-> "NEW", content |-> c.body, rev |-> 1, draft |-> c.draft])
    [] c.kind = "update" -> Rewritten(c.order, c.body, orderTable[c.order].status)
    [] c.kind = "customer" -> Rewritten(c.order, WithCustomer(orderTable[c.order].content, c.body), orderTable[c.order].status)
    [] c.kind = "status" /\ c.body # orderTable[c.order].status -> Rewritten(c.order, orderTable[c.order].content, c.body)
    [] OTHER -> orderTable
Allowed(c) ==
  CASE c.kind = "create" -> Len(orderTable) < MaxOrders
    [] c.kind = "update" -> CanEdit(orderTable[c.order])
    [] c.kind = "customer" -> CanEditWebCustomer(orderTable[c.order])
    [] c.kind = "status" -> c.body \in NextOrderStatuses(orderTable[c.order].status) \cup {orderTable[c.order].status}
    [] c.kind = "invoice" -> CanInvoice(orderTable[c.order])
Target(c) == IF c.kind = "create" THEN Len(orderTable) + 1 ELSE c.order

(* A draft or an update is also refused for its content. *)
Execute(c) ==
  /\ wire' = wire \ {c}
  /\ \E ok \in {Allowed(c)} \cup (IF c.kind \in {"create", "update"} THEN {FALSE} ELSE {}) :
       /\ orderTable' = IF ok THEN Result(c) ELSE orderTable
       /\ replies' = IF c.gone THEN replies
                     ELSE replies \cup {[call |-> c, ok |-> ok, order |-> Target(c),
                                        copy |-> IF ok THEN CopyOf(orderTable'[Target(c)]) ELSE Null]}
  /\ UNCHANGED <<settling, cache, fetch, page, stored, drafting, ghosts, typed, calls, events>>

(* Another administrator edits the order or moves it on. *)
OtherWrites(n) ==
  /\ events < MaxEvents
  /\ events' = events + 1
  /\ \/ CanEdit(orderTable[n]) /\ orderTable' = Rewritten(n, Others, "NEW")
     \/ \E s \in NextOrderStatuses(orderTable[n].status) : orderTable' = Rewritten(n, orderTable[n].content, s)
  /\ UNCHANGED <<net, cache, fetch, page, stored, drafting, ghosts, typed, calls>>

-----------------------------------------------------------------------------
(* The query cache: useOrder *)

(* Coming back to the tab; a refetch that finds what is shown is left out. *)
Refetch(n) ==
  /\ at = n /\ fetch[n] = Null /\ cache[n] # Copy(n)
  /\ fetch' = [fetch EXCEPT ![n] = Sent]
  /\ UNCHANGED <<orderTable, net, cache, page, stored, drafting, ghosts, typed, calls, events>>

Read(n) ==
  /\ fetch[n] = Sent
  /\ fetch' = [fetch EXCEPT ![n] = Copy(n)]
  /\ UNCHANGED <<orderTable, net, cache, page, stored, drafting, ghosts, typed, calls, events>>

(* The editor takes the first copy of an order and no later one. *)
Initialized(copy) ==
  /\ initialized' = TRUE
  /\ draft' = copy.content
  /\ baseline' = copy.content

ArriveResetting(n) ==
  /\ fetch[n] \notin {Null, Sent}
  /\ cache' = [cache EXCEPT ![n] = fetch[n]]
  /\ fetch' = [fetch EXCEPT ![n] = Null]
  /\ IF at = n THEN Initialized(fetch[n]) ELSE UNCHANGED <<initialized, draft, baseline>>
  /\ UNCHANGED <<orderTable, net, at, mode, busy, stored, drafting, ghosts, typed, calls, events>>

Arrive(n) ==
  /\ fetch[n] \notin {Null, Sent}
  /\ cache' = [cache EXCEPT ![n] = fetch[n]]
  /\ fetch' = [fetch EXCEPT ![n] = Null]
  /\ IF at = n /\ ~initialized THEN Initialized(fetch[n]) ELSE UNCHANGED <<initialized, draft, baseline>>
  /\ UNCHANGED <<orderTable, net, at, mode, busy, stored, drafting, ghosts, typed, calls, events>>

(* Only the query of the page that is shown is active.  Its GET starts again,
   except the first one, which is joined. *)
InvalidatedJoining(queries) == IF at \in Ids /\ queries[at] = Null THEN [queries EXCEPT ![at] = Sent] ELSE queries
Invalidated(queries) ==
  IF at \in Ids /\ (queries[at] = Null \/ cache'[at] # Null) THEN [queries EXCEPT ![at] = Sent] ELSE queries

-----------------------------------------------------------------------------
(* Going from page to page *)

Dirty == mode # Null /\ draft # baseline

(* The calls of the page that is left keep running; their handlers too. *)
Deserted(set) == {[c EXCEPT !.live = FALSE] : c \in set}
DesertedAnswers(set) == {[a EXCEPT !.call.live = FALSE] : a \in set}
Unanswered == {c.draft : c \in {d \in wire \cup {a.call : a \in replies \cup settling} : d.kind = "create"}}
Desert ==
  /\ wire' = Deserted(wire)
  /\ replies' = DesertedAnswers(replies)
  /\ settling' = DesertedAnswers(settling)
  /\ unsure' = unsure \cup Unanswered

(* OrderDetailsContent mounted for page p, from the cache and the storage given. *)
Mount(p, copies, kept) ==
  /\ at' = p
  /\ busy' = {}
  /\ mode' = IF p = New THEN "full" ELSE Null
  /\ baseline' = IF p \in Ids /\ copies[p] # Null THEN copies[p].content ELSE Empty
  /\ draft' = IF p = New THEN kept ELSE baseline'
  /\ initialized' = (p \in Ids /\ copies[p] # Null)

MountedFetch(p, queries) ==
  IF p \in Ids /\ queries[p] = Null THEN [queries EXCEPT ![p] = Sent] ELSE queries

EnterPage(p) ==
  /\ at = Elsewhere
  /\ Mount(p, cache, stored)
  /\ fetch' = MountedFetch(p, fetch)
  /\ acked' = 0
  /\ UNCHANGED <<orderTable, net, cache, stored, drafting, late, unsure, typed, calls, events>>

(* A link of the menu: the blocker asks first when there are changes. *)
Leave ==
  /\ at # Elsewhere
  /\ Mount(Elsewhere, cache, stored)
  /\ Desert
  /\ acked' = 0 /\ late' = FALSE
  /\ UNCHANGED <<orderTable, cache, fetch, stored, drafting, typed, calls, events>>

(* returnToOrders, also while a save is pending: a new draft is given up. *)
ReturnToOrders ==
  /\ at # Elsewhere
  /\ Mount(Elsewhere, cache, stored)
  /\ stored' = IF at = New THEN Empty ELSE stored
  /\ drafting' = IF at = New THEN calls + 1 ELSE drafting
  /\ Desert
  /\ acked' = 0 /\ late' = FALSE
  /\ UNCHANGED <<orderTable, cache, fetch, typed, calls, events>>

(* A reload ends every handler; sessionStorage stays. *)
Reload ==
  /\ at # Elsewhere /\ events < MaxEvents
  /\ events' = events + 1
  /\ wire' = {[c EXCEPT !.gone = TRUE] : c \in wire}
  /\ replies' = {} /\ settling' = {}
  /\ unsure' = unsure \cup Unanswered
  /\ cache' = [n \in Ids |-> Null]
  /\ Mount(at, cache', stored)
  /\ fetch' = MountedFetch(at, [n \in Ids |-> Null])
  /\ acked' = 0 /\ late' = FALSE
  /\ UNCHANGED <<orderTable, stored, drafting, typed, calls>>

-----------------------------------------------------------------------------
(* The page *)

Shown == at \in Ids /\ cache[at] # Null

EditOrder ==
  /\ Shown /\ mode = Null
  /\ \/ CanEdit(cache[at]) /\ mode' = "full"
     \/ CanEditWebCustomer(cache[at]) /\ mode' = "customer"
  /\ UNCHANGED <<orderTable, net, cache, fetch, at, draft, baseline, initialized, busy, stored, drafting, ghosts, typed, calls, events>>

(* OrderCustomerEditor; OrderItemEditor *)
TypedCustomer(form, n) == [form EXCEPT !.customer = n]
TypedItems(form, n) == [form EXCEPT !.items = n]

(* The fields that are shown: of the customer alone, or of the products too.  Bound:
   what is typed in a new order is its products. *)
Fields(n) ==
  CASE at = New -> {TypedItems(draft, n)}
    [] mode = "full" -> {TypedCustomer(draft, n), TypedItems(draft, n)}
    [] mode = "customer" -> {TypedCustomer(draft, n)}

TypeUnsaved ==
  /\ mode # Null /\ typed < MaxEdits
  /\ typed' = typed + 1
  /\ draft' \in Fields(typed + 1)
  /\ late' = FALSE
  /\ UNCHANGED <<orderTable, net, cache, fetch, at, mode, baseline, initialized, busy, stored, drafting, acked, unsure, calls, events>>

(* setDraft, addProduct, patchItem, removeItem; a new draft goes to storage
   at once.  The fields stay enabled during a save. *)
Type ==
  /\ mode # Null /\ typed < MaxEdits
  /\ typed' = typed + 1
  /\ draft' \in Fields(typed + 1)
  /\ stored' = IF at = New THEN draft' ELSE stored
  /\ late' = FALSE
  /\ UNCHANGED <<orderTable, net, cache, fetch, at, mode, baseline, initialized, busy, drafting, acked, unsure, calls, events>>

MutateAgain(slot, kind, body) ==
  /\ calls < MaxCalls
  /\ calls' = calls + 1
  /\ busy' = busy \cup {slot}
  /\ wire' = wire \cup {[kind |-> kind, slot |-> slot, order |-> at, body |-> body, live |-> TRUE, gone |-> FALSE,
                        nth |-> calls, draft |-> IF kind = "create" THEN drafting ELSE 0]}
  /\ UNCHANGED <<replies, settling>>

Mutate(slot, kind, body) ==
  /\ slot \notin busy /\ calls < MaxCalls
  /\ calls' = calls + 1
  /\ busy' = busy \cup {slot}
  /\ wire' = wire \cup {[kind |-> kind, slot |-> slot, order |-> at, body |-> body, live |-> TRUE, gone |-> FALSE,
                        nth |-> calls, draft |-> IF kind = "create" THEN drafting ELSE 0]}
  /\ UNCHANGED <<replies, settling>>

(* A new order without a customer and a product is not sent; what is typed names both. *)
Buildable(form) == at # New \/ form # Empty

(* The mutation a submit starts. *)
SaveOrder ==
  /\ mode # Null /\ Buildable(draft)
  /\ Mutate("save", IF at = New THEN "create" ELSE IF mode = "customer" THEN "customer" ELSE "update", draft)
  /\ UNCHANGED <<orderTable, cache, fetch, at, mode, draft, baseline, initialized, stored, drafting, ghosts, typed, events>>

SendStatus ==
  /\ Shown /\ mode = Null
  /\ \E s \in NextOrderStatuses(cache[at].status) : Mutate("status", "status", s)
  /\ UNCHANGED <<orderTable, cache, fetch, at, mode, draft, baseline, initialized, stored, drafting, ghosts, typed, events>>

SendInvoice ==
  /\ Shown /\ mode = Null /\ CanInvoice(cache[at])
  /\ Mutate("invoice", "invoice", Null)
  /\ UNCHANGED <<orderTable, cache, fetch, at, mode, draft, baseline, initialized, stored, drafting, ghosts, typed, events>>

(* cancelEditing; on the creation page it also leaves. *)
CancelEditing ==
  /\ mode # Null /\ "save" \notin busy
  /\ IF at = New
     THEN /\ Mount(Elsewhere, cache, Empty)
          /\ stored' = Empty /\ drafting' = calls + 1
          /\ Desert
          /\ acked' = 0 /\ late' = FALSE
     ELSE /\ Shown
          /\ mode' = Null /\ draft' = cache[at].content /\ baseline' = cache[at].content
          /\ UNCHANGED <<net, at, initialized, busy, stored, drafting, ghosts>>
  /\ UNCHANGED <<orderTable, cache, fetch, typed, calls, events>>

-----------------------------------------------------------------------------
(* Answers *)

Released(c) == IF c.live THEN busy \ {c.slot} ELSE busy

(* onSuccess of the hooks: the answer goes to the cache, the order that is
   shown is read again and a GET under way is dropped. *)
Deliver(a) ==
  /\ a.ok
  /\ replies' = replies \ {a}
  /\ settling' = settling \cup {a}
  /\ cache' = IF a.call.kind = "invoice" THEN cache ELSE [cache EXCEPT ![a.order] = a.copy]
  /\ fetch' = IF a.call.kind = "invoice" THEN fetch ELSE Invalidated(fetch)
  /\ acked' = IF at = a.order /\ a.call.kind # "invoice" /\ a.copy.rev > acked THEN a.copy.rev ELSE acked
  /\ IF at = a.order /\ ~initialized THEN Initialized(a.copy) ELSE UNCHANGED <<initialized, draft, baseline>>
  /\ UNCHANGED <<orderTable, wire, at, mode, busy, stored, drafting, late, unsure, typed, calls, events>>

(* The catch of the handlers: the form stays as it is. *)
Refused(a) ==
  /\ ~a.ok
  /\ replies' = replies \ {a}
  /\ busy' = Released(a.call)
  /\ UNCHANGED <<orderTable, wire, settling, cache, fetch, at, mode, draft, baseline, initialized, stored, drafting, ghosts, typed, calls, events>>

Settled(a) == a \in settling /\ (at \in Ids => fetch[at] = Null \/ Cardinality(settling) > 1)

GoTo(p) ==
  /\ Mount(p, cache, Empty)
  /\ fetch' = MountedFetch(p, fetch)
  /\ acked' = 0

(* save, after the await of the creation: the draft is reset, then the page of
   the order opens, unless a page with changes is kept when the blocker asks. *)
Created(a) ==
  /\ a.call.kind = "create" /\ Settled(a)
  /\ stored' = Empty
  /\ drafting' = IF a.call.draft = drafting THEN calls + 1 ELSE drafting
  /\ \/ /\ GoTo(a.order)
        /\ late' = FALSE
        /\ wire' = Deserted(wire) /\ replies' = DesertedAnswers(replies)
        /\ settling' = DesertedAnswers(settling \ {a})
        /\ unsure' = unsure \cup {d \in Unanswered : d # a.call.draft}
     \/ /\ ~a.call.live /\ Dirty
        /\ late' = (late \/ at = New)
        /\ settling' = settling \ {a}
        /\ UNCHANGED <<page, fetch, acked, wire, replies, unsure>>
  /\ UNCHANGED <<orderTable, cache, typed, calls, events>>

Updated(a) ==
  /\ a.call.kind \in {"update", "customer"} /\ Settled(a)
  /\ settling' = settling \ {a}
  /\ busy' = Released(a.call)
  /\ IF a.call.live THEN mode' = Null /\ Initialized(a.copy) ELSE UNCHANGED <<mode, initialized, draft, baseline>>
  /\ UNCHANGED <<orderTable, wire, replies, cache, fetch, at, stored, drafting, ghosts, typed, calls, events>>

StatusChanged(a) ==
  /\ a.call.kind = "status" /\ Settled(a)
  /\ settling' = settling \ {a}
  /\ busy' = Released(a.call)
  /\ UNCHANGED <<orderTable, wire, replies, cache, fetch, at, mode, draft, baseline, initialized, stored, drafting, ghosts, typed, calls, events>>

(* The page of the invoice opens, whatever is shown by then. *)
Invoiced(a) ==
  /\ a.call.kind = "invoice" /\ a \in settling
  /\ \/ /\ GoTo(Elsewhere)
        /\ late' = FALSE
        /\ wire' = Deserted(wire) /\ replies' = DesertedAnswers(replies)
        /\ settling' = DesertedAnswers(settling \ {a})
        /\ unsure' = unsure \cup Unanswered
     \/ /\ Dirty
        /\ settling' = settling \ {a}
        /\ busy' = Released(a.call)
        /\ UNCHANGED <<fetch, at, mode, draft, baseline, initialized, ghosts, wire, replies>>
  /\ UNCHANGED <<orderTable, cache, stored, drafting, typed, calls, events>>

(* The network fails a call before, at or after the server. *)
Lose ==
  /\ events < MaxEvents
  /\ events' = events + 1
  /\ \/ \E c \in {d \in wire : ~d.gone} :
          /\ wire' \in {wire \ {c}, (wire \ {c}) \cup {[c EXCEPT !.gone = TRUE]}}
          /\ busy' = Released(c)
          /\ unsure' = unsure \cup {c.draft}
          /\ UNCHANGED replies
     \/ \E a \in replies :
          /\ replies' = replies \ {a}
          /\ busy' = Released(a.call)
          /\ unsure' = unsure \cup {a.call.draft}
          /\ UNCHANGED wire
  /\ UNCHANGED <<orderTable, settling, cache, fetch, at, mode, draft, baseline, initialized, stored, drafting, acked, late, typed, calls>>

-----------------------------------------------------------------------------
DeskInit ==
  /\ orderTable \in {<<>>} \cup {<<[source |-> source, status |-> "NEW", content |-> Empty, rev |-> 1, draft |-> 0]>> :
                             source \in {"ADMIN", "SAVOURETPLUS_WEB"}}
  /\ wire = {} /\ replies = {} /\ settling = {}
  /\ cache = [n \in Ids |-> Null]
  /\ fetch = [n \in Ids |-> Null]
  /\ at = Elsewhere /\ mode = Null /\ draft = Empty /\ baseline = Empty /\ initialized = FALSE
  /\ busy = {} /\ stored = Empty /\ drafting = 1
  /\ acked = 0 /\ late = FALSE /\ unsure = {}
  /\ typed = 0 /\ calls = 0 /\ events = 0

(* Bound: creating orders and working on an existing one are explored apart. *)
DeskNext ==
  \/ \E c \in wire : Execute(c)
  \/ \E n \in Known : OtherWrites(n) \/ Refetch(n) \/ Read(n) \/ Arrive(n)
  \/ \E p \in Known \cup (IF Existing = {} THEN {New} ELSE {}) : EnterPage(p)
  \/ Leave \/ ReturnToOrders \/ Reload
  \/ EditOrder \/ Type \/ SaveOrder \/ SendStatus \/ SendInvoice \/ CancelEditing
  \/ \E a \in replies : Deliver(a) \/ Refused(a)
  \/ \E a \in settling : Created(a) \/ Updated(a) \/ StatusChanged(a) \/ Invoiced(a)
  \/ Lose

DeskSpec == DeskInit /\ [][DeskNext]_deskVars

-----------------------------------------------------------------------------
(* Properties *)

(* The page never rests on a copy of the order that is older than a change the
   same page has made and seen confirmed: when it shows one, a read that began
   after that change is under way. *)
RestsOnOwnWrites ==
  Shown /\ cache[at].rev < acked =>
    \/ fetch[at] = Sent
    \/ fetch[at] # Null /\ fetch[at].rev >= acked

(* A draft becomes two orders only when the administrator could not know of
   the first: its answer was lost, or the page was left or reloaded during the
   creation. *)
OneOrderPerDraft ==
  \A i, j \in Known : orderTable[i].draft = orderTable[j].draft /\ orderTable[i].draft # 0 =>
    i = j \/ orderTable[i].draft \in unsure

(* What is on the screen of the creation page is what a reload brings back,
   except after the answer to a creation that was left arrives: it empties the
   storage under the draft being written. *)
DraftSurvives == at = New /\ ~late => stored = draft

(* What is in a form that stays open changes by typing only: neither a refetch
   nor another administrator, nor the answer to an earlier call, replaces it,
   and a reload of the creation page brings it back. *)
TypedTextKept ==
  [][mode # Null /\ mode' # Null /\ at' = at /\ ~late => draft' = draft \/ typed' # typed]_deskVars

=============================================================================
