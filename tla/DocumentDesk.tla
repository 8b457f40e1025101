---------------------------- MODULE DocumentDesk ----------------------------
(* Quotations and invoices of savis-api and one browser tab of the admin
   application on their pages.

   The page of a quotation is keyed by its number: going from one to another
   starts it afresh.  The page of an invoice is not: the route changes under the
   same component, whose form and pending mutations stay.  The answer to a
   request of a page that was left still opens another page. *)
EXTENDS Naturals, FiniteSets, Sequences

CONSTANTS
  None,
  Sent,        \* a GET the server has not answered
  Elsewhere,   \* a page without a document, such as the page of an order
  New,         \* the page that creates a quotation
  MaxDocs,     \* bound on the documents of the API
  MaxEdits,    \* bound on what is typed in the tab
  MaxCalls,    \* bound on the calls of the tab
  MaxEvents    \* bound on lost calls, reloads and writes of others

ASSUME MarksAssumption ==
  None # Sent /\ Elsewhere # New /\ Elsewhere \notin Nat /\ New \notin Nat
ASSUME BoundsAssumption ==
  MaxDocs \in Nat \ {0} /\ MaxEdits \in Nat /\ MaxCalls \in Nat /\ MaxEvents \in Nat

(* A content is told by its number; 0 is the empty form.  Contact stands for the
   customer and the note, lines for the items, the amounts and the validity. *)
Empty == [contact |-> 0, lines |-> 0]
Others == [contact |-> MaxEdits + 1, lines |-> MaxEdits + 1]

VARIABLES
  docs,       \* the rows: kind, status, content, and whether the tab made them
  wire, answers, settling, \* calls, answers, and answers waiting for a refetch
  cache,      \* the tab's copy of each document
  fetch,      \* the GET of each document: None, Sent or what was read
  at,         \* the page: Elsewhere, New or the number of a document
  editing,
  form,       \* the draft of the editor
  filledFrom, \* the document the form was filled from
  carried,    \* an open form has followed the page to another invoice
  busy,       \* pending mutations of the page
  stored,     \* the draft of a quotation in sessionStorage
  typed, calls, events

page == <<at, editing, form, filledFrom, carried, busy>>
net == <<wire, answers, settling>>
vars == <<docs, net, cache, fetch, page, stored, typed, calls, events>>

Ids == 1..MaxDocs
Known == 1..Len(docs)
Copy(row) == [kind |-> row.kind, status |-> row.status, content |-> row.content]
Draft(kind, content, new) == [kind |-> kind, status |-> "DRAFT", content |-> content, new |-> new]

-----------------------------------------------------------------------------
(* Rules of the documents.  The payment is part of the status of an invoice, the
   conversion part of that of a quotation. *)

NextQuotationStatuses(s) ==
  CASE s = "DRAFT" -> {"SENT"}
    [] s = "SENT" -> {"ACCEPTED", "REJECTED"}
    [] OTHER -> {}

(* The status after an action, None when it is refused. *)
QuotationAfter(next, s) ==
  IF next = s \/ (next = "ACCEPTED" /\ s = "CONVERTED") THEN s
  ELSE IF next \in NextQuotationStatuses(s) THEN next ELSE None

InvoiceAfter(action, s) ==
  CASE action = "issue" /\ s = "DRAFT" -> "ISSUED"
    [] action = "markPaid" /\ s \in {"ISSUED", "PAID"} -> "PAID"
    [] action = "revertPayment" /\ s = "PAID" -> "ISSUED"
    [] action = "cancel" /\ s # "PAID" -> "CANCELLED"
    [] OTHER -> None

Actions == {"SENT", "ACCEPTED", "REJECTED", "issue", "markPaid", "revertPayment", "cancel"}
After(action, row) ==
  IF row.kind = "QUOTATION" THEN QuotationAfter(action, row.status) ELSE InvoiceAfter(action, row.status)

Target(c) == IF c.kind \in {"create", "invoice"} THEN Len(docs) + 1 ELSE c.doc

(* The invoice of an order is made once and then returned. *)
Allowed(c) ==
  CASE c.kind \in {"create", "invoice"} -> Len(docs) < MaxDocs
    [] c.kind = "update" -> docs[c.doc].status = "DRAFT"
    [] c.kind = "status" -> After(c.body, docs[c.doc]) # None
    [] c.kind = "convert" -> docs[c.doc].status \in {"ACCEPTED", "CONVERTED"}

Result(c) ==
  CASE c.kind = "create" -> Append(docs, Draft("QUOTATION", c.body, TRUE))
    [] c.kind = "invoice" -> Append(docs, Draft("INVOICE", Empty, FALSE))
    [] c.kind = "update" -> [docs EXCEPT ![c.doc].content = c.body]
    [] c.kind = "status" -> [docs EXCEPT ![c.doc].status = After(c.body, docs[c.doc])]
    [] c.kind = "convert" -> [docs EXCEPT ![c.doc].status = "CONVERTED"]

(* What is saved is also refused for its content. *)
Execute(c) ==
  /\ wire' = wire \ {c}
  /\ \E ok \in {Allowed(c)} \cup (IF c.kind \in {"create", "update"} THEN {FALSE} ELSE {}) :
       /\ docs' = IF ok THEN Result(c) ELSE docs
       /\ answers' = IF c.gone THEN answers
                     ELSE answers \cup {[call |-> c, ok |-> ok, doc |-> Target(c),
                                         copy |-> IF ok THEN Copy(docs'[Target(c)]) ELSE None]}
  /\ UNCHANGED <<settling, cache, fetch, page, stored, typed, calls, events>>

(* Another administrator edits the document or moves it on. *)
OtherWrites(n) ==
  /\ events < MaxEvents
  /\ events' = events + 1
  /\ \/ docs[n].status = "DRAFT" /\ docs' = [docs EXCEPT ![n].content = Others]
     \/ \E action \in Actions : After(action, docs[n]) \notin {None, docs[n].status}
                               /\ docs' = [docs EXCEPT ![n].status = After(action, docs[n])]
  /\ UNCHANGED <<net, cache, fetch, page, stored, typed, calls>>

-----------------------------------------------------------------------------
(* The query cache: useQuotation, useInvoice *)

IsInvoice(p) == p \in Known /\ docs[p].kind = "INVOICE"

(* The quotation editor is filled from the first copy of its quotation; the form
   of an invoice is filled when it is opened. *)
FilledFrom(p, copies) ==
  IF p \in Ids /\ copies[p] # None /\ ~IsInvoice(p) /\ filledFrom # p
  THEN form' = copies[p].content /\ filledFrom' = p
  ELSE UNCHANGED <<form, filledFrom>>

(* Coming back to the tab; a refetch that finds what is shown is left out. *)
Refetch(n) ==
  /\ at = n /\ fetch[n] = None /\ cache[n] # Copy(docs[n])
  /\ fetch' = [fetch EXCEPT ![n] = Sent]
  /\ UNCHANGED <<docs, net, cache, page, stored, typed, calls, events>>

Read(n) ==
  /\ fetch[n] = Sent
  /\ fetch' = [fetch EXCEPT ![n] = Copy(docs[n])]
  /\ UNCHANGED <<docs, net, cache, page, stored, typed, calls, events>>

Arrive(n) ==
  /\ fetch[n] \notin {None, Sent}
  /\ cache' = [cache EXCEPT ![n] = fetch[n]]
  /\ fetch' = [fetch EXCEPT ![n] = None]
  /\ IF at = n THEN FilledFrom(n, cache') ELSE UNCHANGED <<form, filledFrom>>
  /\ UNCHANGED <<docs, net, at, editing, carried, busy, stored, typed, calls, events>>

(* Only the query of the page that is shown is active. *)
Invalidated(queries) ==
  IF at \in Ids /\ (queries[at] = None \/ cache'[at] # None) THEN [queries EXCEPT ![at] = Sent] ELSE queries

-----------------------------------------------------------------------------
(* Going from page to page *)

Deserted(set) == {[c EXCEPT !.live = FALSE] : c \in set}
DesertedAnswers(set) == {[a EXCEPT !.call.live = FALSE] : a \in set}

(* The handlers of the page that is left run on, except those in "done". *)
Desert(done) ==
  /\ wire' = Deserted(wire)
  /\ answers' = DesertedAnswers(answers \ done)
  /\ settling' = DesertedAnswers(settling \ done)

MountKept(p, copies, kept) ==
  /\ at' = p
  /\ busy' = {}
  /\ carried' = FALSE
  /\ UNCHANGED <<editing, form, filledFrom>>

(* A page that is mounted: QuotationDetailsContent, InvoiceDetailsPage. *)
Mount(p, copies, kept) ==
  /\ at' = p
  /\ busy' = {}
  /\ carried' = FALSE
  /\ editing' = (p = New)
  /\ IF p \in Ids /\ copies[p] # None /\ ~IsInvoice(p)
     THEN form' = copies[p].content /\ filledFrom' = p
     ELSE form' = (IF p = New THEN kept ELSE Empty) /\ filledFrom' = None

(* From invoice to invoice the component stays. *)
Carry(n) ==
  /\ at' = n
  /\ carried' = (carried \/ (editing /\ n # at))
  /\ UNCHANGED <<editing, form, filledFrom, busy>>

Navigate(p, done) ==
  IF IsInvoice(at) /\ IsInvoice(p)
  THEN /\ Carry(p)
       /\ settling' = settling \ done
       /\ UNCHANGED <<wire, answers>>
  ELSE /\ Mount(p, cache, stored')
       /\ Desert(done)

MountedFetch(p) ==
  IF p \in Ids /\ fetch[p] = None THEN [fetch EXCEPT ![p] = Sent] ELSE fetch

Enter(p) ==
  /\ at = Elsewhere
  /\ stored' = stored
  /\ Mount(p, cache, stored)
  /\ fetch' = MountedFetch(p)
  /\ UNCHANGED <<docs, net, cache, typed, calls, events>>

(* The browser's history goes straight to a document seen before. *)
Jump(n) ==
  /\ at \in Known /\ n # at /\ cache[n] # None
  /\ events < MaxEvents
  /\ events' = events + 1
  /\ stored' = stored
  /\ Navigate(n, {})
  /\ fetch' = MountedFetch(n)
  /\ UNCHANGED <<docs, cache, typed, calls>>

(* A link, or cancelEditing of a new quotation: nothing is asked, and the draft
   stays in storage. *)
Leave ==
  /\ at # Elsewhere
  /\ stored' = stored
  /\ Navigate(Elsewhere, {})
  /\ UNCHANGED <<docs, cache, fetch, typed, calls, events>>

Reload ==
  /\ at # Elsewhere /\ events < MaxEvents
  /\ events' = events + 1
  /\ wire' = {[c EXCEPT !.gone = TRUE] : c \in wire}
  /\ answers' = {} /\ settling' = {}
  /\ cache' = [n \in Ids |-> None]
  /\ Mount(at, cache', stored)
  /\ fetch' = [n \in Ids |-> IF n = at THEN Sent ELSE None]
  /\ UNCHANGED <<docs, stored, typed, calls>>

-----------------------------------------------------------------------------
(* The pages *)

QuotationShown == at \in Ids /\ cache[at] # None /\ ~IsInvoice(at)
InvoiceShown == at \in Ids /\ cache[at] # None /\ IsInvoice(at)
Shown == QuotationShown \/ InvoiceShown

(* Actions wait for each other; on the page of an invoice a save too. *)
Free(slot) == IF IsInvoice(at) THEN busy = {} ELSE slot \notin busy

(* "Modifier" fills the form of an invoice from the copy shown. *)
BeginEdit ==
  /\ Shown /\ ~editing /\ cache[at].status = "DRAFT" /\ Free("action")
  /\ editing' = TRUE
  /\ IF IsInvoice(at)
     THEN form' = cache[at].content /\ filledFrom' = at /\ carried' = FALSE
     ELSE UNCHANGED <<form, filledFrom, carried>>
  /\ UNCHANGED <<docs, net, cache, fetch, at, busy, stored, typed, calls, events>>

(* quotationDraftForStorage keeps the contact and the note out. *)
ForStorage(draft) == [draft EXCEPT !.contact = 0]

(* The editor of a quotation; InvoiceEditor. *)
QuotationFields(draft, n) == {[draft EXCEPT !.contact = n], [draft EXCEPT !.lines = n]}
InvoiceFields(draft, n) == {[draft EXCEPT !.contact = n], [draft EXCEPT !.lines = n]}
Typed == IF IsInvoice(at) THEN InvoiceFields(form, typed + 1) ELSE QuotationFields(form, typed + 1)

TypeStored ==
  /\ editing /\ typed < MaxEdits
  /\ typed' = typed + 1
  /\ form' \in Typed
  /\ stored' = IF at = New /\ form'.contact # form.contact THEN ForStorage(form') ELSE stored
  /\ UNCHANGED <<docs, net, cache, fetch, at, editing, filledFrom, carried, busy, calls, events>>

(* The fields stay enabled during a save. *)
Type ==
  /\ editing /\ typed < MaxEdits
  /\ typed' = typed + 1
  /\ form' \in Typed
  /\ stored' = IF at = New THEN ForStorage(form') ELSE stored
  /\ UNCHANGED <<docs, net, cache, fetch, at, editing, filledFrom, carried, busy, calls, events>>

Call(slot, kind, body) ==
  /\ Free(slot) /\ calls < MaxCalls
  /\ calls' = calls + 1
  /\ busy' = IF at = Elsewhere THEN busy ELSE busy \cup {slot}
  /\ wire' = wire \cup {[kind |-> kind, slot |-> slot, doc |-> at, body |-> body, filledFrom |-> filledFrom,
                         carried |-> carried, live |-> TRUE, gone |-> FALSE]}
  /\ UNCHANGED <<docs, answers, settling, cache, fetch, at, editing, form, filledFrom, carried, stored, typed, events>>

Save == editing /\ (Shown \/ at = New) /\ Call("save", IF at = New THEN "create" ELSE "update", form)

QuotationAction ==
  /\ QuotationShown /\ ~editing
  /\ \E s \in NextQuotationStatuses(cache[at].status) : Call("action", "status", s)

Convert ==
  /\ QuotationShown /\ ~editing
  /\ cache[at].status = "ACCEPTED"
  /\ Call("action", "convert", None)

(* issue, markPaid, revertPayment, cancel: the buttons of an invoice *)
Offered(s) ==
  CASE s = "DRAFT" -> {"issue", "cancel"}
    [] s = "ISSUED" -> {"markPaid", "cancel"}
    [] s = "PAID" -> {"revertPayment", "cancel"}
    [] OTHER -> {}

InvoiceAction ==
  /\ InvoiceShown /\ ~editing
  /\ \E action \in Offered(cache[at].status) : Call("action", "status", action)

(* "Créer ou voir la facture" on the page of an order *)
RequestInvoice == at = Elsewhere /\ Call("action", "invoice", None)

CancelEditing ==
  /\ Shown /\ editing /\ (IF IsInvoice(at) THEN busy = {} ELSE "save" \notin busy)
  /\ editing' = FALSE
  /\ carried' = FALSE
  /\ form' = IF IsInvoice(at) THEN Empty ELSE cache[at].content
  /\ filledFrom' = IF IsInvoice(at) THEN None ELSE filledFrom
  /\ UNCHANGED <<docs, net, cache, fetch, at, busy, stored, typed, calls, events>>

-----------------------------------------------------------------------------
(* Answers *)

Released(c) == IF c.live THEN busy \ {c.slot} ELSE busy

(* onSuccess of the hooks *)
Deliver(a) ==
  /\ a.ok
  /\ answers' = answers \ {a}
  /\ settling' = settling \cup {a}
  /\ cache' = IF a.call.kind = "convert" THEN cache ELSE [cache EXCEPT ![a.doc] = a.copy]
  /\ fetch' = Invalidated(fetch)
  /\ IF at = a.doc THEN FilledFrom(a.doc, cache') ELSE UNCHANGED <<form, filledFrom>>
  /\ UNCHANGED <<docs, wire, at, editing, carried, busy, stored, typed, calls, events>>

Refused(a) ==
  /\ ~a.ok
  /\ answers' = answers \ {a}
  /\ busy' = Released(a.call)
  /\ UNCHANGED <<docs, wire, settling, cache, fetch, at, editing, form, filledFrom, carried, stored, typed, calls, events>>

Settled(a) == a \in settling /\ (at \in Ids => fetch[at] = None \/ Cardinality(settling) > 1)

(* The draft is reset and the new quotation opens, whatever is shown by then. *)
Created(a) ==
  /\ a.call.kind = "create" /\ Settled(a)
  /\ stored' = Empty
  /\ Navigate(a.doc, {a})
  /\ fetch' = MountedFetch(a.doc)
  /\ UNCHANGED <<docs, cache, typed, calls, events>>

(* The form closes; that of a quotation takes the answer. *)
Updated(a) ==
  /\ a.call.kind = "update" /\ Settled(a)
  /\ settling' = settling \ {a}
  /\ busy' = Released(a.call)
  /\ IF a.call.live
     THEN /\ editing' = FALSE /\ carried' = FALSE
          /\ form' = IF IsInvoice(at) THEN form ELSE a.copy.content
     ELSE UNCHANGED <<editing, carried, form>>
  /\ UNCHANGED <<docs, wire, answers, cache, fetch, at, filledFrom, stored, typed, calls, events>>

StatusChanged(a) ==
  /\ a.call.kind = "status" /\ Settled(a)
  /\ settling' = settling \ {a}
  /\ busy' = Released(a.call)
  /\ editing' = (editing /\ ~(a.call.live /\ a.call.body = "cancel"))
  /\ UNCHANGED <<docs, wire, answers, cache, fetch, at, form, filledFrom, carried, stored,
                 typed, calls, events>>

(* The page of the order, or of the invoice, opens, whatever is shown by then. *)
Opened(a) ==
  /\ a.call.kind \in {"convert", "invoice"} /\ Settled(a)
  /\ stored' = stored
  /\ LET p == IF a.call.kind = "convert" THEN Elsewhere ELSE a.doc
     IN Navigate(p, {a}) /\ fetch' = MountedFetch(p)
  /\ UNCHANGED <<docs, cache, typed, calls, events>>

Lose ==
  /\ events < MaxEvents
  /\ events' = events + 1
  /\ \/ \E c \in {d \in wire : ~d.gone} :
          /\ wire' \in {wire \ {c}, (wire \ {c}) \cup {[c EXCEPT !.gone = TRUE]}}
          /\ busy' = Released(c)
          /\ UNCHANGED answers
     \/ \E a \in answers :
          /\ answers' = answers \ {a}
          /\ busy' = Released(a.call)
          /\ UNCHANGED wire
  /\ UNCHANGED <<docs, settling, cache, fetch, at, editing, form, filledFrom, carried, stored, typed, calls>>

-----------------------------------------------------------------------------
(* Bound: creating quotations, a quotation, and the invoices of two orders are
   explored apart. *)
Init ==
  /\ docs \in {<<>>, <<Draft("QUOTATION", Empty, FALSE)>>, <<Draft("INVOICE", Empty, FALSE)>>}
  /\ wire = {} /\ answers = {} /\ settling = {}
  /\ cache = [n \in Ids |-> None] /\ fetch = [n \in Ids |-> None]
  /\ at = Elsewhere /\ editing = FALSE /\ form = Empty /\ filledFrom = None /\ carried = FALSE
  /\ busy = {} /\ stored = Empty
  /\ typed = 0 /\ calls = 0 /\ events = 0

Creating == \A n \in Known : docs[n].new

Next ==
  \/ \E c \in wire : Execute(c)
  \/ \E n \in Known : OtherWrites(n) \/ Refetch(n) \/ Read(n) \/ Arrive(n) \/ Jump(n)
  \/ \E p \in Known \cup (IF Creating THEN {New} ELSE {}) : Enter(p)
  \/ Leave \/ Reload
  \/ BeginEdit \/ Type \/ Save \/ QuotationAction \/ Convert \/ InvoiceAction \/ CancelEditing
  \/ ~Creating /\ IsInvoice(1) /\ RequestInvoice
  \/ \E a \in answers : Deliver(a) \/ Refused(a)
  \/ \E a \in settling : Created(a) \/ Updated(a) \/ StatusChanged(a) \/ Opened(a)
  \/ Lose

Spec == Init /\ [][Next]_vars

-----------------------------------------------------------------------------
(* Types *)

Contents == [contact : 0..MaxEdits + 1, lines : 0..MaxEdits + 1]
Statuses == {"DRAFT", "SENT", "ACCEPTED", "REJECTED", "CONVERTED", "ISSUED", "PAID", "CANCELLED"}
Copies == [kind : {"QUOTATION", "INVOICE"}, status : Statuses, content : Contents]
Rows == [kind : {"QUOTATION", "INVOICE"}, status : Statuses, content : Contents, new : BOOLEAN]

(* A save carries a content; what is asked of a document is asked of one that is there. *)
CallTo(kind, slot, places, bodies) ==
  [kind : {kind}, slot : {slot}, doc : places, body : bodies, filledFrom : Known \cup {None},
   carried : BOOLEAN, live : BOOLEAN, gone : BOOLEAN]
ServerCall ==
  CallTo("create", "save", {New}, Contents) \cup CallTo("update", "save", Known, Contents)
    \cup CallTo("status", "action", Known, Actions) \cup CallTo("convert", "action", Known, {None})
    \cup CallTo("invoice", "action", {Elsewhere}, {None})
Success == [call : ServerCall, ok : {TRUE}, doc : Known, copy : Copies]
Refusal == [call : ServerCall, ok : {FALSE}, doc : Nat, copy : {None}]

DocsOK == docs \in Seq(Rows) /\ Len(docs) <= MaxDocs
NetOK == wire \subseteq ServerCall /\ answers \subseteq Success \cup Refusal /\ settling \subseteq Success
CacheOK ==
  /\ cache \in [Ids -> Copies \cup {None}] /\ \A n \in Ids : cache[n] # None => n \in Known
  /\ fetch \in [Ids -> Copies \cup {None, Sent}] /\ \A n \in Ids : fetch[n] # None => n \in Known
PageOK ==
  /\ at \in Known \cup {Elsewhere, New} /\ editing \in BOOLEAN /\ form \in Contents
  /\ filledFrom \in Known \cup {None} /\ carried \in BOOLEAN /\ busy \subseteq {"save", "action"}
CountOK == stored \in Contents /\ typed \in 0..MaxEdits /\ calls \in Nat /\ events \in Nat

(* The documents, what is under way and what the tab holds keep their types. *)
TypeOK == DocsOK /\ NetOK /\ CacheOK /\ PageOK /\ CountOK

(* The page is filled from its document, and an update under way is of that page. *)
Underway == wire \cup {a.call : a \in answers \cup settling}
FormIsRight ==
  /\ QuotationShown => filledFrom = at
  /\ IsInvoice(at) /\ editing => filledFrom = at \/ carried
  /\ \A c \in Underway : c.live /\ c.kind = "update" => at \in Known

-----------------------------------------------------------------------------
(* Properties *)

(* A form is saved on the document it was filled from, except an invoice's form
   that was open when the page went to another invoice without closing it. *)
OwnForm == \A c \in wire : c.kind = "update" => c.filledFrom = c.doc \/ c.carried

(* The lines on the screen of the creation page are those a reload brings back,
   through leaving, cancelling and coming back; the contact is never stored. *)
StoredDraft == stored.contact = 0 /\ (at = New => stored.lines = form.lines)
=============================================================================
