---------------------------- MODULE CatalogDesk ----------------------------
(* The products of savis-api, their projection on the storefront (Supabase), and
   one browser tab of the admin application on the pages of the catalog: the list
   with its details, and the editor of a new or an existing product.

   The editor is filled from the list in the cache, or from a draft kept in
   localStorage, which every tab shares; what it saves is the whole product, its
   publication mark included.  A publication reads the row, writes the storefront
   and then commits the row. *)
EXTENDS Naturals, Sequences

CONSTANTS
  None,
  Sent,        \* a GET the server has not answered
  List,        \* the page of the products
  New,         \* the page that creates a product
  MaxEdits,    \* bound on what is typed in the tab
  MaxCalls,    \* bound on the calls of the tab
  MaxEvents    \* bound on lost calls, reloads, failures and the writes of others

ASSUME MarksAssumption == None # Sent /\ List # New
ASSUME BoundsAssumption == MaxEdits \in Nat /\ MaxCalls \in Nat /\ MaxEvents \in Nat

(* What is typed is told by a number; 0 is blank.  The code stands for the slug
   too, kind 0 for a standard product.  Compositions, modes and options have
   tables of their own. *)
Filled(n) == [name |-> n, code |-> n, note |-> n, kind |-> n, boms |-> n, modes |-> n, options |-> n]
Empty == Filled(0)
Whole == Filled(MaxEdits + 1)
Others == Filled(MaxEdits + 2)

Contents ==
  [name : Nat, code : Nat, note : Nat, kind : Nat, boms : Nat, modes : Nat, options : Nat]
Products == [content : Contents, published : BOOLEAN, draft : Nat]
Views == [content : Contents, published : BOOLEAN]
ASSUME NoneAssumption == None \notin Contents /\ None \notin Products /\ None \notin Views

VARIABLES
  rows,       \* the products made so far: content, published, draft; None once deleted
  storefront, \* the content the storefront shows of each, or None
  crossed,    \* products whose mark and projection were set apart (see Settle)
  wire, answers, settling, \* calls, answers, and answers waiting for a refetch
  cache,      \* the tab's copy of the list of products, or None
  fetch,      \* the GET of the list: None, Sent or what was read
  at,         \* the page: List, New or the number of a product
  form, mark, \* content and publication mark of the editor
  follows,    \* the code is generated from the name
  dirty,
  alert,      \* DraftAlert is open
  busy,       \* pending mutations of the page
  stored,     \* the draft in localStorage, or None
  drafting,   \* the draft being written, told by the calls made before it
  unsure,     \* drafts whose creation was left, reloaded or lost
  meddled,    \* another tab, or a page that was left, wrote the draft
  typed, calls, events

server == <<rows, storefront, crossed>>
net == <<wire, answers, settling>>
editor == <<form, mark, follows>>
page == <<at, editor, dirty, alert, busy>>
draft == <<stored, drafting, unsure, meddled>>
vars == <<server, net, cache, fetch, page, draft, typed, calls, events>>

Known == 1..Len(rows)
Copy(row) == IF row = None THEN None ELSE [content |-> row.content, published |-> row.published]
Copies == [n \in Known |-> Copy(rows[n])]
Product(content, published, d) == [content |-> content, published |-> published, draft |-> d]

-----------------------------------------------------------------------------
(* ProductService and CatalogPublicationService *)

(* Codes and slugs are unique. *)
CodeFree(content, n) == \A k \in Known : k # n /\ rows[k] # None => rows[k].content.code # content.code

Allowed(c) ==
  CASE c.kind = "create" -> CodeFree(c.body, 0)
    [] c.kind = "update" -> rows[c.id] # None /\ CodeFree(c.body, c.id)
    [] c.kind = "delete" -> rows[c.id] # None

Result(c) ==
  CASE c.kind = "create" -> Append(rows, Product(c.body, c.mark, c.draft))
    [] c.kind = "update" -> [rows EXCEPT ![c.id].content = c.body, ![c.id].published = c.mark]
    [] c.kind = "delete" -> [rows EXCEPT ![c.id] = None]

Publication == {"publish", "unpublish"}
Running(n) == {c \in wire : c.kind \in Publication /\ c.id = n /\ c.snapshot # None}

(* The mark of a product and its projection part when it is saved with an older
   mark, or deleted while it is projected or published. *)
Crossing(c) ==
  \/ c.kind = "update" /\ c.mark # rows[c.id].published
  \/ c.kind = "delete" /\ (storefront[c.id] # None \/ Running(c.id) # {})

Answered(c, ok) == IF c.gone THEN {} ELSE {[call |-> c, ok |-> ok]}

Execute(c) ==
  /\ c.kind \notin Publication
  /\ wire' = wire \ {c}
  /\ \E ok \in {Allowed(c), FALSE} :
       /\ answers' = answers \cup Answered(c, ok)
       /\ IF ok
          THEN /\ rows' = Result(c)
               /\ storefront' = IF c.kind = "create" THEN Append(storefront, None) ELSE storefront
               /\ crossed' = IF Crossing(c) THEN crossed \cup {c.id} ELSE crossed
          ELSE UNCHANGED server
  /\ UNCHANGED <<settling, cache, fetch, page, draft, typed, calls, events>>

(* setPublished reads the row; two publications of a product at once cross. *)
Begin(c) ==
  /\ c.kind \in Publication /\ c.snapshot = None
  /\ IF rows[c.id] = None
     THEN /\ wire' = wire \ {c}
          /\ answers' = answers \cup Answered(c, FALSE)
          /\ UNCHANGED crossed
     ELSE LET joined == Running(c.id)
          IN /\ wire' = (wire \ (joined \cup {c}))
                          \cup {[d EXCEPT !.alone = FALSE] : d \in joined}
                          \cup {[c EXCEPT !.snapshot = Copy(rows[c.id]), !.alone = (joined = {})]}
             /\ crossed' = IF joined = {} THEN crossed ELSE crossed \cup {c.id}
             /\ UNCHANGED answers
  /\ UNCHANGED <<rows, storefront, settling, cache, fetch, page, draft, typed, calls, events>>

Projection(c) == IF c.kind = "publish" THEN c.snapshot.content ELSE None

(* The storefront is written; when it refuses, nothing is kept. *)
Push(c) ==
  /\ c.kind \in Publication /\ c.snapshot # None /\ ~c.pushed
  /\ \/ /\ storefront' = [storefront EXCEPT ![c.id] = Projection(c)]
        /\ wire' = (wire \ {c}) \cup {[c EXCEPT !.pushed = TRUE]}
        /\ UNCHANGED <<answers, crossed, events>>
     \/ \E written \in BOOLEAN :                      \* an error, or an answer that is lost
          /\ written => events < MaxEvents
          /\ storefront' = IF written THEN [storefront EXCEPT ![c.id] = Projection(c)] ELSE storefront
          /\ crossed' = IF written THEN crossed \cup {c.id} ELSE crossed
          /\ events' = IF written THEN events + 1 ELSE events
          /\ wire' = wire \ {c}
          /\ answers' = answers \cup Answered(c, FALSE)
  /\ UNCHANGED <<rows, settling, cache, fetch, page, draft, typed, calls>>

(* A row whose mark changes is written whole, with the columns that were read;
   a row whose mark does not change is not written. *)
Marked(c) ==
  [rows EXCEPT ![c.id].published = (c.kind = "publish"),
               ![c.id].content = [c.snapshot.content EXCEPT !.boms = rows[c.id].content.boms,
                                                            !.modes = rows[c.id].content.modes,
                                                            !.options = rows[c.id].content.options]]

CommitKept(c) ==
  /\ c.kind \in Publication /\ c.pushed
  /\ wire' = wire \ {c}
  /\ answers' = answers \cup Answered(c, TRUE)
  /\ crossed' = IF c.alone /\ rows[c.id] # None THEN crossed \ {c.id} ELSE crossed
  /\ UNCHANGED <<rows, storefront, settling, cache, fetch, page, draft, typed, calls, events>>

Commit(c) ==
  /\ c.kind \in Publication /\ c.pushed
  /\ wire' = wire \ {c}
  /\ LET changes == c.snapshot.published # (c.kind = "publish")
         ok == ~changes \/ rows[c.id] # None
         now == IF changes /\ ok THEN Marked(c) ELSE rows
     IN /\ rows' = now
        /\ answers' = answers \cup Answered(c, ok)
        /\ crossed' = IF c.alone /\ now[c.id] # None /\ now[c.id].published = (c.kind = "publish")
                      THEN crossed \ {c.id} ELSE crossed
  /\ UNCHANGED <<storefront, settling, cache, fetch, page, draft, typed, calls, events>>

(* Another administrator edits, publishes, withdraws or deletes a product, in
   one go; nothing of it overlaps a publication of this tab. *)
OtherWrites(n) ==
  /\ rows[n] # None /\ Running(n) = {} /\ events < MaxEvents
  /\ events' = events + 1
  /\ \/ /\ rows' = [rows EXCEPT ![n].content = Others]
        /\ CodeFree(Others, n)
        /\ UNCHANGED <<storefront, crossed>>
     \/ \E published \in BOOLEAN :
          /\ rows' = [rows EXCEPT ![n].published = published]
          /\ storefront' = [storefront EXCEPT ![n] = IF published THEN rows[n].content ELSE None]
          /\ crossed' = crossed \ {n}
     \/ /\ rows' = [rows EXCEPT ![n] = None]
        /\ crossed' = IF storefront[n] # None THEN crossed \cup {n} ELSE crossed
        /\ UNCHANGED storefront
  /\ UNCHANGED <<net, cache, fetch, page, draft, typed, calls>>

-----------------------------------------------------------------------------
(* The query cache and the editor: useCatalogProducts, CatalogProductEditor *)

Listed(p, list) == list # None /\ p \in DOMAIN list /\ list[p] # None

(* The editor is on the screen: the list is loaded and holds the product. *)
Open(p, list) == list # None /\ (p = New \/ (p \notin {List, New} /\ Listed(p, list)))

Fill(p, list, kept) ==
  /\ form' = IF p = New THEN (IF kept = None THEN Empty ELSE kept) ELSE list[p].content
  /\ mark' = (p # New /\ list[p].published)
  /\ follows' = (p = New /\ (kept = None \/ kept.code = 0))

(* The list arrives: an editor that opens is filled, one that is open is not; one
   whose product is gone is closed with what was typed. *)
Arrived(list) ==
  IF Open(at, list) /\ ~Open(at, cache)
  THEN Fill(at, list, stored) /\ dirty' = FALSE
  ELSE IF Open(at, cache) /\ ~Open(at, list)
  THEN form' = Empty /\ mark' = FALSE /\ follows' = FALSE /\ UNCHANGED dirty
  ELSE UNCHANGED <<editor, dirty>>

(* Coming to a page or back to the tab; a refetch that finds what is shown is
   left out. *)
Refetch ==
  /\ fetch = None /\ cache # Copies
  /\ fetch' = Sent
  /\ UNCHANGED <<server, net, cache, page, draft, typed, calls, events>>

Read ==
  /\ fetch = Sent
  /\ fetch' = Copies
  /\ UNCHANGED <<server, net, cache, page, draft, typed, calls, events>>

Arrive ==
  /\ fetch \notin {None, Sent}
  /\ cache' = fetch
  /\ fetch' = None
  /\ Arrived(cache')
  /\ UNCHANGED <<server, net, at, alert, busy, draft, typed, calls, events>>

-----------------------------------------------------------------------------
(* Going from page to page *)

Mount(p, list, kept) ==
  /\ at' = p /\ busy' = {} /\ dirty' = FALSE /\ alert' = FALSE
  /\ IF Open(p, list)
     THEN Fill(p, list, kept)
     ELSE form' = Empty /\ mark' = FALSE /\ follows' = FALSE

Unanswered == {c.draft : c \in {d \in wire \cup {a.call : a \in answers \cup settling} : d.kind = "create"}}
Deserted(set) == {[c EXCEPT !.live = FALSE] : c \in set}
DesertedAnswers(set) == {[a EXCEPT !.call.live = FALSE] : a \in set}

(* The handlers of the page that is left run on, except those in "done". *)
Navigate(p, kept, done) ==
  /\ Mount(p, cache, kept)
  /\ wire' = Deserted(wire)
  /\ answers' = DesertedAnswers(answers \ done)
  /\ settling' = DesertedAnswers(settling \ done)
  /\ unsure' = unsure \cup (Unanswered \ {a.call.draft : a \in done})

(* A link or the browser's history: an editor that is left is asked about, unless
   it is saving. *)
Visit(p) ==
  /\ p # at /\ (at = List \/ p = List)
  /\ Navigate(p, stored, {})
  /\ meddled' = FALSE
  /\ UNCHANGED <<server, cache, fetch, stored, drafting, typed, calls, events>>

Reload ==
  /\ events < MaxEvents
  /\ events' = events + 1
  /\ wire' = {[c EXCEPT !.gone = TRUE] : c \in wire}
  /\ answers' = {} /\ settling' = {}
  /\ unsure' = unsure \cup Unanswered
  /\ cache' = None /\ fetch' = Sent
  /\ Mount(at, cache', stored)
  /\ meddled' = FALSE
  /\ UNCHANGED <<server, stored, drafting, typed, calls>>

-----------------------------------------------------------------------------
(* The editor *)

Editing == Open(at, cache) /\ ~alert

InformationFields(n) ==
  {[form EXCEPT !.name = n, !.code = IF follows THEN n ELSE @],
   [form EXCEPT !.code = n], [form EXCEPT !.code = 0]}
ClassificationFields(n) == {[form EXCEPT !.kind = n], [form EXCEPT !.kind = 0]}
CompositionFields(n) == {[form EXCEPT !.boms = n]}
ModeFields(n) == {[form EXCEPT !.modes = n]}
OptionFields(n) == IF form.kind = 0 THEN {} ELSE {[form EXCEPT !.options = n]}
AvailabilityFields(n) == {[form EXCEPT !.note = n]}
Fields(n) ==
  InformationFields(n) \cup ClassificationFields(n) \cup CompositionFields(n)
    \cup ModeFields(n) \cup OptionFields(n) \cup AvailabilityFields(n)

TypeName(next) ==
  /\ Editing /\ typed < MaxEdits /\ next # form
  /\ typed' = typed + 1
  /\ form' = next
  /\ follows' = (follows /\ (next.code = form.code \/ next.name # form.name))
  /\ dirty' = TRUE
  /\ stored' = IF at = New /\ next.name # form.name THEN next ELSE stored
  /\ meddled' = FALSE
  /\ UNCHANGED <<server, net, cache, fetch, at, mark, alert, busy, drafting, unsure, calls, events>>

(* A code that is typed follows the name no more.  A new product is kept in
   localStorage at each change. *)
Type(next) ==
  /\ Editing /\ typed < MaxEdits /\ next # form
  /\ typed' = typed + 1
  /\ form' = next
  /\ follows' = (follows /\ (next.code = form.code \/ next.name # form.name))
  /\ dirty' = TRUE
  /\ stored' = IF at = New THEN next ELSE stored
  /\ meddled' = FALSE
  /\ UNCHANGED <<server, net, cache, fetch, at, mark, alert, busy, drafting, unsure, calls, events>>

CallAlways(slot, kind, id) ==
  /\ calls < MaxCalls
  /\ calls' = calls + 1
  /\ busy' = busy \cup {slot}
  /\ wire' = wire \cup {[kind |-> kind, slot |-> slot, id |-> id, body |-> form, mark |-> mark,
                        draft |-> IF kind = "create" THEN drafting ELSE 0, snapshot |-> None,
                        pushed |-> FALSE, alone |-> FALSE, nth |-> calls, live |-> TRUE, gone |-> FALSE]}
  /\ UNCHANGED <<server, answers, settling, cache, fetch, at, editor, dirty, alert, draft, typed, events>>

Call(slot, kind, id) ==
  /\ slot \notin busy /\ calls < MaxCalls
  /\ calls' = calls + 1
  /\ busy' = busy \cup {slot}
  /\ wire' = wire \cup {[kind |-> kind, slot |-> slot, id |-> id, body |-> form, mark |-> mark,
                        draft |-> IF kind = "create" THEN drafting ELSE 0, snapshot |-> None,
                        pushed |-> FALSE, alone |-> FALSE, nth |-> calls, live |-> TRUE, gone |-> FALSE]}
  /\ UNCHANGED <<server, answers, settling, cache, fetch, at, editor, dirty, alert, draft, typed, events>>

(* Required fields, and modes that are complete. *)
Complete == form.name # 0 /\ form.code # 0 /\ form.modes # 0

Save == Editing /\ Complete /\ Call("save", IF at = New THEN "create" ELSE "update", at)

RequestCancel ==
  /\ Editing
  /\ IF at = New /\ (dirty \/ stored # None)
     THEN /\ stored' = IF dirty THEN form ELSE stored
          /\ alert' = TRUE
          /\ UNCHANGED <<net, at, editor, dirty, busy, unsure>>
     ELSE UNCHANGED stored /\ Navigate(List, stored, {})
  /\ UNCHANGED <<server, cache, fetch, drafting, meddled, typed, calls, events>>

CloseAlert ==
  /\ alert
  /\ alert' = FALSE
  /\ UNCHANGED <<server, net, cache, fetch, at, editor, dirty, busy, draft, typed, calls, events>>

CloseAndDeleteDraft ==
  /\ alert
  /\ stored' = None
  /\ drafting' = calls + 1
  /\ Navigate(List, None, {})
  /\ UNCHANGED <<server, cache, fetch, meddled, typed, calls, events>>

CloseAndKeepDraft ==
  /\ alert
  /\ stored' = form
  /\ Navigate(List, form, {})
  /\ UNCHANGED <<server, cache, fetch, drafting, meddled, typed, calls, events>>

(* Another tab types in, or empties, the one draft of the browser. *)
OtherTab ==
  /\ at = New /\ events < MaxEvents
  /\ events' = events + 1
  /\ stored' \in {None, Others} \ {stored}
  /\ drafting' = calls + 1
  /\ meddled' = TRUE
  /\ UNCHANGED <<server, net, cache, fetch, page, unsure, typed, calls>>

-----------------------------------------------------------------------------
(* The list and the details of a product *)

Shown(n) == at = List /\ Listed(n, cache)

Publish(n) == Shown(n) /\ Call("publish", "publish", n)
Unpublish(n) == Shown(n) /\ cache[n].published /\ Call("publish", "unpublish", n)
Delete(n) == Shown(n) /\ "delete" \notin busy /\ Call("delete", "delete", n)

-----------------------------------------------------------------------------
(* Answers *)

Released(c) == IF c.live THEN busy \ {c.slot} ELSE busy

(* Every mutation waits for the list to be read again. *)
Deliver(a) ==
  /\ a.ok
  /\ answers' = answers \ {a}
  /\ settling' = settling \cup {a}
  /\ fetch' = Sent
  /\ UNCHANGED <<server, wire, cache, page, draft, typed, calls, events>>

Refused(a) ==
  /\ ~a.ok
  /\ answers' = answers \ {a}
  /\ busy' = Released(a.call)
  /\ UNCHANGED <<server, wire, settling, cache, fetch, at, editor, dirty, alert, draft, typed, calls, events>>

Settled(a) == a \in settling /\ fetch = None

(* The draft is emptied and the list opens, whatever is shown by then; an editor
   of a later visit is asked about, and may stay. *)
Saved(a) ==
  /\ a.call.slot = "save" /\ Settled(a)
  /\ stored' = IF a.call.kind = "create" THEN None ELSE stored
  /\ drafting' = IF a.call.kind = "create" /\ a.call.draft = drafting THEN calls + 1 ELSE drafting
  /\ \/ Navigate(List, stored', {a}) /\ meddled' = FALSE
     \/ /\ ~a.call.live /\ dirty /\ "save" \notin busy
        /\ settling' = settling \ {a}
        /\ meddled' = (meddled \/ (at = New /\ a.call.kind = "create"))
        /\ UNCHANGED <<wire, answers, page, unsure>>
  /\ UNCHANGED <<server, cache, fetch, typed, calls, events>>

Finished(a) ==
  /\ a.call.slot # "save" /\ Settled(a)
  /\ settling' = settling \ {a}
  /\ busy' = Released(a.call)
  /\ UNCHANGED <<server, wire, answers, cache, fetch, at, editor, dirty, alert, draft, typed, calls, events>>

(* A call, or its answer, is lost; a call may still reach the server. *)
Lose ==
  /\ events < MaxEvents
  /\ events' = events + 1
  /\ \/ \E c \in {d \in wire : ~d.gone} :
          /\ wire' \in {(wire \ {c}) \cup {[c EXCEPT !.gone = TRUE]}}
                       \cup (IF c.snapshot = None THEN {wire \ {c}} ELSE {})
          /\ busy' = Released(c)
          /\ unsure' = unsure \cup {c.draft}
          /\ UNCHANGED answers
     \/ \E a \in answers :
          /\ answers' = answers \ {a}
          /\ busy' = Released(a.call)
          /\ unsure' = unsure \cup {a.call.draft}
          /\ UNCHANGED wire
  /\ UNCHANGED <<server, settling, cache, fetch, at, editor, dirty, alert, stored, drafting, meddled, typed, calls>>

-----------------------------------------------------------------------------
(* Bound: creating products and working on one are explored apart. *)
Init ==
  /\ \/ /\ rows = <<>> /\ storefront = <<>>
        /\ stored \in {None, Whole, [Whole EXCEPT !.code = 0]}
     \/ \E published \in BOOLEAN :
          /\ rows = <<Product(Whole, published, 0)>>
          /\ storefront = <<IF published THEN Whole ELSE None>>
          /\ stored = None
  /\ crossed = {}
  /\ wire = {} /\ answers = {} /\ settling = {}
  /\ cache = None /\ fetch = Sent
  /\ at = List /\ form = Empty /\ mark = FALSE /\ follows = FALSE
  /\ dirty = FALSE /\ alert = FALSE /\ busy = {}
  /\ drafting = 1 /\ unsure = {} /\ meddled = FALSE
  /\ typed = 0 /\ calls = 0 /\ events = 0

Creating == \A n \in Known : rows[n] # None => rows[n].draft # 0

Next ==
  \/ \E c \in wire : Execute(c) \/ Begin(c) \/ Push(c) \/ Commit(c)
  \/ \E n \in Known : OtherWrites(n) \/ Publish(n) \/ Unpublish(n) \/ Delete(n)
  \/ Refetch \/ Read \/ Arrive
  \/ \E p \in {List} \cup (IF Creating THEN {New} ELSE Known) : Visit(p)
  \/ Reload
  \/ \E next \in Fields(typed + 1) : Type(next)
  \/ Save \/ RequestCancel \/ CloseAlert \/ CloseAndDeleteDraft \/ CloseAndKeepDraft
  \/ OtherTab
  \/ \E a \in answers : Deliver(a) \/ Refused(a)
  \/ \E a \in settling : Saved(a) \/ Finished(a)
  \/ Lose

Spec == Init /\ [][Next]_vars

-----------------------------------------------------------------------------
(* Properties *)

(* The storefront shows a product exactly when its row is marked as published,
   whenever no publication of it is running, unless the two were set apart: by a
   save of an older copy, a deletion, publications at once or an answer of the
   storefront that was lost. *)
StorefrontAccounted ==
  \A n \in Known : Running(n) = {} /\ n \notin crossed =>
    (storefront[n] # None) = (rows[n] # None /\ rows[n].published)

(* What is typed of a new product is in localStorage, ready for a reload or a
   later visit, unless another tab or a page left earlier wrote it since. *)
DraftStored == at = New /\ dirty /\ ~meddled => stored = form

(* A draft becomes two products only when the first could not be known. *)
OneProductPerDraft ==
  \A i, j \in Known : rows[i] # None /\ rows[j] # None /\ rows[i].draft = rows[j].draft =>
    i = j \/ rows[i].draft \in unsure \cup {0}
=============================================================================
