--------------------------- MODULE ProcurementDesk ---------------------------
(* One browser tab of the admin application on the pages that keep what is bought:
   the hourly rates of activities, the material resources, the supplier offers of
   savis-api, and the review of the offers the Executor acquired.

   Each page shows a list it reads again after every change, and opens one dialog
   at a time.  The dialogs differ in when they close: a rate and a review close
   when they are sent, a resource when it is saved, a manual offer and a retrieval
   when they are saved, but also at any time before; an association stays open. *)
EXTENDS Naturals, FiniteSets

CONSTANTS
  None, Asked,
  Rates, Resources, Review, Supply, \* the pages
  Materials,   \* resources
  Types,       \* types of activities
  MaxOffers,   \* bound on the offers
  MaxEdits,    \* bound on what is typed in the tab
  MaxCalls,    \* bound on the calls of the tab
  MaxEvents    \* bound on failures, on the writes of others and on leaving the page

ASSUME PagesAssumption ==
  Rates \notin {Resources, Review, Supply} /\ Resources \notin {Review, Supply} /\ Review # Supply
ASSUME BoundsAssumption ==
  MaxOffers \in Nat /\ MaxEdits \in Nat /\ MaxCalls \in Nat /\ MaxEvents \in Nat

Pages == {Rates, Resources, Review, Supply}
Offers == 1..MaxOffers
Statuses == {"NEW", "VALID"}  \* Bound: two of the three.

(* What a dialog holds: a text told by a number (a rate, the fields of a resource or
   of a manual offer, a page to retrieve, a refresh frequency), the resource chosen,
   the review, and whether a refresh is asked for. *)
Form(text, to, status, now) == [text |-> text, to |-> to, status |-> status, now |-> now]
Forms == [text : Nat, to : Materials \cup {None}, status : Statuses, now : BOOLEAN]
Blank == Form(0, None, "NEW", FALSE)

MaterialRows == [text : Nat, active : BOOLEAN]
ReviewRows == [status : Statuses, text : Nat]
Dialogs ==
  [kind : {"rate", "resource", "manual", "associate", "retrieve", "edit"}, item : Types \cup Materials \cup Offers \cup {None},
   body : Forms, new : BOOLEAN, opening : Nat, was : Statuses, stale : BOOLEAN]

\* What is not there is no resource, no dialog, no row, and no list of resources or of reviews.
ASSUME NoneAssumption ==
  /\ None # Asked /\ None \notin Materials /\ None \notin Dialogs /\ None \notin MaterialRows
  /\ \A some \in SUBSET Materials : None \notin [items : [some -> MaterialRows], total : Nat]
  /\ \A some \in SUBSET Offers : None \notin [items : [some -> ReviewRows], total : Nat]

(* What is asked of a list, in the URL: a status, a search term, and the number of a
   page.  Each offer has a search term of its own.  What is typed to search the supplier
   offers is asked for a moment later. *)
View(status, term, nth) == [status |-> status, search |-> None, term |-> term, nth |-> nth]

VARIABLES
  rates,      \* savis-api: the rate of each type, or None
  materials,  \* savis-api: the resources
  begun,      \* savis-api: writes of resources that have read their row
  supply,     \* savis-api: the resource of each offer; None when there is no offer
  withdrawn,  \* savis-api: the offers that are no longer available
  reviews,    \* Executor: the offers with their review and refresh frequency, or None
  wire, answers, \* calls of the tab and their answers
  page,       \* the page of this behaviour
  here,       \* the tab shows it
  view,       \* what is asked of the list
  shown,      \* the list as last read, or None
  fetch,      \* the list being read: None, Asked, or what was read
  failed,     \* the last reading failed
  selected,   \* the offer whose review is open
  dialog,     \* the open dialog, or None
  left,       \* what a retrieval closed while one is sent still holds
  strays,     \* kinds of dialogs that an answer to an earlier dialog closed
  chosen,     \* the status confirmed last for each resource
  unsettled,  \* resources whose status was written otherwise, or whose answer was lost
  ours,       \* reviews that this page gave last, since the list it shows was asked for
  undone,     \* an edit that left the review alone changed it
  searched,   \* the supplier offers shown are not those of what was typed last
  thinned,    \* an offer was withdrawn, or a page was turned of offers not of the search
  typed, calls, events

server == <<rates, materials, begun, supply, withdrawn, reviews>>
net == <<wire, answers>>
list == <<view, shown, fetch, failed>>
tab == <<page, here, selected, dialog, left>>
notes == <<strays, chosen, unsettled, ours, undone, searched, thinned>>
count == <<typed, calls, events>>
vars == <<server, net, list, tab, notes, count>>

-----------------------------------------------------------------------------
(* Lists *)

First == View(CASE page = Review -> "NEW" [] page = Supply -> "AVAILABLE" [] OTHER -> "ALL", None, 1)

(* Bound: the filter of one status, or none. *)
ReviewFilters == {"NEW", "ALL"}
ResourceFilters == {"ALL", "ACTIVE"}
SupplyFilters == {"AVAILABLE", "ALL"}  \* Bound: two of the three.
StatusFilters ==
  CASE page = Review -> ReviewFilters
    [] page = Resources -> ResourceFilters
    [] page = Supply -> SupplyFilters
    [] OTHER -> {"ALL"}

(* Bound: one search term is filtered by or typed, and only among the reviews of every
   status. *)
TermFilters(status) == IF page = Review THEN IF status = "ALL" THEN {None, 1} ELSE {None} ELSE {view.term}

Matching == {o \in Offers : reviews[o] # None /\ view.status \in {"ALL", reviews[o].status} /\ view.term \in {None, o}}
Nth(set, n) == {o \in set : Cardinality({q \in set : q <= o}) = n}
Whole(rows) == [items |-> rows, total |-> 1]

(* Bound: one offer on each page; the resources fit on one. *)
ListRates == Whole([t \in {u \in Types : rates[u] # None} |-> rates[t]])
ListResources ==
  Whole([r \in {q \in Materials : materials[q] # None /\ (view.status = "ALL" \/ materials[q].active)} |-> materials[r]])
ListSupply == LET all == {o \in Offers : supply[o] # None /\ (view.status = "ALL" \/ o \notin withdrawn) /\ view.term \in {None, o}}
              IN [items |-> [o \in Nth(all, view.nth) |-> supply[o]], total |-> Cardinality(all)]
ListOffers == [items |-> [o \in Nth(Matching, view.nth) |-> reviews[o]], total |-> Cardinality(Matching)]

Read ==
  CASE page = Rates -> ListRates
    [] page = Resources -> ListResources
    [] page = Supply -> ListSupply
    [] page = Review -> ListOffers

Reading ==
  /\ fetch = Asked
  /\ fetch' = Read
  /\ UNCHANGED <<server, net, view, shown, failed, tab, notes, count>>

InRange(read) == page # Review \/ view.nth <= IF read.total > 1 THEN read.total ELSE 1
Row(i) == shown # None /\ i \in DOMAIN shown.items

ArriveKept ==
  /\ fetch \notin {None, Asked}
  /\ shown' = fetch /\ fetch' = None /\ failed' = FALSE
  /\ UNCHANGED <<server, net, view, tab, notes, count>>

(* The dialog of a row that is no longer listed closes with it. *)
Orphan(read) ==
  /\ dialog # None
  /\ \/ dialog.kind = "edit" /\ (~InRange(read) \/ dialog.item \notin DOMAIN read.items)
     \/ dialog.kind = "rate" /\ ~dialog.new /\ dialog.item \notin DOMAIN read.items

(* A page of reviews beyond the last is asked again. *)
Arrive ==
  /\ fetch \notin {None, Asked}
  /\ failed' = FALSE
  /\ IF InRange(fetch)
     THEN shown' = fetch /\ fetch' = None /\ UNCHANGED view
     ELSE shown' = None /\ fetch' = Asked /\ view' = [view EXCEPT !.nth = IF fetch.total > 1 THEN fetch.total ELSE 1]
  /\ dialog' = IF Orphan(fetch) THEN None ELSE dialog
  /\ ours' = IF InRange(fetch) THEN ours ELSE {}
  /\ searched' = (page = Supply /\ view.search # view.term)
  /\ UNCHANGED <<server, net, page, here, selected, left, strays, chosen, unsettled, undone, thinned, count>>

ReadFails ==
  /\ fetch # None /\ events < MaxEvents
  /\ events' = events + 1
  /\ fetch' = None /\ failed' = TRUE
  /\ UNCHANGED <<server, net, view, shown, tab, notes, typed, calls>>

Retry ==
  /\ here /\ failed /\ fetch = None
  /\ fetch' = Asked
  /\ UNCHANGED <<server, net, view, shown, failed, tab, notes, count>>

(* Filters and pages: the supplier offers shown stay until the next ones are read. *)
Navigable == shown # None /\ ~failed /\ DOMAIN shown.items # {}

Turn(v) ==
  /\ here /\ dialog = None /\ v # view
  /\ \/ v.nth = 1 /\ (v.status = view.status \/ v.term = view.term)
     \/ [v EXCEPT !.nth = view.nth] = view /\ Navigable /\ v.nth \in {view.nth - 1, view.nth + 1} /\ v.nth <= shown.total
  /\ view' = v
  /\ shown' = IF page = Supply THEN shown ELSE None
  /\ fetch' = Asked /\ failed' = FALSE
  /\ ours' = {}
  /\ thinned' = (thinned \/ (searched /\ v.nth # 1))
  /\ UNCHANGED <<server, net, tab, strays, chosen, unsettled, undone, searched, count>>

(* What is typed in the search of the supplier offers goes back to the first page at
   once, and is asked for when nothing was typed for a moment. *)
Search(t) ==
  /\ here /\ page = Supply /\ dialog = None /\ t # view.search
  /\ IF t = None THEN UNCHANGED typed ELSE typed < MaxEdits /\ typed' = typed + 1
  /\ view' = [view EXCEPT !.search = t, !.nth = 1]
  /\ IF view.nth = 1 THEN UNCHANGED <<fetch, failed>> ELSE fetch' = Asked /\ failed' = FALSE
  /\ searched' = TRUE
  /\ UNCHANGED <<server, net, shown, tab, strays, chosen, unsettled, ours, undone, thinned, calls, events>>

Debounce ==
  /\ here /\ page = Supply /\ view.search # view.term
  /\ view' = [view EXCEPT !.term = view.search]
  /\ fetch' = Asked /\ failed' = FALSE
  /\ UNCHANGED <<server, net, shown, tab, notes, count>>

Deserted(set) == {[c EXCEPT !.live = FALSE] : c \in set}

(* Another page is shown; calls and readings run on. *)
Leave ==
  /\ here /\ events < MaxEvents
  /\ events' = events + 1
  /\ here' = FALSE
  /\ selected' = None /\ dialog' = None /\ left' = 0
  /\ wire' = Deserted(wire)
  /\ begun' = {[b EXCEPT !.call.live = FALSE] : b \in begun}
  /\ answers' = {[a EXCEPT !.call.live = FALSE] : a \in answers}
  /\ ours' = {}
  /\ UNCHANGED <<rates, materials, supply, withdrawn, reviews, list, page, strays, chosen, unsettled, undone, searched, thinned,
                 typed, calls>>

Return ==
  /\ ~here
  /\ here' = TRUE
  /\ view' = First
  /\ shown' = IF view = First THEN shown ELSE None
  /\ fetch' = Asked /\ failed' = FALSE
  /\ UNCHANGED <<server, net, page, selected, dialog, left, notes, count>>

-----------------------------------------------------------------------------
(* Dialogs *)

(* The table of the rates outlives a failed reading, the others give way to it. *)
Visible(i) ==
  /\ here /\ Row(i)
  /\ page # Rates => ~failed

(* Calls whose answer is awaited by the page, and those of the open dialog *)
Waiting(kinds) ==
  {c \in {d \in wire \cup {b.call : b \in begun} : ~d.gone} \cup {a.call : a \in answers} : c.live /\ c.kind \in kinds}
BusyUntilAnswered ==
  {c \in wire \cup {a.call : a \in {b \in answers : ~b.done}} :
     c.live /\ ~c.gone /\ c.kind \in {"edit", "patch", "delete", "retrieve", "refresh"}} # {}
Busy == Waiting({"edit", "patch", "delete", "retrieve", "refresh"}) # {}
Own == {c \in Waiting({dialog.kind}) : c.opening = dialog.opening}

ShownRate(t) == IF Row(t) THEN shown.items[t] ELSE None

(* What the dialog begins with *)
Fill(kind, i) ==
  CASE kind = "rate" -> [Blank EXCEPT !.text = IF ShownRate(i) = None THEN 0 ELSE ShownRate(i)]
    [] kind = "resource" -> [Blank EXCEPT !.text = IF i = None THEN 0 ELSE shown.items[i].text]
    [] kind = "edit" -> Form(shown.items[i].text, None, shown.items[i].status, FALSE)
    [] kind = "retrieve" -> [Blank EXCEPT !.text = left]
    [] OTHER -> Blank

(* The buttons that open a dialog: a type that has a rate and a new one; a resource
   and a new one; a manual offer, told by the offer it will be, and the details of
   an offer; a retrieval (bound: from the list of one search term) and the details of
   a review. *)
RateButtons(kind) == kind = "rate"
ResourceButtons(kind, r) == kind = "resource" /\ (IF r = None THEN \E m \in Materials : materials[m] = None ELSE Visible(r))
SupplyRow(o) == here /\ Row(o) /\ ~failed
SupplyButtons(kind, o) == kind = "manual" \/ (kind = "associate" /\ SupplyRow(o))
ReviewButtons(kind, o) == (kind = "retrieve" /\ o = 1 /\ view.term = 1) \/ (kind = "edit" /\ selected = o /\ Row(o) /\ ~Busy)

Offered(kind, i) ==
  CASE page = Rates -> RateButtons(kind)
    [] page = Resources -> ResourceButtons(kind, i)
    [] page = Supply -> SupplyButtons(kind, i)
    [] page = Review -> ReviewButtons(kind, i)

Kinds ==
  CASE page = Rates -> {"rate"}
    [] page = Resources -> {"resource"}
    [] page = Supply -> {"manual", "associate"}
    [] page = Review -> {"retrieve", "edit"}

Items ==
  CASE page = Rates -> Types
    [] page = Resources -> Materials \cup {None}
    [] page \in {Supply, Review} -> Offers

Open(kind, i) ==
  /\ here /\ dialog = None /\ kind \in Kinds /\ i \in Items
  /\ Offered(kind, i)
  /\ dialog' = [kind |-> kind, item |-> i, body |-> Fill(kind, i), new |-> i = None \/ (page = Rates /\ ShownRate(i) = None),
                opening |-> calls, was |-> Fill(kind, i).status,
                stale |-> kind = "edit" /\ shown.items[i] # reviews[i] /\ (i \notin ours \/ failed)]
  /\ UNCHANGED <<server, net, list, page, here, selected, left, notes, count>>

Active == {r \in Materials : materials[r] # None /\ materials[r].active}

(* What may be changed in a dialog *)
Texts(d) == IF typed < MaxEdits THEN {[d.body EXCEPT !.text = typed + 1]} ELSE {}
Found(d) == {[d.body EXCEPT !.to = r] : r \in Active}
RateFields(d) == IF d.kind = "rate" THEN Texts(d) ELSE {}
ResourceFields(d) == IF d.kind = "resource" THEN Texts(d) ELSE {}
ManualFields(d) == IF d.kind = "manual" THEN Texts(d) \cup Found(d) ELSE {}
AssociateFields(d) == IF d.kind = "associate" THEN Found(d) ELSE {}
RetrieveFields(d) == IF d.kind = "retrieve" THEN Texts(d) ELSE {}
ReviewFields(d) ==
  IF d.kind = "edit" THEN Texts(d) \cup {[d.body EXCEPT !.status = s] : s \in Statuses} \cup {[d.body EXCEPT !.now = TRUE]} ELSE {}
Change(d) ==
  RateFields(d) \cup ResourceFields(d) \cup ManualFields(d) \cup AssociateFields(d) \cup RetrieveFields(d) \cup ReviewFields(d)

Type(body) ==
  /\ dialog # None /\ body # dialog.body
  /\ dialog' = [dialog EXCEPT !.body = body]
  /\ typed' = IF body.text # dialog.body.text THEN typed + 1 ELSE typed
  /\ UNCHANGED <<server, net, list, page, here, selected, left, notes, calls, events>>

CloseAlways ==
  /\ dialog # None
  /\ dialog' = None
  /\ left' = IF dialog.kind = "retrieve" THEN IF Waiting({"retrieve", "refresh"}) = {} THEN 0 ELSE dialog.body.text ELSE left
  /\ UNCHANGED <<server, net, list, page, here, selected, notes, count>>

(* A resource being saved cannot be closed; a retrieval closed while one is sent keeps
   what was typed. *)
Close ==
  /\ dialog # None
  /\ dialog.kind = "resource" => Waiting({"resource"}) = {}
  /\ dialog' = None
  /\ left' = IF dialog.kind = "retrieve" THEN IF Waiting({"retrieve", "refresh"}) = {} THEN 0 ELSE dialog.body.text ELSE left
  /\ UNCHANGED <<server, net, list, page, here, selected, notes, count>>

Message(kind, i, d) ==
  [kind |-> kind, item |-> i, body |-> d.body, new |-> d.new, opening |-> d.opening, was |-> d.was, stale |-> d.stale,
   before |-> None, nth |-> calls, live |-> TRUE, gone |-> FALSE]

Call(m) ==
  /\ calls < MaxCalls
  /\ calls' = calls + 1
  /\ wire' = wire \cup {m}

(* When the button of each dialog is enabled *)
RateReady == {c \in Waiting({"rate"}) : c.new = dialog.new} = {} /\ (dialog.new => ShownRate(dialog.item) = None)
ResourceReady == (dialog.new => dialog.body.text # 0) /\ Waiting({"resource"}) = {}
ManualReady == dialog.body.text # 0 /\ dialog.body.to # None /\ Own = {}
AssociateReady == dialog.body.to # None /\ Own = {}
RetrieveReady == dialog.body.text # 0 /\ Waiting({"retrieve", "refresh"}) = {}

Ready ==
  CASE dialog.kind = "rate" -> RateReady
    [] dialog.kind = "resource" -> ResourceReady
    [] dialog.kind = "manual" -> ManualReady
    [] dialog.kind = "associate" -> AssociateReady
    [] dialog.kind = "retrieve" -> RetrieveReady
    [] dialog.kind = "edit" -> ~Busy

(* The form of a rate and that of a review close before they are answered.  A
   rejection is confirmed first, which changes nothing that is sent. *)
Submit ==
  /\ dialog # None /\ Ready
  /\ Call(Message(dialog.kind, dialog.item, dialog))
  /\ dialog' = IF dialog.kind \in {"rate", "edit"} THEN None ELSE dialog
  /\ UNCHANGED <<server, answers, list, page, here, selected, left, notes, typed, events>>

-----------------------------------------------------------------------------
(* Buttons of the lists *)

Plain(kind, i, body) ==
  Call(Message(kind, i, [body |-> body, new |-> FALSE, opening |-> calls, was |-> body.status, stale |-> FALSE]))

DeleteRate(t) ==
  /\ page = Rates /\ dialog = None /\ Visible(t)
  /\ Plain("unrate", t, Blank)
  /\ UNCHANGED <<server, answers, list, tab, notes, typed, events>>

Select(o) ==
  /\ page = Review /\ dialog = None /\ Visible(o) /\ selected # o
  /\ selected' = o
  /\ UNCHANGED <<server, net, list, page, here, dialog, left, notes, count>>

Patch(o, s) ==
  /\ page = Review /\ here /\ selected = o /\ dialog = None /\ Row(o) /\ ~Busy
  /\ s # "NEW" /\ s # shown.items[o].status
  /\ Plain("patch", o, [Blank EXCEPT !.status = s])
  /\ UNCHANGED <<server, answers, list, tab, notes, typed, events>>

DeleteOffer(o) ==
  /\ page = Review /\ here /\ selected = o /\ dialog = None /\ Row(o) /\ ~Busy
  /\ Plain("delete", o, Blank)
  /\ UNCHANGED <<server, answers, list, tab, notes, typed, events>>

Opposite(active) == IF active THEN "NEW" ELSE "VALID"

(* The list shows the new status before it is answered, and any reading is
   given up; "VALID" stands for active. *)
StatusSwitch(r) == page = Resources /\ dialog = None /\ Visible(r) /\ Waiting({"status"}) = {}

ChangeStatus(r) ==
  /\ StatusSwitch(r)
  /\ Call([Message("status", r, [body |-> [Blank EXCEPT !.status = Opposite(shown.items[r].active)],
                                 new |-> FALSE, opening |-> calls, was |-> "NEW", stale |-> FALSE])
             EXCEPT !.before = [view |-> view, list |-> shown]])
  /\ shown' = [shown EXCEPT !.items[r].active = ~@]
  /\ fetch' = None
  /\ UNCHANGED <<server, answers, view, failed, tab, notes, typed, events>>

-----------------------------------------------------------------------------
(* savis-api and the Executor *)

Answer(c, ok) == IF c.gone THEN {} ELSE {[call |-> c, ok |-> ok, done |-> FALSE]}
Served(c, ok) == wire' = wire \ {c} /\ answers' = answers \cup Answer(c, ok)

SaveRate(c) ==
  /\ c.kind \in {"rate", "unrate"}
  /\ LET ok == (rates[c.item] = None) = c.new
     IN /\ Served(c, ok)
        /\ rates' = IF ok THEN [rates EXCEPT ![c.item] = IF c.kind = "rate" THEN c.body.text ELSE None] ELSE rates
  /\ UNCHANGED <<materials, begun, supply, withdrawn, reviews, list, tab, notes, count>>

(* A resource is read, and its whole row is written at the end of the transaction. *)
Revised(row, c) == IF c.kind = "status" THEN [row EXCEPT !.active = c.body.status = "VALID"] ELSE [row EXCEPT !.text = c.body.text]

(* A new resource is a row of its own. *)
Target(c) == IF c.new THEN {r \in Materials : materials[r] = None /\ \A b \in begun : b.item # r} ELSE {c.item}

Begin(c) ==
  /\ c.kind \in {"resource", "status"}
  /\ wire' = wire \ {c}
  /\ \E r \in Target(c) :
       begun' = begun \cup {[call |-> c, item |-> r,
                            row |-> IF c.new THEN [text |-> c.body.text, active |-> TRUE] ELSE Revised(materials[r], c)]}
  /\ UNCHANGED <<rates, materials, supply, withdrawn, reviews, answers, list, tab, notes, count>>

(* Writes that overlap leave the row of the last. *)
Commit(b) ==
  /\ begun' = begun \ {b}
  /\ materials' = [materials EXCEPT ![b.item] = b.row]
  /\ answers' = answers \cup Answer(b.call, TRUE)
  /\ chosen' = IF b.call.kind = "status" \/ b.call.new THEN [chosen EXCEPT ![b.item] = b.row.active] ELSE chosen
  /\ unsettled' = unsettled \cup {x.item : x \in {y \in begun' : y.item = b.item}}
  /\ UNCHANGED <<rates, supply, withdrawn, reviews, wire, list, tab, strays, ours, undone, searched, thinned, count>>

Associate(c) ==
  /\ c.kind \in {"manual", "associate"}
  /\ LET ok == c.body.to \in Active /\ (c.kind = "manual" => supply[c.item] = None)
     IN Served(c, ok) /\ supply' = IF ok THEN [supply EXCEPT ![c.item] = c.body.to] ELSE supply
  /\ UNCHANGED <<rates, materials, begun, withdrawn, reviews, list, tab, notes, count>>

(* A call whose answer this page awaits *)
Awaited(c) == c.live /\ ~c.gone

(* What was filled in from an earlier review is out of date, except what this page
   itself sends or shows while it awaits the later one. *)
Outdated(o, calling, known) ==
  /\ wire' = {IF c.item = o /\ ~(known /\ Awaited(c)) THEN [c EXCEPT !.stale = TRUE] ELSE c : c \in calling}
  /\ dialog' = IF dialog # None /\ dialog.item = o /\ ~known THEN [dialog EXCEPT !.stale = TRUE] ELSE dialog

SaveReview(c) ==
  /\ c.kind \in {"edit", "patch"}
  /\ Outdated(c.item, wire \ {c}, Awaited(c))
  /\ answers' = answers \cup Answer(c, reviews[c.item] # None)
  /\ reviews' = IF reviews[c.item] = None THEN reviews
                ELSE [reviews EXCEPT ![c.item] = [status |-> c.body.status, text |-> IF c.kind = "edit" THEN c.body.text ELSE @.text]]
  /\ ours' = IF Awaited(c) /\ reviews[c.item] # None THEN ours \cup {c.item} ELSE ours \ {c.item}
  /\ undone' = (undone \/ (c.kind = "edit" /\ ~c.stale /\ reviews[c.item] # None
                           /\ c.body.status = c.was /\ reviews[c.item].status # c.was))
  /\ UNCHANGED <<rates, materials, begun, supply, withdrawn, list, page, here, selected, left,
                 strays, chosen, unsettled, searched, thinned, count>>

DeleteReview(c) ==
  /\ c.kind = "delete"
  /\ Outdated(c.item, wire \ {c}, FALSE)
  /\ answers' = answers \cup Answer(c, reviews[c.item] # None)
  /\ reviews' = [reviews EXCEPT ![c.item] = None]
  /\ ours' = ours \ {c.item}
  /\ UNCHANGED <<rates, materials, begun, supply, withdrawn, list, page, here, selected, left,
                 strays, chosen, unsettled, undone, searched, thinned, count>>

(* A retrieval is always accepted; a refresh is refused while another of the offer is
   active, one of the schedule for example. *)
CreateTask(c) ==
  /\ c.kind \in {"retrieve", "refresh"}
  /\ \E ok \in BOOLEAN : (c.kind = "retrieve" => ok) /\ Served(c, ok)
  /\ UNCHANGED <<server, list, tab, notes, count>>

(* Another administrator, or an acquisition *)
OtherRates(t) ==
  /\ page = Rates
  /\ rates' = [rates EXCEPT ![t] = IF @ = None THEN MaxEdits + 1 ELSE None]
  /\ UNCHANGED <<materials, begun, supply, withdrawn, reviews, net, dialog, notes>>

OtherMaterials(r) ==
  /\ page \in {Resources, Supply} /\ materials[r] # None
  /\ materials' = [materials EXCEPT ![r].active = ~@]
  /\ unsettled' = unsettled \cup {r}
  /\ UNCHANGED <<rates, begun, supply, withdrawn, reviews, net, dialog, strays, chosen, ours, undone, searched, thinned>>

(* The Executor withdraws an offer, or finds it again. *)
Withdraw(o) ==
  /\ withdrawn' = IF o \in withdrawn THEN withdrawn \ {o} ELSE withdrawn \cup {o}
  /\ thinned' = TRUE

OtherSupply(o) ==
  /\ page = Supply
  /\ \/ Active # {} /\ supply' \in {[supply EXCEPT ![o] = r] : r \in Active} /\ UNCHANGED <<withdrawn, thinned>>
     \/ supply[o] # None /\ Withdraw(o) /\ UNCHANGED supply
  /\ UNCHANGED <<rates, materials, begun, reviews, net, dialog, strays, chosen, unsettled, ours, undone, searched>>

OtherReviews(o) ==
  /\ page = Review
  /\ \E s \in Statuses \cup {None} :
       reviews' = [reviews EXCEPT ![o] = IF s = None THEN None ELSE [status |-> s, text |-> IF @ = None THEN 0 ELSE @.text]]
  /\ Outdated(o, wire, FALSE)
  /\ ours' = ours \ {o}
  /\ UNCHANGED <<rates, materials, begun, supply, withdrawn, answers, strays, chosen, unsettled, undone, searched, thinned>>

Other ==
  /\ events < MaxEvents
  /\ events' = events + 1
  /\ \/ \E t \in Types : OtherRates(t)
     \/ \E r \in Materials : OtherMaterials(r)
     \/ \E o \in Offers : OtherSupply(o) \/ OtherReviews(o)
  /\ UNCHANGED <<list, page, here, selected, left, typed, calls>>

-----------------------------------------------------------------------------
(* Answers: a list that is shown is read again before a call is over. *)

Again == fetch' = IF here THEN Asked ELSE fetch
Over(a) == answers' = (answers \ {a}) \cup {[a EXCEPT !.done = TRUE]}

Succeeded(a) ==
  /\ a.ok /\ ~a.done
  /\ Over(a)
  /\ IF a.call.kind \in {"retrieve", "refresh"} THEN UNCHANGED fetch ELSE Again
  /\ UNCHANGED <<server, wire, view, shown, failed, tab, notes, count>>

(* A status that was refused is put back as it was shown, with the rest of its list. *)
PutBack(c) == IF c.kind = "status" /\ c.before.view = view THEN c.before.list ELSE shown

RefusedAlone(a) ==
  /\ ~a.ok /\ ~a.done
  /\ Over(a)
  /\ shown' = PutBack(a.call)
  /\ UNCHANGED <<server, wire, view, fetch, failed, tab, notes, count>>

Refused(a) ==
  /\ ~a.ok /\ ~a.done
  /\ Over(a)
  /\ shown' = PutBack(a.call)
  /\ IF a.call.kind = "status" THEN Again ELSE UNCHANGED fetch
  /\ UNCHANGED <<server, wire, view, failed, tab, notes, count>>

(* The dialogs that close by success close whichever dialog of theirs is open. *)
Closes(c) ==
  /\ dialog # None /\ dialog.kind = c.kind
  /\ c.kind = "manual" \/ (c.live /\ c.kind \in {"resource", "retrieve"})

Finish(a) ==
  /\ a.done /\ (fetch = None \/ ~here)
  /\ answers' = answers \ {a}
  /\ dialog' = IF a.ok /\ Closes(a.call) THEN None ELSE dialog
  /\ left' = IF a.ok /\ a.call.live /\ a.call.kind = "retrieve" THEN 0 ELSE left
  /\ strays' = IF a.ok /\ Closes(a.call) /\ dialog.opening # a.call.opening THEN strays \cup {dialog.kind} ELSE strays
  /\ UNCHANGED <<server, list, page, here, selected, chosen, unsettled, ours, undone, searched, thinned, typed, events>>
  /\ IF a.ok /\ a.call.kind = "edit" /\ a.call.body.now
     THEN Call([a.call EXCEPT !.kind = "refresh", !.nth = calls])
     ELSE UNCHANGED <<wire, calls>>

(* A call, or its answer, is lost; a call may still reach the server. *)
Lose ==
  /\ events < MaxEvents
  /\ events' = events + 1
  /\ \/ \E c \in {d \in wire : ~d.gone} :
          /\ wire' \in {wire \ {c}, (wire \ {c}) \cup {[c EXCEPT !.gone = TRUE]}}
          /\ answers' = answers \cup {[call |-> c, ok |-> FALSE, done |-> FALSE]}
          /\ unsettled' = unsettled \cup (IF c.kind \in {"status", "resource"} THEN Target(c) ELSE {})
          /\ UNCHANGED ours
     \/ \E a \in {b \in answers : b.ok /\ ~b.done} :
          /\ answers' = (answers \ {a}) \cup {[a EXCEPT !.ok = FALSE]}
          /\ unsettled' = unsettled \cup (IF a.call.kind \in {"status", "resource"} THEN Materials ELSE {})
          /\ ours' = ours \ {a.call.item}
          /\ UNCHANGED wire
  /\ UNCHANGED <<server, list, tab, strays, chosen, undone, searched, thinned, typed, calls>>

-----------------------------------------------------------------------------
(* Bound: the pages are explored apart.  At the start every review is there; of the
   supplier offers the first is, with its resource and no other. *)
Init ==
  /\ page \in Pages /\ here = TRUE
  /\ rates \in [Types -> {None, 0}]
  /\ materials \in [Materials -> {None, [text |-> 0, active |-> TRUE]}]
  /\ page \in {Rates, Review} => \A r \in Materials : materials[r] # None
  /\ supply \in [Offers -> {None} \cup Materials]
  /\ IF page = Supply THEN \A o \in Offers : supply[o] # None <=> o = 1 ELSE \A o \in Offers : supply[o] = None
  /\ page = Supply => \A r \in Materials : materials[r] # None <=> r = supply[1]
  /\ page # Rates => \A t \in Types : rates[t] = None
  /\ reviews \in [Offers -> {None} \cup {[status |-> "NEW", text |-> 0]}]
  /\ IF page = Review THEN \A o \in Offers : reviews[o] # None ELSE \A o \in Offers : reviews[o] = None
  /\ withdrawn = {}
  /\ begun = {} /\ wire = {} /\ answers = {}
  /\ view = First /\ shown = None /\ fetch = Asked /\ failed = FALSE
  /\ selected = None /\ dialog = None /\ left = 0
  /\ strays = {} /\ unsettled = {} /\ ours = {} /\ undone = FALSE /\ searched = FALSE /\ thinned = FALSE
  /\ chosen = [r \in Materials |-> IF materials[r] = None THEN None ELSE TRUE]
  /\ typed = 0 /\ calls = 0 /\ events = 0

Next ==
  \/ Reading \/ Arrive \/ ReadFails \/ Retry \/ Leave \/ Return
  \/ \E s \in StatusFilters : \E t \in TermFilters(s), n \in Offers : Turn([view EXCEPT !.status = s, !.term = t, !.nth = n])
  \/ \E t \in {None, 1} : Search(t)
  \/ Debounce
  \/ \E kind \in Kinds, i \in Items : Open(kind, i)
  \/ dialog # None /\ \E body \in Change(dialog) : Type(body)
  \/ Close \/ Submit
  \/ \E t \in Types : DeleteRate(t)
  \/ \E o \in Offers : Select(o) \/ DeleteOffer(o) \/ \E s \in Statuses : Patch(o, s)
  \/ \E r \in Materials : ChangeStatus(r)
  \/ \E c \in wire : SaveRate(c) \/ Begin(c) \/ Associate(c) \/ SaveReview(c) \/ DeleteReview(c) \/ CreateTask(c)
  \/ \E b \in begun : Commit(b)
  \/ Other \/ Lose
  \/ \E a \in answers : Succeeded(a) \/ Refused(a) \/ Finish(a)

Spec == Init /\ [][Next]_vars

-----------------------------------------------------------------------------
(* Properties *)

(* An answer closes the dialog that asked for it and no other, except the dialogs
   that can be closed and opened again while it is awaited: a manual offer and a
   retrieval, whose next text it drops. *)
ClosedByOwnAnswer == strays \subseteq {"manual", "retrieve"}

Quiet == wire = {} /\ answers = {} /\ begun = {} /\ here /\ fetch = None /\ ~failed /\ shown # None

(* Once every change is answered and the list was read again, it shows of each
   resource the status that was confirmed last, whatever was shown before the
   answers, put back, or edited meanwhile, unless others wrote it, two writes of the
   resource overlapped, or an answer was lost. *)
StatusSettled ==
  page = Resources /\ Quiet =>
    \A r \in Materials \ unsettled :
      chosen[r] # None => IF view.status = "ACTIVE" /\ ~chosen[r] THEN ~Row(r) ELSE Row(r) /\ shown.items[r].active = chosen[r]

(* Saving the frequency of an offer leaves its review alone, unless others changed the
   review, or a call of the page was lost or left, since the list behind the dialog was
   read, or the last reading of that list failed: an edit never undoes a review that
   this page gave. *)
ReviewKept == ~undone

(* A page of reviews or of supplier offers that is shown empty means that no offer
   matches its filter, except among the supplier offers after one was withdrawn, or
   after the page was turned while the offers of another search were still shown. *)
NoEmptyPage ==
  page \in {Review, Supply} /\ shown # None =>
    DOMAIN shown.items # {} \/ shown.total = 0 \/ (page = Supply /\ thinned)
=============================================================================
