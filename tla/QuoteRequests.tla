--------------------------- MODULE QuoteRequests ---------------------------
(* One quote request, as savis-api keeps it and as several administrators
   work on it, each in the details page of the admin application.

   The API serialises the writers of a request with a row lock and refuses a
   write whose expectedVersion is not the row's.  Everything the administrators
   do rests on what their page has cached: the qualification form and the
   proposal dialog copy version and lines out of it when they are opened, the
   page refetches behind them, calls and answers get lost, and a proposal
   whose answer is lost is sent again under the same intention. *)
EXTENDS Naturals, FiniteSets

CONSTANTS
  Pages,        \* details pages open in the browsers of the administrators
  Places,       \* the proposal dialogs of one page
  PanelPlace,   \* the one inside the qualification panel
  Lines,        \* line ids; the same for a need whenever it is prepared
  Contents,     \* product, quantity, configuration and needs of a line
  Asked,        \* the content the original request gives a line
  None,         \* nothing there
  Sent,         \* a GET the server has not answered
  MaxCalls,     \* bound on the calls the administrators make
  MaxEvents     \* bound on lost calls and answers, failed refetches, catalogue changes

ASSUME PlacesAssumption == PanelPlace \in Places
ASSUME ContentsAssumption == Asked \in Contents
ASSUME BoundsAssumption == MaxCalls \in Nat /\ MaxEvents \in Nat

Statuses == {"RECEIVED", "IN_PROGRESS", "QUOTED", "CLOSED"}
Qualifications == UNION {[S -> Contents] : S \in SUBSET Lines}
Forms == Pages \X Places
(* What one page can have a call under way for: its form, its closing, its dialogs. *)
Slots(p) == {<<p, "edit">>, <<p, "close">>} \cup {<<p, s>> : s \in Places}
Owners == UNION {Slots(p) : p \in Pages}
Phases == {"idle", "pending", "settling", "success"}

Row == [version : Nat, status : Statuses, qualification : Qualifications \cup {None}]
Shown == [version : Nat, status : Statuses, saved : Qualifications \cup {None},
          lines : Qualifications, made : Nat]
EditForm == [expected : Nat, base : Qualifications \cup {None}, lines : Qualifications, phase : Phases]
Intention == [key : Nat, lines : SUBSET Lines, expected : Nat, seen : Qualifications, knows : Nat]
ProposalForm == [open : BOOLEAN, expected : Nat, selected : SUBSET Lines, knows : Nat,
                 intention : Intention \cup {None}, phase : Phases]
Quotation == [key : Nat, from : Nat, lines : Qualifications, seen : Qualifications, knows : Nat,
              before : Nat, unsaved : BOOLEAN]
SomeCall(kind, bodies) == [kind : {kind}, owner : Owners \cup {None}, expected : Nat, body : bodies]
ServerCall ==
  SomeCall("qualify", [base : Qualifications \cup {None}, lines : Qualifications])
    \cup SomeCall("close", {None}) \cup SomeCall("propose", Intention)
Answer == [owner : Owners, ok : BOOLEAN]

(* The marks are told from what they stand in for, and a dialog from the rest of its page. *)
ASSUME MarksAssumption ==
  /\ None # Sent /\ None \notin Shown /\ Sent \notin Shown
  /\ None \notin EditForm /\ None \notin Intention /\ None \notin Owners
  /\ "edit" \notin Places /\ "close" \notin Places

VARIABLES
  request,      \* the row
  recognised,   \* lines the catalogue still recognises in the original request
  quotations,   \* the quotations made from the request
  wire,         \* calls under way to the server
  answers,      \* answers under way to the browsers
  view,         \* what each page shows of the request
  fetch,        \* the page's GET: None, Sent, or the copy that was read
  edit,         \* the qualification form of each page
  closing,      \* the closing mutation of each page
  form,         \* the proposal dialogs
  calls,        \* mutations started so far; also numbers the intentions
  events

server == <<request, quotations>>
vars == <<request, recognised, quotations, wire, answers, view, fetch, edit, closing, form, calls, events>>

-----------------------------------------------------------------------------
(* Data *)

(* request.qualification ?? preparation.qualification *)
Effective ==
  IF request.qualification # None THEN request.qualification
  ELSE [l \in recognised |-> Asked]

(* What GET /quote-requests/{id} answers now; made counts the quotations so far. *)
Copy == [version |-> request.version, status |-> request.status, saved |-> request.qualification,
         lines |-> Effective, made |-> Cardinality(quotations)]

NoForm == [open |-> FALSE, expected |-> 0, selected |-> {}, knows |-> 0, intention |-> None, phase |-> "idle"]
NoEdit == None
Captured(p) == [open |-> FALSE, expected |-> view[p].version, selected |-> DOMAIN view[p].lines,
                knows |-> view[p].made, intention |-> None, phase |-> "idle"]

Busy(phase) == phase \in {"pending", "settling"}
Open(p) == view[p] # None /\ view[p].status # "CLOSED"
(* A dialog is modal: nothing behind it can be used. *)
Modal(p) == Busy(closing[p]) \/ \E s \in Places : form[<<p, s>>].open

Call(kind, owner, expected, body) == [kind |-> kind, owner |-> owner, expected |-> expected, body |-> body]
Orphan(c) == [c EXCEPT !.owner = None]
OwnedBy(set, owners) == {c \in set : c.owner \in owners}

(* The callbacks of a component that is gone are not called; the call goes on. *)
Detach(owners) ==
  /\ wire' = (wire \ OwnedBy(wire, owners)) \cup {Orphan(c) : c \in OwnedBy(wire, owners)}
  /\ answers' = answers \ OwnedBy(answers, owners)

FormsOf(p) == {<<p, s>> : s \in Places}
(* Every form of the page is mounted again from the copy it then shows. *)
Unmount(p) ==
  /\ Detach(Slots(p))
  /\ edit' = [edit EXCEPT ![p] = NoEdit]
  /\ closing' = [closing EXCEPT ![p] = "idle"]
  /\ form' = [f \in Forms |-> IF f \in FormsOf(p) THEN NoForm ELSE form[f]]

-----------------------------------------------------------------------------
(* The page and its query *)

(* The network comes back, the page tries again after an error, or an orphan
   call ends.  A refetch that would find what is shown is left out. *)
Refetch(p) ==
  /\ fetch[p] = None /\ view[p] # Copy
  /\ fetch' = [fetch EXCEPT ![p] = Sent]
  /\ UNCHANGED <<request, recognised, quotations, wire, answers, view, edit, closing, form, calls, events>>

Read(p) ==
  /\ fetch[p] = Sent
  /\ fetch' = [fetch EXCEPT ![p] = Copy]
  /\ UNCHANGED <<request, recognised, quotations, wire, answers, view, edit, closing, form, calls, events>>

(* Mutations await the refetch they cause before they report success. *)
Settled(phase) == IF phase = "settling" THEN "success" ELSE phase
(* A dialog is mounted with the first copy and unmounted when the request is closed. *)
Remounted(f, copy) ==
  IF copy.status = "CLOSED" THEN NoForm
  ELSE [form[f] EXCEPT !.phase = Settled(@)]

Arrive(p) ==
  /\ fetch[p] \notin {None, Sent}
  /\ view' = [view EXCEPT ![p] = fetch[p]]
  /\ fetch' = [fetch EXCEPT ![p] = None]
  /\ edit' = [edit EXCEPT ![p] = IF @ # NoEdit /\ @.phase = "settling" THEN NoEdit ELSE @]
  /\ closing' = [closing EXCEPT ![p] = IF @ = "settling" \/ fetch[p].status = "CLOSED" THEN "idle" ELSE @]
  /\ form' = [f \in Forms |-> IF f \in FormsOf(p) THEN Remounted(f, fetch[p]) ELSE form[f]]
  /\ IF fetch[p].status = "CLOSED" THEN Detach(FormsOf(p) \cup {<<p, "close">>}) ELSE UNCHANGED <<wire, answers>>
  /\ UNCHANGED <<request, recognised, quotations, calls, events>>

(* The page puts an error in the place of its content, forms included. *)
FetchFails(p) ==
  /\ fetch[p] # None
  /\ events < MaxEvents
  /\ events' = events + 1
  /\ fetch' = [fetch EXCEPT ![p] = None]
  /\ view' = [view EXCEPT ![p] = None]
  /\ Unmount(p)
  /\ UNCHANGED <<request, recognised, quotations, calls>>

(* Leaving the page and coming back keeps its copy, reloading it does not. *)
Leave(p) ==
  /\ view[p] # None
  /\ \E kept \in {view[p], None} : view' = [view EXCEPT ![p] = kept]
  /\ fetch' = [fetch EXCEPT ![p] = Sent]
  /\ Unmount(p)
  /\ UNCHANGED <<request, recognised, quotations, calls, events>>

-----------------------------------------------------------------------------
(* The qualification form *)

(* Its fields and its version are those of the copy it is opened on.  It takes
   the place of the panel, and of the proposal dialog inside it. *)
BeginEdit(p) ==
  /\ Open(p) /\ ~Modal(p) /\ edit[p] = NoEdit
  /\ edit' = [edit EXCEPT ![p] = [expected |-> view[p].version, base |-> view[p].saved,
                                 lines |-> view[p].lines, phase |-> "idle"]]
  /\ form' = [form EXCEPT ![<<p, PanelPlace>>] = NoForm]
  /\ UNCHANGED <<request, recognised, quotations, wire, answers, view, fetch, closing, calls, events>>

(* A product is added or configured and the needs it covers are ticked; *)
Adjusted(lines) == UNION {{[k \in DOMAIN lines \cup {l} |-> IF k = l THEN c ELSE lines[k]] : c \in Contents} : l \in Lines}
(* a product is removed; *)
Removed(lines) == {[k \in DOMAIN lines \ {l} |-> lines[k]] : l \in DOMAIN lines}
(* the configuration of a need is taken back, unless page or form has the line. *)
UsedSelection(p, lines) ==
  {[k \in DOMAIN lines \cup {l} |-> IF k = l THEN Asked ELSE lines[k]] :
     l \in Lines \ (DOMAIN lines \cup DOMAIN view[p].lines)}

(* The fields stay enabled during a save: what is typed then goes with the form when the save
   succeeds, and is as if typed afterwards when it fails. *)
EditLines(p) ==
  /\ Open(p) /\ ~Modal(p) /\ edit[p] # NoEdit /\ ~Busy(edit[p].phase)
  /\ \E lines \in Adjusted(edit[p].lines) \cup Removed(edit[p].lines) \cup UsedSelection(p, edit[p].lines) :
       edit' = [edit EXCEPT ![p].lines = lines]
  /\ UNCHANGED <<request, recognised, quotations, wire, answers, view, fetch, closing, form, calls, events>>

CancelEdit(p) ==
  /\ ~Modal(p) /\ edit[p] # NoEdit /\ ~Busy(edit[p].phase)
  /\ edit' = [edit EXCEPT ![p] = NoEdit]
  /\ UNCHANGED <<request, recognised, quotations, wire, answers, view, fetch, closing, form, calls, events>>

Mutate(kind, owner, expected, body) ==
  /\ calls < MaxCalls
  /\ calls' = calls + 1
  /\ wire' = wire \cup {Call(kind, owner, expected, body)}
  /\ UNCHANGED answers

(* Mutant: the save sends the version of the page, not that of the form. *)
SubmitEditLatest(p) ==
  /\ Open(p) /\ ~Modal(p) /\ edit[p] # NoEdit /\ ~Busy(edit[p].phase)
  /\ edit' = [edit EXCEPT ![p].phase = "pending"]
  /\ Mutate("qualify", <<p, "edit">>, view[p].version, [base |-> edit[p].base, lines |-> edit[p].lines])
  /\ UNCHANGED <<request, recognised, quotations, view, fetch, closing, form, events>>

SubmitEdit(p) ==
  /\ Open(p) /\ ~Modal(p) /\ edit[p] # NoEdit /\ ~Busy(edit[p].phase)
  /\ edit' = [edit EXCEPT ![p].phase = "pending"]
  /\ Mutate("qualify", <<p, "edit">>, edit[p].expected, [base |-> edit[p].base, lines |-> edit[p].lines])
  /\ UNCHANGED <<request, recognised, quotations, view, fetch, closing, form, events>>

-----------------------------------------------------------------------------
(* The closing dialog sends the version the page shows when it is confirmed. *)

CloseRequest(p) ==
  /\ Open(p) /\ ~Modal(p) /\ ~Busy(closing[p])
  /\ closing' = [closing EXCEPT ![p] = "pending"]
  /\ Mutate("close", <<p, "close">>, view[p].version, None)
  /\ UNCHANGED <<request, recognised, quotations, view, fetch, edit, form, events>>

-----------------------------------------------------------------------------
(* The proposal dialog *)

Mounted(f) ==
  /\ Open(f[1])
  /\ f[2] = PanelPlace => edit[f[1]] = NoEdit

(* Opened without an intention it takes version and lines from the page. *)
OpenForm(f) ==
  /\ Mounted(f) /\ ~Modal(f[1])
  /\ form' = [form EXCEPT ![f] = [(IF @.intention = None THEN Captured(f[1]) ELSE @) EXCEPT !.open = TRUE]]
  /\ UNCHANGED <<request, recognised, quotations, wire, answers, view, fetch, edit, closing, calls, events>>

(* Opening again overwrites what a dialog without an intention held. *)
CloseForm(f) ==
  /\ form[f].open /\ ~Busy(form[f].phase)
  /\ form' = [form EXCEPT ![f] = IF @.intention = None THEN NoForm ELSE [@ EXCEPT !.open = FALSE]]
  /\ UNCHANGED <<request, recognised, quotations, wire, answers, view, fetch, edit, closing, calls, events>>

(* The boxes are those of the lines the page shows now. *)
ToggleLine(f) ==
  /\ form[f].open /\ form[f].intention = None /\ ~Busy(form[f].phase)
  /\ \E l \in DOMAIN view[f[1]].lines :
       form' = [form EXCEPT ![f].selected = IF l \in @ THEN @ \ {l} ELSE @ \cup {l}]
  /\ UNCHANGED <<request, recognised, quotations, wire, answers, view, fetch, edit, closing, calls, events>>

(* Mutant: the version is read when the proposal is confirmed. *)
CommandLatest(f) ==
  [key |-> calls + 1, lines |-> form[f].selected, expected |-> view[f[1]].version,
   seen |-> [l \in form[f].selected \cap DOMAIN view[f[1]].lines |-> view[f[1]].lines[l]],
   knows |-> form[f].knows]

(* seen and knows are not sent: what the page shows of the chosen lines when
   they are confirmed, and how many proposals it had counted. *)
Command(f) ==
  [key |-> calls + 1, lines |-> form[f].selected, expected |-> form[f].expected,
   seen |-> [l \in form[f].selected \cap DOMAIN view[f[1]].lines |-> view[f[1]].lines[l]],
   knows |-> form[f].knows]

(* A first confirmation fixes the intention; any later one sends it again. *)
Confirm(f) ==
  /\ form[f].open /\ form[f].phase = "idle" /\ form[f].selected # {}
  /\ LET command == IF form[f].intention = None THEN Command(f) ELSE form[f].intention
     IN /\ form' = [form EXCEPT ![f].intention = command, ![f].phase = "pending"]
        /\ Mutate("propose", f, command.expected, command)
  /\ UNCHANGED <<request, recognised, quotations, view, fetch, edit, closing, events>>

(* "Créer une autre soumission" *)
AnotherProposal(f) ==
  /\ form[f].open /\ form[f].intention # None /\ ~Busy(form[f].phase)
  /\ form' = [form EXCEPT ![f] = [Captured(f[1]) EXCEPT !.open = TRUE]]
  /\ UNCHANGED <<request, recognised, quotations, wire, answers, view, fetch, edit, closing, calls, events>>

-----------------------------------------------------------------------------
(* The server: each call is one transaction under the lock of the row. *)

(* Mutant: the version is not compared. *)
EditableAnyVersion(expected) == expected \in Nat /\ request.status # "CLOSED"

Editable(expected) == expected = request.version /\ request.status # "CLOSED"

Saved(status, qualification) ==
  [version |-> request.version + 1, status |-> status, qualification |-> qualification]

Qualify(c) ==
  /\ c.kind = "qualify" /\ Editable(c.expected)
  /\ request' = Saved(IF request.status = "RECEIVED" THEN "IN_PROGRESS" ELSE request.status, c.body.lines)
  /\ UNCHANGED quotations

ChangeStatus(c) ==
  /\ c.kind = "close" /\ Editable(c.expected)
  /\ request' = Saved("CLOSED", request.qualification)
  /\ UNCHANGED quotations

Made(key) == \E q \in quotations : q.key = key
Coverable(lines) == lines # {} /\ lines \subseteq DOMAIN Effective

Quote(c) ==
  /\ c.kind = "propose" /\ ~Made(c.body.key) /\ Editable(c.expected) /\ Coverable(c.body.lines)
  /\ quotations' = quotations \cup
       {[key |-> c.body.key, from |-> c.expected, lines |-> [l \in c.body.lines |-> Effective[l]],
         seen |-> c.body.seen, knows |-> c.body.knows, before |-> Cardinality(quotations),
         unsaved |-> request.qualification = None]}
  /\ request' = Saved("QUOTED", request.qualification)

(* Mutant: a repetition is checked like a first call. *)
ReplayedEditable(c) == c.kind = "propose" /\ Made(c.body.key) /\ Editable(c.expected)

(* The replay comes before every other check. *)
Replayed(c) == c.kind = "propose" /\ Made(c.body.key)
Replay(c) == Replayed(c) /\ UNCHANGED server

(* A new proposal is also refused when the catalogue cannot price its lines. *)
Refuse(c) ==
  /\ IF c.kind = "propose" THEN ~Replayed(c) ELSE ~Editable(c.expected)
  /\ UNCHANGED server

Execute(c) ==
  \E ok \in BOOLEAN :
    /\ IF ok THEN Qualify(c) \/ ChangeStatus(c) \/ Quote(c) \/ Replay(c) ELSE Refuse(c)
    /\ wire' = wire \ {c}
    /\ answers' = answers \cup (IF c.owner = None THEN {} ELSE {[owner |-> c.owner, ok |-> ok]})
    /\ UNCHANGED <<recognised, view, fetch, edit, closing, form, calls, events>>

-----------------------------------------------------------------------------
(* Answers *)

EndCall(owner, phase) ==
  LET p == owner[1]
  IN /\ edit' = IF owner[2] = "edit" THEN [edit EXCEPT ![p].phase = phase] ELSE edit
     /\ closing' = IF owner[2] = "close" THEN [closing EXCEPT ![p] = phase] ELSE closing
     /\ form' = IF owner \in Forms THEN [form EXCEPT ![owner].phase = phase] ELSE form

(* Mutant: the refetch joins the one under way. *)
DeliverJoining(a) ==
  /\ EndCall(a.owner, IF a.ok THEN "settling" ELSE "idle")
  /\ fetch' = IF a.ok /\ fetch[a.owner[1]] = None THEN [fetch EXCEPT ![a.owner[1]] = Sent] ELSE fetch
  /\ answers' = answers \ {a}
  /\ UNCHANGED <<request, recognised, quotations, wire, view, calls, events>>

(* A success invalidates the request: a refetch replaces the one under way. *)
Deliver(a) ==
  /\ EndCall(a.owner, IF a.ok THEN "settling" ELSE "idle")
  /\ fetch' = IF a.ok THEN [fetch EXCEPT ![a.owner[1]] = Sent] ELSE fetch
  /\ answers' = answers \ {a}
  /\ UNCHANGED <<request, recognised, quotations, wire, view, calls, events>>

(* The network gives up: before the server, on the way to it, or on the way back. *)
Lose(owner) ==
  /\ events < MaxEvents
  /\ events' = events + 1
  /\ \/ \E c \in OwnedBy(wire, {owner}) :
          /\ wire' \in {wire \ {c}, (wire \ {c}) \cup {Orphan(c)}}
          /\ UNCHANGED answers
     \/ \E a \in OwnedBy(answers, {owner}) :
          /\ answers' = answers \ {a}
          /\ UNCHANGED wire
  /\ EndCall(owner, "idle")
  /\ UNCHANGED <<request, recognised, quotations, view, fetch, calls>>

(* Products come and go in the catalogue, and with them what is recognised. *)
CatalogueMoves ==
  /\ events < MaxEvents
  /\ events' = events + 1
  /\ recognised' \in SUBSET Lines \ {recognised}
  /\ UNCHANGED <<request, quotations, wire, answers, view, fetch, edit, closing, form, calls>>

-----------------------------------------------------------------------------
(* The pages have just been opened. *)
Init ==
  /\ request = [version |-> 0, status |-> "RECEIVED", qualification |-> None]
  /\ recognised = Lines
  /\ quotations = {} /\ wire = {} /\ answers = {}
  /\ view = [p \in Pages |-> Copy]
  /\ fetch = [p \in Pages |-> None]
  /\ edit = [p \in Pages |-> NoEdit]
  /\ closing = [p \in Pages |-> "idle"]
  /\ form = [f \in Forms |-> NoForm]
  /\ calls = 0 /\ events = 0

Next ==
  \/ \E p \in Pages :
       \/ Refetch(p) \/ Read(p) \/ Arrive(p) \/ FetchFails(p) \/ Leave(p)
       \/ BeginEdit(p) \/ EditLines(p) \/ CancelEdit(p) \/ SubmitEdit(p) \/ CloseRequest(p)
  \/ \E f \in Forms : OpenForm(f) \/ CloseForm(f) \/ ToggleLine(f) \/ Confirm(f) \/ AnotherProposal(f)
  \/ \E c \in wire : Execute(c)
  \/ \E a \in answers : Deliver(a)
  \/ \E o \in Owners : Lose(o)
  \/ CatalogueMoves

Spec == Init /\ [][Next]_vars

-----------------------------------------------------------------------------
(* Properties *)

(* The types of the row, of what the pages remember of it, and of what is under
   way between them. *)
TypeOK ==
  /\ request \in Row /\ recognised \in SUBSET Lines
  /\ quotations \subseteq Quotation /\ IsFiniteSet(quotations)
  /\ wire \subseteq ServerCall /\ answers \subseteq Answer
  /\ view \in [Pages -> Shown \cup {None}]
  /\ fetch \in [Pages -> Shown \cup {None, Sent}]
  /\ edit \in [Pages -> EditForm \cup {NoEdit}]
  /\ closing \in [Pages -> Phases]
  /\ form \in [Forms -> ProposalForm]
  /\ calls \in Nat /\ events \in Nat

(* The qualification a save replaces is the one its author's form was opened
   on, whatever was saved, refetched or delayed in between. *)
NoLostQualification ==
  [][\A c \in wire : (Execute(c) /\ Qualify(c)) => c.body.base = request.qualification]_vars

(* A quotation covers the lines as they were on the screen of the one who
   confirmed it, although the call carries ids only and qualifications change.
   One case adds a line nobody was shown: a preparation that was never saved,
   whose product left the catalogue while the dialog was open, unticking
   nothing, and was back when the call arrived. *)
QuotedAsSeen ==
  \A q \in quotations :
    /\ \A l \in DOMAIN q.seen : l \in DOMAIN q.lines /\ q.lines[l] = q.seen[l]
    /\ ~q.unsaved => DOMAIN q.lines = DOMAIN q.seen

(* Nobody makes a further proposal without having been shown those made
   before it: a repeated, delayed or concurrent confirmation never adds one. *)
InformedProposals ==
  /\ \A q \in quotations : q.knows = q.before
  /\ \A q, r \in quotations : q.key = r.key \/ q.before = r.before => q = r

(* Once an intention has made its quotation, every repetition of it is
   answered by that quotation and changes nothing, whatever version, state or
   catalogue the request has come to since. *)
RetryIsHonoured ==
  [][\A c \in wire : (c.kind = "propose" /\ Made(c.body.key) /\ Execute(c)) =>
       /\ UNCHANGED server
       /\ c.owner # None => \E a \in answers' \ answers : a.owner = c.owner /\ a.ok]_vars

(* A dialog that reports a quotation stands on a page that shows the request
   as that quotation left it, or later. *)
ConfirmedIsShown ==
  \A f \in Forms : form[f].phase = "success" =>
    \E q \in quotations : q.key = form[f].intention.key /\ view[f[1]].version > q.from
=============================================================================
