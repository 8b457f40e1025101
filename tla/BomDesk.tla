------------------------------ MODULE BomDesk ------------------------------
(* The compositions (bills of materials) of savis-api and one browser tab of the
   admin application on their pages: the list with its details, and the form of a
   new or an existing composition.

   The form of a new composition is kept in localStorage, which every tab shares.
   An existing composition is read by the loader of its route, and what is saved
   replaces it whole.  A component of a composition is a row of its own, which a
   save finds again by its identifier; a resource that is no longer active stays
   only where it was referenced before. *)
EXTENDS Naturals, Sequences, FiniteSets

CONSTANTS
  None,
  List,        \* the page of the compositions
  New,         \* the page that creates a composition
  Elsewhere,   \* any other page
  Resources,
  Units,       \* bases of units (mass, volume, ...): units of one base are compatible
  Offers,      \* offers of suppliers
  MaxParts,    \* bound on the components of a composition
  MaxEdits,    \* bound on what is typed in the tab
  MaxCalls,    \* bound on the calls of the tab
  MaxEvents    \* bound on lost calls, reloads and the writes of others

ASSUME MarksAssumption ==
  /\ List # New /\ List # Elsewhere /\ New # Elsewhere /\ {List, New, Elsewhere} \cap Nat = {}
  /\ None \notin Nat /\ None \notin Resources \cup Units \cup Offers
ASSUME BoundsAssumption ==
  MaxParts \in Nat /\ MaxEdits \in Nat /\ MaxCalls \in Nat /\ MaxEvents \in Nat

(* A component: the identifier of its row (0 before it has one), its resource, the
   base of its unit, and the offer selected for its price. *)
Part(id, resource, unit, offer) == [id |-> id, resource |-> resource, unit |-> unit, offer |-> offer]

PartRows ==
  [id : Nat, resource : Resources \cup {None}, unit : Units \cup {None}, offer : Offers \cup {None}]

(* The base of the reference unit of each resource, and the resource each offer is
   associated with. *)
Materials == [units : [Resources -> Units \cup {None}], owner : [Offers -> Resources \cup {None}]]

(* What is typed is told by a number; 0 is blank.  The note stands for the
   description, the image, the instructions, the yield and the activities. *)
Content(name, note, parts) == [name |-> name, note |-> note, parts |-> parts]
Blank == Content(0, 0, <<>>)
Whole(parts) == Content(MaxEdits + 1, MaxEdits + 1, parts)
Others(parts) == Content(MaxEdits + 2, MaxEdits + 2, parts)
CopyName(name) == name + MaxEdits + 3

Compositions == [name : Nat, note : Nat, parts : Seq(PartRows)]
BomRows == [content : Compositions, draft : Nat]

\* What is not there is no composition and no row.
ASSUME NoneAssumption == None \notin Compositions /\ None \notin BomRows

VARIABLES
  rows,       \* the compositions made so far: content, draft; None once deleted
  lastPart,   \* the last identifier given to a row of a component
  active,     \* the resources that are active
  material,   \* the units of the resources and the owners of the offers
  past,       \* history: every state of the material there has been
  seen,       \* the material as the tab last read it
  wire, answers, \* calls of the tab and their answers
  cache,      \* the tab's copy of the list, or None
  at, going,  \* the page, and the composition that is being opened, or None
  form, dirty,
  alert,      \* DraftAlert is open
  busy,       \* pending calls of the page
  stored,     \* the draft in localStorage, or None
  drafting,   \* the draft being written, told by the calls made before it
  unsure,     \* drafts saved by a page that was left, reloaded or typed on, or whose answer was lost
  meddled,    \* another tab, or a page that was left, wrote the draft
  touched,    \* the composition of the page was written from elsewhere since it was opened
  typed, calls, events

materials == <<active, material, past, seen>>
server == <<rows, lastPart, materials>>
net == <<wire, answers>>
page == <<at, going, form, dirty, alert, busy, touched>>
draft == <<stored, drafting, unsure, meddled>>
vars == <<server, net, cache, page, draft, typed, calls, events>>

Known == 1..Len(rows)
Row(content, d) == [content |-> content, draft |-> d]
Contents == [n \in Known |-> IF rows[n] = None THEN None ELSE rows[n].content]
Parts(n) == IF n \in Known /\ rows[n] # None THEN rows[n].content.parts ELSE <<>>
HasRow(n) == n \in Known /\ rows[n] # None

-----------------------------------------------------------------------------
(* BomService.saveBom and BomRepositoryAdapter *)

NameFree(content, n) == \A k \in Known \ {n} : rows[k] # None => rows[k].content.name # content.name

(* The component is a row of the composition, and had this resource. *)
Kept(part, n) ==
  \E i \in DOMAIN Parts(n) :
    part.id # 0 /\ Parts(n)[i].id = part.id /\ Parts(n)[i].resource = part.resource

(* Units compatible with the reference unit of the resource, when it has one. *)
Suiting(r) == IF material.units[r] = None THEN Units ELSE {material.units[r]}

Acceptable(part, n) ==
  /\ part.resource # None
  /\ part.resource \in active \/ Kept(part, n)
  /\ part.unit \in Suiting(part.resource)

(* Rows of components are found again in their own composition; a composition that
   is not there yet cannot be given rows that have an identifier. *)
Allowed(n, content) ==
  /\ \A i \in DOMAIN content.parts : Acceptable(content.parts[i], n)
  /\ NameFree(content, n)
  /\ HasRow(n) \/ \A i \in DOMAIN content.parts : content.parts[i].id = 0

FoundNever(part, n) == FALSE

(* replaceComponents *)
Found(part, n) == \E i \in DOMAIN Parts(n) : part.id # 0 /\ Parts(n)[i].id = part.id
Fresh(parts, n, i) == Cardinality({j \in 1..i : ~Found(parts[j], n)})
Numbered(parts, n) ==
  [i \in DOMAIN parts |-> IF Found(parts[i], n) THEN parts[i]
                          ELSE [parts[i] EXCEPT !.id = lastPart + Fresh(parts, n, i)]]

SaveBom(n, content, d) ==
  LET kept == [content EXCEPT !.parts = Numbered(@, n)]
  IN /\ rows' = IF n \in Known THEN [rows EXCEPT ![n] = Row(kept, d)] ELSE Append(rows, Row(kept, d))
     /\ lastPart' = lastPart + Fresh(content.parts, n, Len(content.parts))

Answered(c, ok, id) == IF c.gone THEN {} ELSE {[call |-> c, ok |-> ok, id |-> id]}

(* A composition that was deleted is made again by a save of its page. *)
Save(c) ==
  /\ c.kind # "delete"
  /\ wire' = wire \ {c}
  /\ LET n == IF c.id = 0 THEN Len(rows) + 1 ELSE c.id
     IN IF Allowed(n, c.body)
        THEN /\ SaveBom(n, c.body, IF HasRow(n) THEN rows[n].draft ELSE c.draft)
             /\ answers' = answers \cup Answered(c, TRUE, n)
        ELSE UNCHANGED <<rows, lastPart>> /\ answers' = answers \cup Answered(c, FALSE, n)
  /\ touched' = (touched \/ (c.id # 0 /\ c.id = at /\ ~c.live))
  /\ UNCHANGED <<materials, cache, at, going, form, dirty, alert, busy, draft, typed, calls, events>>

Delete(c) ==
  /\ c.kind = "delete"
  /\ wire' = wire \ {c}
  /\ answers' = answers \cup Answered(c, HasRow(c.id), c.id)
  /\ rows' = [rows EXCEPT ![c.id] = None]
  /\ touched' = (touched \/ c.id = at)
  /\ UNCHANGED <<lastPart, materials, cache, at, going, form, dirty, alert, busy, draft, typed, calls, events>>

(* Another administrator replaces a composition with one of his own. *)
OtherSaves(n) ==
  /\ HasRow(n) /\ events < MaxEvents
  /\ events' = events + 1
  /\ \E parts \in {<<>>} \cup {<<Part(0, r, u, None)>> : r \in active, u \in Units} :
       /\ \A i \in DOMAIN parts : Acceptable(parts[i], n)
       /\ NameFree(Others(parts), n) /\ SaveBom(n, Others(parts), rows[n].draft)
  /\ touched' = (touched \/ n = at)
  /\ UNCHANGED <<materials, net, cache, at, going, form, dirty, alert, busy, draft, typed, calls>>

OtherDeletes(n) ==
  /\ HasRow(n) /\ events < MaxEvents
  /\ events' = events + 1
  /\ rows' = [rows EXCEPT ![n] = None]
  /\ touched' = (touched \/ n = at)
  /\ UNCHANGED <<lastPart, materials, net, cache, at, going, form, dirty, alert, busy, draft, typed, calls>>

(* A resource is deactivated on the page of the resources. *)
Deactivate(r) ==
  /\ r \in active /\ events < MaxEvents
  /\ events' = events + 1
  /\ active' = active \ {r}
  /\ UNCHANGED <<rows, lastPart, material, past, seen, net, cache, page, draft, typed, calls>>

Becomes(m) == material' = m /\ past' = past \cup {m}

(* The reference unit of a resource is edited there, whatever is made of it. *)
ReviseUnit(r) ==
  /\ events < MaxEvents
  /\ events' = events + 1
  /\ \E u \in (Units \cup {None}) \ {material.units[r]} : Becomes([material EXCEPT !.units[r] = u])
  /\ UNCHANGED <<rows, lastPart, active, seen, net, cache, page, draft, typed, calls>>

(* An offer is associated with another active resource on the page of the offers;
   its package, which acquisition may change, is in the unit of that resource. *)
Associate(o, r) ==
  /\ r \in active /\ material.owner[o] # r /\ material.units[r] # None /\ events < MaxEvents
  /\ events' = events + 1
  /\ Becomes([material EXCEPT !.owner[o] = r])
  /\ UNCHANGED <<rows, lastPart, active, seen, net, cache, page, draft, typed, calls>>

-----------------------------------------------------------------------------
(* Going from page to page *)

Fill(p, kept) ==
  CASE p = New -> IF kept = None THEN Blank ELSE kept
    [] p \in Known -> rows[p].content
    [] OTHER -> Blank

(* A form of its own for each composition; a blank one begins a draft. *)
Mount(p, kept) ==
  /\ at' = p /\ going' = None
  /\ form' = Fill(p, kept)
  /\ dirty' = FALSE /\ alert' = FALSE /\ busy' = {} /\ touched' = FALSE
  /\ drafting' = IF p = New /\ kept = None THEN calls + 1 ELSE drafting

Unanswered == {c.draft : c \in {d \in wire \cup {a.call : a \in answers} : d.kind = "create"}}
Deserted(set) == {[c EXCEPT !.live = FALSE] : c \in set}
DesertedAnswers(set) == {[a EXCEPT !.call.live = FALSE] : a \in set}

(* Nothing is asked of a form that is left; its calls run on. *)
Navigate(p, kept) ==
  /\ Mount(p, kept)
  /\ wire' = Deserted(wire)
  /\ answers' = DesertedAnswers(answers)
  /\ unsure' = unsure \cup Unanswered

(* The list is read again when it is more than a minute old, or was invalidated. *)
Lists == {Contents} \cup ({cache} \ {None})

Refetch ==
  /\ at = List /\ cache # Contents
  /\ cache' = Contents
  /\ UNCHANGED <<server, net, page, draft, typed, calls, events>>

(* The links to the list and to a new composition *)
Visit(p) ==
  /\ p \in {List, New} /\ p # at /\ (at = List \/ p = List)
  /\ Navigate(p, stored)
  /\ meddled' = FALSE
  /\ IF p = List THEN cache' \in Lists ELSE UNCHANGED cache
  /\ UNCHANGED <<server, stored, typed, calls, events>>

(* A link to a composition: its loader runs while the page stays. *)
Follow(n) ==
  /\ at = List /\ cache # None /\ n \in DOMAIN cache /\ cache[n] # None
  /\ going' = n
  /\ UNCHANGED <<server, net, cache, at, form, dirty, alert, busy, touched, draft, typed, calls, events>>

Reopened ==
  /\ Navigate(IF HasRow(going) THEN going ELSE Elsewhere, stored)
  /\ meddled' = FALSE

(* The composition was read: its page opens, or the page of errors does; a page
   that shows it already keeps its form. *)
Opened ==
  /\ going # None
  /\ IF going = at /\ HasRow(at)
     THEN going' = None /\ UNCHANGED <<net, at, form, dirty, alert, busy, touched, drafting, unsure, meddled>>
     ELSE Reopened
  /\ UNCHANGED <<server, cache, stored, typed, calls, events>>

Reload ==
  /\ events < MaxEvents
  /\ events' = events + 1
  /\ wire' = {[c EXCEPT !.gone = TRUE, !.live = FALSE] : c \in wire}
  /\ answers' = {}
  /\ unsure' = unsure \cup Unanswered
  /\ Mount(IF at \in Known /\ ~HasRow(at) THEN Elsewhere ELSE at, stored)
  /\ cache' = IF at = List THEN Contents ELSE None
  /\ seen' = material
  /\ meddled' = FALSE
  /\ UNCHANGED <<rows, lastPart, active, material, past, stored, typed, calls>>

-----------------------------------------------------------------------------
(* The form: useBomForm *)

OnForm == at = New \/ at \in Known
Editing == OnForm /\ ~alert

InformationFields(n) == {[form EXCEPT !.name = n], [form EXCEPT !.note = n]}
ProductionFields(n) == {[form EXCEPT !.note = n]}
ActivityFields(n) == {[form EXCEPT !.note = n]}

(* The form reads the resources of its components and their offers again. *)
ReadMaterials ==
  /\ OnForm /\ form.parts # <<>> /\ seen # material
  /\ seen' = material
  /\ UNCHANGED <<rows, lastPart, active, material, past, net, cache, page, draft, typed, calls, events>>

AddComponent ==
  IF Len(form.parts) < MaxParts THEN {[form EXCEPT !.parts = Append(@, Part(0, None, None, None))]} ELSE {}

Without(parts, i) == [j \in 1..Len(parts) - 1 |-> IF j < i THEN parts[j] ELSE parts[j + 1]]
RemoveComponent == {[form EXCEPT !.parts = Without(@, i)] : i \in DOMAIN form.parts}

ChooseResourceKept ==
  {[form EXCEPT !.parts[i] = [@ EXCEPT !.resource = r]] : i \in DOMAIN form.parts, r \in active}

(* The resources that are found are active; choosing one takes over its unit, and
   lets the offer of another go. *)
Assigned(part, r) ==
  [part EXCEPT !.resource = r, !.unit = IF seen.units[r] = None THEN @ ELSE seen.units[r], !.offer = None]
ChooseResource == {[form EXCEPT !.parts[i] = Assigned(@, r)] : i \in DOMAIN form.parts, r \in active}

(* The units and the offers that are listed are those of the resource, as read. *)
UnitsListed(r) == IF r = None \/ seen.units[r] = None THEN Units ELSE {seen.units[r]}
ChooseUnit ==
  UNION {{[form EXCEPT !.parts[i] = [@ EXCEPT !.unit = u]] : u \in UnitsListed(form.parts[i].resource)} :
         i \in DOMAIN form.parts}

OffersListed(r) == {o \in Offers : r # None /\ seen.owner[o] = r}
ChooseOffer ==
  UNION {{[form EXCEPT !.parts[i] = [@ EXCEPT !.offer = o]] : o \in OffersListed(form.parts[i].resource)} :
         i \in DOMAIN form.parts}

ComponentFields == AddComponent \cup RemoveComponent \cup ChooseResource \cup ChooseUnit \cup ChooseOffer
Fields(n) == InformationFields(n) \cup ProductionFields(n) \cup ActivityFields(n) \cup ComponentFields

TypeNamed(next) ==
  /\ Editing /\ typed < MaxEdits /\ next # form
  /\ typed' = typed + 1
  /\ form' = next
  /\ dirty' = TRUE
  /\ stored' = IF at = New /\ next.parts = form.parts THEN next ELSE stored
  /\ unsure' = IF at = New /\ going # None THEN unsure \cup {drafting} ELSE unsure
  /\ meddled' = FALSE
  /\ UNCHANGED <<server, net, cache, at, going, alert, busy, touched, drafting, calls, events>>

(* A new composition is kept in localStorage at each change, also while it is
   saved and while the composition it became is opened. *)
Type(next) ==
  /\ Editing /\ typed < MaxEdits /\ next # form
  /\ typed' = typed + 1
  /\ form' = next
  /\ dirty' = TRUE
  /\ stored' = IF at = New THEN next ELSE stored
  /\ unsure' = IF at = New /\ going # None THEN unsure \cup {drafting} ELSE unsure
  /\ meddled' = FALSE
  /\ UNCHANGED <<server, net, cache, at, going, alert, busy, touched, drafting, calls, events>>

CallAlways(kind, id, body) ==
  /\ calls < MaxCalls
  /\ calls' = calls + 1
  /\ busy' = busy \cup {kind}
  /\ wire' = wire \cup {[kind |-> kind, id |-> id, body |-> body, draft |-> IF kind = "create" THEN drafting ELSE 0,
                        nth |-> calls, live |-> TRUE, gone |-> FALSE]}
  /\ UNCHANGED <<server, answers, cache, at, going, form, dirty, alert, touched, draft, typed, events>>

Call(kind, id, body) ==
  /\ kind \notin busy /\ calls < MaxCalls
  /\ calls' = calls + 1
  /\ busy' = busy \cup {kind}
  /\ wire' = wire \cup {[kind |-> kind, id |-> id, body |-> body, draft |-> IF kind = "create" THEN drafting ELSE 0,
                        nth |-> calls, live |-> TRUE, gone |-> FALSE]}
  /\ UNCHANGED <<server, answers, cache, at, going, form, dirty, alert, touched, draft, typed, events>>

Submit ==
  /\ Editing /\ form.name # 0 /\ form.note # 0
  /\ IF at = New THEN Call("create", 0, form) ELSE Call("replace", at, form)

(* A draft of a new composition is asked about, whatever the form. *)
Cancel ==
  /\ Editing
  /\ IF stored # None
     THEN alert' = TRUE /\ UNCHANGED <<net, at, going, form, dirty, busy, touched, draft, cache>>
     ELSE Navigate(List, stored) /\ cache' \in Lists /\ UNCHANGED <<stored, meddled>>
  /\ UNCHANGED <<server, typed, calls, events>>

CloseAlert ==
  /\ alert
  /\ alert' = FALSE
  /\ UNCHANGED <<server, net, cache, at, going, form, dirty, busy, touched, draft, typed, calls, events>>

DeleteDraft ==
  /\ alert
  /\ stored' = None
  /\ Navigate(List, None) /\ cache' \in Lists
  /\ UNCHANGED <<server, meddled, typed, calls, events>>

KeepDraft ==
  /\ alert
  /\ Navigate(List, stored) /\ cache' \in Lists
  /\ UNCHANGED <<server, stored, meddled, typed, calls, events>>

(* Another tab types in, or empties, the one draft of the browser. *)
OtherTab ==
  /\ at = New /\ events < MaxEvents
  /\ events' = events + 1
  /\ stored' \in {None, Others(<<>>)} \ {stored}
  /\ drafting' = calls + 1
  /\ meddled' = TRUE
  /\ UNCHANGED <<server, net, cache, page, unsure, typed, calls>>

-----------------------------------------------------------------------------
(* The list and its details: useBomList *)

Shown(n) == at = List /\ cache # None /\ n \in DOMAIN cache /\ cache[n] # None

(* The copy keeps the identifiers of the components. *)
CreateBomClone(content) == [content EXCEPT !.name = CopyName(@)]

CloneBom(n) == Shown(n) /\ Call("clone", 0, CreateBomClone(cache[n]))
DeleteBom(n) == Shown(n) /\ "clone" \notin busy /\ Call("delete", n, Blank)

-----------------------------------------------------------------------------
(* Answers *)

Released(c) == IF c.live THEN busy \ {c.kind} ELSE busy
Listing == IF at = List THEN Contents ELSE None

(* The draft is emptied and the new composition is opened, whatever is shown by
   then; the form stays until the loader is done. *)
Created(a) ==
  /\ a.ok /\ a.call.kind = "create"
  /\ answers' = answers \ {a}
  /\ stored' = None
  /\ dirty' = IF a.call.live THEN FALSE ELSE dirty
  /\ going' = a.id
  /\ meddled' = (meddled \/ ~a.call.live)
  /\ cache' = Listing
  /\ UNCHANGED <<server, wire, at, form, alert, busy, touched, drafting, unsure, typed, calls, events>>

(* The form keeps what it holds: identifiers given to new rows are not read. *)
Replaced(a) ==
  /\ a.ok /\ a.call.kind = "replace"
  /\ answers' = answers \ {a}
  /\ dirty' = IF a.call.live THEN FALSE ELSE dirty
  /\ busy' = Released(a.call)
  /\ cache' = Listing
  /\ UNCHANGED <<server, wire, at, going, form, alert, touched, draft, typed, calls, events>>

Cloned(a) ==
  /\ a.ok /\ a.call.kind = "clone"
  /\ answers' = answers \ {a}
  /\ busy' = Released(a.call)
  /\ going' = a.id
  /\ cache' = Listing
  /\ UNCHANGED <<server, wire, at, form, dirty, alert, touched, draft, typed, calls, events>>

Deleted(a) ==
  /\ a.ok /\ a.call.kind = "delete"
  /\ answers' = answers \ {a}
  /\ busy' = Released(a.call)
  /\ cache' = Listing
  /\ UNCHANGED <<server, wire, at, going, form, dirty, alert, touched, draft, typed, calls, events>>

Refused(a) ==
  /\ ~a.ok
  /\ answers' = answers \ {a}
  /\ busy' = Released(a.call)
  /\ UNCHANGED <<server, wire, cache, at, going, form, dirty, alert, touched, draft, typed, calls, events>>

(* A call, or its answer, is lost; a call may still reach the server. *)
Lose ==
  /\ events < MaxEvents
  /\ events' = events + 1
  /\ \/ \E c \in {d \in wire : ~d.gone} :
          /\ wire' \in {wire \ {c}, (wire \ {c}) \cup {[c EXCEPT !.gone = TRUE]}}
          /\ busy' = Released(c)
          /\ unsure' = unsure \cup {c.draft}
          /\ UNCHANGED answers
     \/ \E a \in answers :
          /\ answers' = answers \ {a}
          /\ busy' = Released(a.call)
          /\ unsure' = unsure \cup {a.call.draft}
          /\ UNCHANGED wire
  /\ UNCHANGED <<server, cache, at, going, form, dirty, alert, touched, stored, drafting, meddled, typed, calls>>

-----------------------------------------------------------------------------
(* Bound: creating compositions and working on one are explored apart; at first all
   resources have the same unit and every offer a resource. *)
Stocked(m) ==
  /\ \A r, t \in Resources : m.units[r] = m.units[t] /\ m.units[r] # None
  /\ \A o \in Offers : m.owner[o] # None
Priced(o) == Part(1, material.owner[o], material.units[material.owner[o]], o)

Init ==
  /\ material \in {m \in Materials : Stocked(m)}
  /\ past = {material} /\ seen = material /\ active = Resources
  /\ \/ /\ rows = <<>> /\ lastPart = 0
        /\ stored \in {None} \cup {Whole(<<Part(0, r, material.units[r], None)>>) : r \in Resources}
     \/ /\ rows \in {<<Row(Whole(<<>>), 0)>>} \cup {<<Row(Whole(<<Priced(o)>>), 0)>> : o \in Offers}
        /\ lastPart = 1
        /\ stored \in {None, Others(<<>>)}
  /\ wire = {} /\ answers = {}
  /\ cache = Contents
  /\ at = List /\ going = None /\ form = Blank /\ dirty = FALSE /\ alert = FALSE /\ busy = {} /\ touched = FALSE
  /\ drafting = 1 /\ unsure = {} /\ meddled = FALSE
  /\ typed = 0 /\ calls = 0 /\ events = 0

Creating == \A n \in Known : rows[n] # None => rows[n].draft # 0

Next ==
  \/ \E c \in wire : Save(c) \/ Delete(c)
  \/ \E n \in Known : OtherSaves(n) \/ OtherDeletes(n) \/ Follow(n) \/ CloneBom(n) \/ DeleteBom(n)
  \/ \E r \in Resources : Deactivate(r) \/ ReviseUnit(r) \/ \E o \in Offers : Associate(o, r)
  \/ \E p \in {List} \cup (IF Creating THEN {New} ELSE {}) : Visit(p)
  \/ Refetch \/ Opened \/ Reload
  \/ \E next \in Fields(typed + 1) : Type(next)
  \/ ReadMaterials \/ Submit \/ Cancel \/ CloseAlert \/ DeleteDraft \/ KeepDraft
  \/ OtherTab
  \/ \E a \in answers : Created(a) \/ Replaced(a) \/ Cloned(a) \/ Deleted(a) \/ Refused(a)
  \/ Lose

Spec == Init /\ [][Next]_vars

-----------------------------------------------------------------------------
(* Properties *)

(* The page and the server tell the same composition, row for row. *)
Agree(n) ==
  /\ form.name = rows[n].content.name
  /\ Len(form.parts) = Len(Parts(n))
  /\ \A i \in DOMAIN form.parts :
       form.parts[i].resource = Parts(n)[i].resource /\ form.parts[i].unit = Parts(n)[i].unit

(* The reference unit of the resource was edited. *)
Remeasured(r) == \E m, k \in past : m.units[r] # k.units[r]

(* A component was added on the page, which does not know its row: it is the one at
   this place, or the one at this place is a row of another place on the server. *)
Unplaced(i) ==
  \E k \in DOMAIN form.parts :
    /\ form.parts[k].id = 0
    /\ k = i \/ \E j \in DOMAIN Parts(at) \ {i} : Parts(at)[j].id = form.parts[i].id

(* What the page of a composition shows, as it is on the server, can be saved
   again, also after one of its resources was deactivated, unless the composition
   was written from elsewhere since the page was opened, or a component is of a
   resource whose unit was edited, or of one no longer active while the page does
   not know the row at its place. *)
SavedAgain ==
  at \in Known /\ ~touched /\ Agree(at) =>
    \/ Allowed(at, form)
    \/ \E i \in DOMAIN form.parts :
         Remeasured(form.parts[i].resource) \/ (form.parts[i].resource \notin active /\ Unplaced(i))

(* The offer selected for a component has been associated with the resource of the
   component: only an association made since can give the component the offer of
   another resource (OFFER_RESOURCE_MISMATCH in ComponentPriceAdapter). *)
Belongs(part) == part.offer # None => \E m \in past : m.owner[part.offer] = part.resource
OfferFits ==
  /\ \A i \in DOMAIN form.parts : Belongs(form.parts[i])
  /\ \A n \in Known : \A i \in DOMAIN Parts(n) : Belongs(Parts(n)[i])

(* What is typed of a new composition is in localStorage, ready for a reload or a
   later visit, unless another tab or a page left earlier wrote it since. *)
DraftStored == at = New /\ dirty /\ ~meddled => stored = form

(* A draft becomes two compositions only when the first could not be known. *)
OneBomPerDraft ==
  \A i, j \in Known : rows[i] # None /\ rows[j] # None /\ rows[i].draft = rows[j].draft =>
    i = j \/ rows[i].draft \in unsure \cup {0}
=============================================================================
