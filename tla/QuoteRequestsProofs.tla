------------------------ MODULE QuoteRequestsProofs ------------------------
(***************************************************************************)
(* What QuoteRequests promises for any number of pages, dialogs, lines and *)
(* contents, of calls, and of lost calls and answers.                      *)
(***************************************************************************)
EXTENDS QuoteRequests, FiniteSetTheorems, TLAPS

(***************************************************************************)
(* What a reader of a version knows: everybody holds versions the row had, *)
(* and whoever holds the present one knows what the row holds now.         *)
(***************************************************************************)

\* A copy of the request: its version, its saved qualification, its lines, and how
\* many quotations it counted.
CopyIsRight(copy) ==
  /\ copy.version <= request.version
  /\ copy.version = request.version
       => copy.saved = request.qualification /\ copy.made = Cardinality(quotations)
  /\ copy.saved # None => copy.lines = copy.saved
  /\ copy.saved = None => \A l \in DOMAIN copy.lines : copy.lines[l] = Asked

ViewsAreRight == \A p \in Pages : view[p] # None => CopyIsRight(view[p])

\* What is read replaces what is shown by something later, or the same.
FetchesAreRight == \A p \in Pages : fetch[p] \notin {None, Sent} =>
  /\ CopyIsRight(fetch[p])
  /\ view[p] # None =>
       /\ view[p].version <= fetch[p].version
       /\ view[p].version = fetch[p].version => view[p].saved = fetch[p].saved

BaseIsRight(expected, base) ==
  expected <= request.version /\ (expected = request.version => base = request.qualification)

EditsAreRight ==
  \A p \in Pages : edit[p] # NoEdit => BaseIsRight(edit[p].expected, edit[p].base)

IntentionIsRight(i) ==
  /\ i.expected <= request.version
  /\ DOMAIN i.seen \subseteq i.lines
  /\ i.expected = request.version =>
       /\ i.knows = Cardinality(quotations)
       /\ request.qualification # None =>
            /\ DOMAIN i.seen = i.lines
            /\ \A l \in i.lines : i.seen[l] = request.qualification[l]
       /\ request.qualification = None => \A l \in DOMAIN i.seen : i.seen[l] = Asked

CallsAreRight == \A c \in wire :
  /\ c.kind = "qualify" => BaseIsRight(c.expected, c.body.base)
  /\ c.kind = "propose" => IntentionIsRight(c.body) /\ c.expected = c.body.expected

\* A dialog that has not been confirmed: its version and its count are of one copy, and
\* while the page shows that copy the chosen lines are among those it shows.
DraftIsRight(f) ==
  /\ form[f].expected <= view[f[1]].version
  /\ form[f].expected = request.version => form[f].knows = Cardinality(quotations)
  /\ form[f].expected = view[f[1]].version /\ view[f[1]].saved # None
       => form[f].selected \subseteq DOMAIN view[f[1]].lines

FormIsRight(f) ==
  /\ view[f[1]] = None => form[f] = NoForm
  /\ form[f].open /\ form[f].intention = None => DraftIsRight(f)
  /\ form[f].intention # None => IntentionIsRight(form[f].intention)

FormsAreRight == \A f \in Forms : FormIsRight(f)

(***************************************************************************)
(* What is under way: one call or one answer for a component that waits.   *)
(***************************************************************************)

Waiting(o) ==
  IF o[2] = "edit" THEN edit[o[1]] # NoEdit /\ edit[o[1]].phase = "pending"
  ELSE IF o[2] = "close" THEN closing[o[1]] = "pending"
  ELSE form[o].open /\ form[o].phase = "pending"

OneInFlight ==
  /\ \A c \in wire : c.owner # None => Waiting(c.owner)
  /\ \A a \in answers : Waiting(a.owner)
  /\ \A c, d \in wire : c.owner = d.owner /\ c.owner # None => c = d
  /\ \A a, b \in answers : a.owner = b.owner => a = b
  /\ \A c \in wire, a \in answers : c.owner # a.owner

\* What stands behind a dialog that waits, that waits for its page, and that reports.
FormIsAnswered(f) ==
  /\ \A c \in wire : c.owner = f => c.kind = "propose" /\ c.body = form[f].intention
  /\ \A a \in answers : a.owner = f /\ a.ok => Made(form[f].intention.key)
  /\ form[f].phase = "settling" =>
       /\ fetch[f[1]] # None /\ Made(form[f].intention.key)
       /\ fetch[f[1]] # Sent =>
            \E q \in quotations : q.key = form[f].intention.key /\ fetch[f[1]].version > q.from
  /\ form[f].phase = "success" =>
       \E q \in quotations : q.key = form[f].intention.key /\ view[f[1]].version > q.from

FormsAnswered == \A f \in Forms : FormIsAnswered(f)

QuotationsAreRight ==
  /\ InformedProposals /\ QuotedAsSeen
  /\ \A q \in quotations : q.before < Cardinality(quotations) /\ q.from < request.version

IInv ==
  /\ TypeOK /\ ViewsAreRight /\ FetchesAreRight /\ EditsAreRight /\ CallsAreRight
  /\ FormsAreRight /\ OneInFlight /\ FormsAnswered /\ QuotationsAreRight
-----------------------------------------------------------------------------
(* Types *)

LEMMA QualificationIntro ==
  ASSUME NEW S \in SUBSET Lines, NEW q \in [S -> Contents]
  PROVE  q \in Qualifications
BY DEF Qualifications

LEMMA QualificationElim ==
  ASSUME NEW q \in Qualifications
  PROVE  /\ DOMAIN q \in SUBSET Lines /\ q \in [DOMAIN q -> Contents]
         /\ \A l \in DOMAIN q : q[l] \in Contents
BY DEF Qualifications

LEMMA EffectiveType ==
  ASSUME TypeOK
  PROVE  Effective \in Qualifications
<1>1. CASE request.qualification # None
  BY <1>1 DEF TypeOK, Row, Effective
<1>2. CASE request.qualification = None
  <2>1. [l \in recognised |-> Asked] \in [recognised -> Contents]
    BY ContentsAssumption
  <2> QED BY <1>2, <2>1, QualificationIntro DEF TypeOK, Effective
<1> QED BY <1>1, <1>2

LEMMA CopyType ==
  ASSUME TypeOK
  PROVE  Copy \in Shown /\ Copy # None /\ Copy # Sent
<1>1. Cardinality(quotations) \in Nat
  BY FS_CardinalityType DEF TypeOK
<1>2. Copy \in Shown
  BY <1>1, EffectiveType DEF TypeOK, Row, Shown, Copy
<1> QED BY <1>2, MarksAssumption

\* What the form elements of a page are.
LEMMA Resting == NoForm \in ProposalForm /\ ~NoForm.open /\ NoForm.phase = "idle"
BY DEF NoForm, ProposalForm, Phases

LEMMA OpenPage ==
  ASSUME TypeOK, NEW p \in Pages, view[p] # None
  PROVE  /\ view[p] \in Shown /\ view[p].version \in Nat /\ view[p].made \in Nat
         /\ view[p].saved \in Qualifications \cup {None} /\ view[p].lines \in Qualifications
         /\ Captured(p) \in ProposalForm
<1>1. view[p] \in Shown
  BY DEF TypeOK
<1>2. /\ view[p].version \in Nat /\ view[p].made \in Nat
      /\ view[p].saved \in Qualifications \cup {None} /\ view[p].lines \in Qualifications
  BY <1>1 DEF Shown
<1>3. DOMAIN view[p].lines \in SUBSET Lines
  BY <1>2, QualificationElim
<1> QED BY <1>1, <1>2, <1>3 DEF Captured, ProposalForm, Phases

LEMMA FormParts ==
  ASSUME TypeOK, NEW p \in Pages, NEW s \in Places
  PROVE  /\ <<p, s>> \in Forms /\ <<p, s>>[1] = p /\ <<p, s>>[2] = s
         /\ <<p, s>> \in FormsOf(p) /\ <<p, s>> \in Slots(p)
BY DEF Forms, FormsOf, Slots

LEMMA FormOwner ==
  ASSUME NEW f \in Forms
  PROVE  /\ f[1] \in Pages /\ f[2] \in Places /\ f = <<f[1], f[2]>>
         /\ f \in Owners /\ f[2] # "edit" /\ f[2] # "close"
BY MarksAssumption DEF Forms, Owners, Slots

LEMMA OwnerKinds ==
  ASSUME NEW o \in Owners
  PROVE  /\ o[1] \in Pages /\ o = <<o[1], o[2]>>
         /\ o[2] \in {"edit", "close"} \cup Places
         /\ o \in Forms <=> o[2] \in Places
BY MarksAssumption DEF Forms, Owners, Slots
-----------------------------------------------------------------------------
(* Effects of a step, one variable after the other *)

\* Only the execution of a call changes the row and its quotations.
LEMMA ServerSteps ==
  ASSUME [Next]_vars
  PROVE  \/ UNCHANGED server
         \/ \E c \in wire : Execute(c) /\ (Qualify(c) \/ ChangeStatus(c) \/ Quote(c))
<1>1. ASSUME NEW c \in wire, Execute(c)
      PROVE  \/ UNCHANGED server
             \/ Qualify(c) \/ ChangeStatus(c) \/ Quote(c)
  BY <1>1 DEF Execute, Replay, Refuse
<1>2. ASSUME NEW p \in Pages,
             \/ Refetch(p) \/ Read(p) \/ Arrive(p) \/ FetchFails(p) \/ Leave(p)
             \/ BeginEdit(p) \/ EditLines(p) \/ CancelEdit(p) \/ SubmitEdit(p) \/ CloseRequest(p)
      PROVE  UNCHANGED server
  BY <1>2 DEF server, Refetch, Read, Arrive, FetchFails, Leave, BeginEdit, EditLines,
              CancelEdit, SubmitEdit, CloseRequest
<1>3. ASSUME NEW f \in Forms,
             OpenForm(f) \/ CloseForm(f) \/ ToggleLine(f) \/ Confirm(f) \/ AnotherProposal(f)
      PROVE  UNCHANGED server
  BY <1>3 DEF server, OpenForm, CloseForm, ToggleLine, Confirm, AnotherProposal
<1>4. ASSUME (\E a \in answers : Deliver(a)) \/ (\E o \in Owners : Lose(o)) \/ CatalogueMoves
      PROVE  UNCHANGED server
  BY <1>4 DEF server, Deliver, Lose, CatalogueMoves
<1>5. CASE UNCHANGED vars
  BY <1>5 DEF vars, server
<1> QED BY <1>1, <1>2, <1>3, <1>4, <1>5 DEF Next

\* A write takes the row to the next version.
LEMMA Versions ==
  ASSUME TypeOK, [Next]_vars
  PROVE  /\ request.version \in Nat
         /\ UNCHANGED server \/ request'.version = request.version + 1
BY ServerSteps DEF TypeOK, Row, Qualify, ChangeStatus, Quote, Saved

LEMMA ViewSteps ==
  ASSUME TypeOK, [Next]_vars, NEW p \in Pages
  PROVE  \/ view'[p] = view[p]
         \/ view'[p] = None /\ \A f \in FormsOf(p) \cap Forms : form'[f] = NoForm
         \/ Arrive(p)
<1>1. ASSUME NEW q \in Pages, Arrive(q)
      PROVE  view'[p] = view[p] \/ Arrive(p)
  BY <1>1 DEF Arrive, TypeOK
<1>2. ASSUME NEW q \in Pages, FetchFails(q) \/ Leave(q)
      PROVE  \/ view'[p] = view[p]
             \/ view'[p] = None /\ \A f \in FormsOf(p) \cap Forms : form'[f] = NoForm
  BY <1>2 DEF FetchFails, Leave, Unmount, TypeOK
<1>3. ASSUME NEW q \in Pages,
             \/ Refetch(q) \/ Read(q) \/ BeginEdit(q) \/ EditLines(q) \/ CancelEdit(q)
             \/ SubmitEdit(q) \/ CloseRequest(q)
      PROVE  view' = view
  BY <1>3 DEF Refetch, Read, BeginEdit, EditLines, CancelEdit, SubmitEdit, CloseRequest
<1>4. ASSUME NEW f \in Forms,
             OpenForm(f) \/ CloseForm(f) \/ ToggleLine(f) \/ Confirm(f) \/ AnotherProposal(f)
      PROVE  view' = view
  BY <1>4 DEF OpenForm, CloseForm, ToggleLine, Confirm, AnotherProposal
<1>5. ASSUME \/ \E c \in wire : Execute(c)
             \/ \E a \in answers : Deliver(a)
             \/ \E o \in Owners : Lose(o)
             \/ CatalogueMoves
             \/ UNCHANGED vars
      PROVE  view' = view
  BY <1>5 DEF Execute, Deliver, Lose, CatalogueMoves, vars
<1> QED BY <1>1, <1>2, <1>3, <1>4, <1>5 DEF Next

LEMMA FetchSteps ==
  ASSUME TypeOK, [Next]_vars, NEW p \in Pages
  PROVE  \/ fetch'[p] = fetch[p] /\ view'[p] = view[p]
         \/ fetch'[p] \in {None, Sent}
         \/ fetch'[p] = Copy /\ UNCHANGED <<request, quotations, view>>
<1>1. ASSUME NEW q \in Pages, Arrive(q) \/ FetchFails(q) \/ Leave(q) \/ Refetch(q)
      PROVE  (fetch'[p] = fetch[p] /\ view'[p] = view[p]) \/ fetch'[p] \in {None, Sent}
  BY <1>1 DEF Arrive, FetchFails, Leave, Refetch, TypeOK
<1>2. ASSUME NEW q \in Pages, Read(q)
      PROVE  \/ fetch'[p] = fetch[p] /\ view'[p] = view[p]
             \/ fetch'[p] = Copy /\ UNCHANGED <<request, quotations, view>>
  BY <1>2 DEF Read, TypeOK
<1>3. ASSUME NEW q \in Pages,
             BeginEdit(q) \/ EditLines(q) \/ CancelEdit(q) \/ SubmitEdit(q) \/ CloseRequest(q)
      PROVE  UNCHANGED <<fetch, view>>
  BY <1>3 DEF BeginEdit, EditLines, CancelEdit, SubmitEdit, CloseRequest
<1>4. ASSUME NEW f \in Forms,
             OpenForm(f) \/ CloseForm(f) \/ ToggleLine(f) \/ Confirm(f) \/ AnotherProposal(f)
      PROVE  UNCHANGED <<fetch, view>>
  BY <1>4 DEF OpenForm, CloseForm, ToggleLine, Confirm, AnotherProposal
<1>5. ASSUME NEW a \in answers, Deliver(a)
      PROVE  (fetch'[p] = fetch[p] /\ view'[p] = view[p]) \/ fetch'[p] \in {None, Sent}
  BY <1>5 DEF Deliver, TypeOK
<1>6. ASSUME \/ \E c \in wire : Execute(c)
             \/ \E o \in Owners : Lose(o)
             \/ CatalogueMoves
             \/ UNCHANGED vars
      PROVE  UNCHANGED <<fetch, view>>
  BY <1>6 DEF Execute, Lose, CatalogueMoves, vars
<1> QED BY <1>1, <1>2, <1>3, <1>4, <1>5, <1>6 DEF Next

\* An answer, or its loss, ends a call somebody waits for.
LEMMA Ends ==
  ASSUME TypeOK, OneInFlight, (\E a \in answers : Deliver(a)) \/ (\E o \in Owners : Lose(o))
  PROVE  \E o \in Owners, phase \in {"idle", "settling"} : Waiting(o) /\ EndCall(o, phase)
<1>1. ASSUME NEW a \in answers, Deliver(a)
      PROVE  \E o \in Owners, phase \in {"idle", "settling"} : Waiting(o) /\ EndCall(o, phase)
  <2>1. a.owner \in Owners
    BY DEF TypeOK, Answer
  <2>2. EndCall(a.owner, "settling") \/ EndCall(a.owner, "idle")
    BY <1>1 DEF Deliver
  <2> QED BY <2>1, <2>2 DEF OneInFlight
<1>2. ASSUME NEW o \in Owners, Lose(o)
      PROVE  Waiting(o) /\ EndCall(o, "idle")
  <2>1. EndCall(o, "idle") /\ o # None
    BY <1>2, MarksAssumption DEF Lose
  <2>2. (\E c \in wire : c.owner = o) \/ (\E a \in answers : a.owner = o)
    BY <1>2 DEF Lose, OwnedBy
  <2> QED BY <2>1, <2>2 DEF OneInFlight
<1> QED BY <1>1, <1>2

\* What a qualification form rests on never changes while it is open.
LEMMA EditSteps ==
  ASSUME TypeOK, OneInFlight, [Next]_vars, NEW p \in Pages
  PROVE  \/ edit'[p] = NoEdit
         \/ /\ edit[p] # NoEdit
            /\ edit'[p].expected = edit[p].expected /\ edit'[p].base = edit[p].base
         \/ /\ view[p] # None /\ UNCHANGED <<request, quotations>>
            /\ edit'[p].expected = view[p].version /\ edit'[p].base = view[p].saved
<1> DEFINE Same == edit[p] # NoEdit => /\ edit'[p].expected = edit[p].expected
                                       /\ edit'[p].base = edit[p].base
           Kept == edit'[p] = NoEdit \/ (edit[p] # NoEdit /\ Same)
<1>0. edit[p] \in EditForm \cup {NoEdit}
  BY DEF TypeOK
<1>1. ASSUME NEW q \in Pages, Arrive(q) \/ FetchFails(q) \/ Leave(q) \/ CancelEdit(q)
      PROVE  Kept
  BY <1>1 DEF Arrive, FetchFails, Leave, CancelEdit, Unmount, TypeOK
<1>2. ASSUME NEW q \in Pages, EditLines(q) \/ SubmitEdit(q)
      PROVE  Kept
  BY <1>0, <1>2 DEF EditLines, SubmitEdit, TypeOK, EditForm
<1>3. ASSUME NEW q \in Pages, BeginEdit(q)
      PROVE  \/ Kept
             \/ /\ view[p] # None /\ UNCHANGED <<request, quotations>>
                /\ edit'[p].expected = view[p].version /\ edit'[p].base = view[p].saved
  BY <1>3 DEF BeginEdit, Open, TypeOK
<1>4. ASSUME NEW q \in Pages, Refetch(q) \/ Read(q) \/ CloseRequest(q)
      PROVE  edit' = edit
  BY <1>4 DEF Refetch, Read, CloseRequest
<1>5. ASSUME NEW f \in Forms,
             OpenForm(f) \/ CloseForm(f) \/ ToggleLine(f) \/ Confirm(f) \/ AnotherProposal(f)
      PROVE  edit' = edit
  BY <1>5 DEF OpenForm, CloseForm, ToggleLine, Confirm, AnotherProposal
<1>6. ASSUME NEW o \in Owners, NEW phase \in {"idle", "settling"}, Waiting(o), EndCall(o, phase)
      PROVE  edit'[p] = edit[p] \/ (edit[p] # NoEdit /\ edit'[p] = [edit[p] EXCEPT !.phase = phase])
  <2>1. CASE o[2] = "edit"
    BY <1>6, <2>1, OwnerKinds DEF EndCall, Waiting, TypeOK
  <2>2. CASE o[2] # "edit"
    BY <1>6, <2>2 DEF EndCall
  <2> QED BY <2>1, <2>2
<1>8. ASSUME (\E a \in answers : Deliver(a)) \/ (\E o \in Owners : Lose(o))
      PROVE  Kept
  BY <1>0, <1>6, <1>8, Ends DEF EditForm
<1>7. ASSUME \/ \E c \in wire : Execute(c)
             \/ CatalogueMoves
             \/ UNCHANGED vars
      PROVE  edit' = edit
  BY <1>7 DEF Execute, CatalogueMoves, vars
<1> QED BY <1>1, <1>2, <1>3, <1>4, <1>5, <1>7, <1>8 DEF Next

LEMMA OrphanType ==
  ASSUME NEW c \in ServerCall
  PROVE  /\ Orphan(c) \in ServerCall /\ Orphan(c).owner = None
         /\ Orphan(c).kind = c.kind /\ Orphan(c).expected = c.expected /\ Orphan(c).body = c.body
BY DEF ServerCall, SomeCall, Orphan

\* The calls under way are those of before, some of them without a caller any more,
\* and at most one new one.
LEMMA WireSteps ==
  ASSUME TypeOK, [Next]_vars
  PROVE  \/ \A c \in wire' : c \in wire \/ \E d \in wire : c = Orphan(d)
         \/ \E p \in Pages : SubmitEdit(p) \/ CloseRequest(p)
         \/ \E f \in Forms : Confirm(f)
<1> DEFINE Old == \A c \in wire' : c \in wire \/ \E d \in wire : c = Orphan(d)
<1>1. ASSUME NEW owners, Detach(owners)
      PROVE  Old
  BY <1>1 DEF Detach, OwnedBy
<1>2. ASSUME NEW p \in Pages, Arrive(p) \/ FetchFails(p) \/ Leave(p)
      PROVE  Old
  BY <1>1, <1>2 DEF Arrive, FetchFails, Leave, Unmount
<1>3. ASSUME NEW p \in Pages, Refetch(p) \/ Read(p) \/ BeginEdit(p) \/ EditLines(p) \/ CancelEdit(p)
      PROVE  wire' = wire
  BY <1>3 DEF Refetch, Read, BeginEdit, EditLines, CancelEdit
<1>4. ASSUME NEW f \in Forms, OpenForm(f) \/ CloseForm(f) \/ ToggleLine(f) \/ AnotherProposal(f)
      PROVE  wire' = wire
  BY <1>4 DEF OpenForm, CloseForm, ToggleLine, AnotherProposal
<1>5. ASSUME NEW c \in wire, Execute(c)
      PROVE  Old
  BY <1>5 DEF Execute
<1>6. ASSUME NEW o \in Owners, Lose(o)
      PROVE  Old
  BY <1>6 DEF Lose, OwnedBy
<1>7. ASSUME (\E a \in answers : Deliver(a)) \/ CatalogueMoves \/ UNCHANGED vars
      PROVE  wire' = wire
  BY <1>7 DEF Deliver, CatalogueMoves, vars
<1> QED BY <1>2, <1>3, <1>4, <1>5, <1>6, <1>7 DEF Next

LEMMA CallParts ==
  ASSUME TypeOK, NEW c \in wire
  PROVE  /\ c \in ServerCall /\ c.owner \in Owners \cup {None} /\ c.expected \in Nat
         /\ c.kind \in {"qualify", "close", "propose"}
         /\ c.kind = "qualify" => /\ c.body.base \in Qualifications \cup {None}
                                  /\ c.body.lines \in Qualifications
         /\ c.kind = "propose" => c.body \in Intention
BY DEF TypeOK, ServerCall, SomeCall

LEMMA SubmitCall ==
  ASSUME TypeOK, NEW p \in Pages, SubmitEdit(p)
  PROVE  \E c \in ServerCall :
           /\ wire' = wire \cup {c} /\ c.owner = <<p, "edit">> /\ c.kind = "qualify"
           /\ c.expected = edit[p].expected /\ c.body.base = edit[p].base
<1> DEFINE c == Call("qualify", <<p, "edit">>, edit[p].expected, [base |-> edit[p].base, lines |-> edit[p].lines])
<1>1. edit[p] \in EditForm
  BY DEF TypeOK, SubmitEdit
<1>2. <<p, "edit">> \in Owners
  BY DEF Owners, Slots
<1>3. c \in ServerCall
  BY <1>1, <1>2 DEF EditForm, Call, ServerCall, SomeCall
<1> QED BY <1>3 DEF SubmitEdit, Mutate, Call

LEMMA CloseCall ==
  ASSUME TypeOK, NEW p \in Pages, CloseRequest(p)
  PROVE  \E c \in ServerCall :
           /\ wire' = wire \cup {c} /\ c.owner = <<p, "close">> /\ c.kind = "close"
<1> DEFINE c == Call("close", <<p, "close">>, view[p].version, None)
<1>1. view[p].version \in Nat
  BY OpenPage DEF CloseRequest, Open
<1>2. <<p, "close">> \in Owners
  BY DEF Owners, Slots
<1>3. c \in ServerCall
  BY <1>1, <1>2 DEF Call, ServerCall, SomeCall
<1> QED BY <1>3 DEF CloseRequest, Mutate, Call

\* The intention a confirmation sends.
LEMMA ConfirmCall ==
  ASSUME TypeOK, FormsAreRight, NEW f \in Forms, Confirm(f)
  PROVE  \E i \in Intention, c \in ServerCall :
           /\ i = IF form[f].intention = None THEN Command(f) ELSE form[f].intention
           /\ form' = [form EXCEPT ![f].intention = i, ![f].phase = "pending"]
           /\ wire' = wire \cup {c} /\ c.owner = f /\ c.kind = "propose"
           /\ c.expected = i.expected /\ c.body = i
<1> DEFINE i == IF form[f].intention = None THEN Command(f) ELSE form[f].intention
           c == Call("propose", f, i.expected, i)
<1>0. form[f] \in ProposalForm /\ f[1] \in Pages /\ f \in Owners /\ calls + 1 \in Nat
  BY FormOwner DEF TypeOK
<1>1. view[f[1]] # None
  BY Resting DEF Confirm, FormsAreRight, FormIsRight
<1>2. Command(f) \in Intention
  <2>1. form[f].selected \in SUBSET Lines /\ form[f].expected \in Nat /\ form[f].knows \in Nat
    BY <1>0 DEF ProposalForm
  <2>2. /\ DOMAIN view[f[1]].lines \in SUBSET Lines
        /\ \A l \in DOMAIN view[f[1]].lines : view[f[1]].lines[l] \in Contents
    BY <1>0, <1>1, OpenPage, QualificationElim
  <2> DEFINE S == form[f].selected \cap DOMAIN view[f[1]].lines
             q == [l \in S |-> view[f[1]].lines[l]]
  <2>3. S \in SUBSET Lines /\ q \in [S -> Contents]
    BY <2>1, <2>2
  <2>4. q \in Qualifications
    BY <2>3, QualificationIntro
  <2> QED BY <1>0, <2>1, <2>4 DEF Command, Intention
<1>3. i \in Intention /\ i.expected \in Nat
  BY <1>0, <1>2 DEF ProposalForm, Intention
<1> HIDE DEF i
<1>4. c \in ServerCall /\ c.owner = f /\ c.kind = "propose" /\ c.expected = i.expected /\ c.body = i
  BY <1>0, <1>3 DEF Call, ServerCall, SomeCall
<1>5. form' = [form EXCEPT ![f].intention = i, ![f].phase = "pending"] /\ wire' = wire \cup {c}
  BY DEF i, Confirm, Mutate
<1> QED BY <1>3, <1>4, <1>5 DEF i

LEMMA ServerTypes ==
  ASSUME TypeOK, [Next]_vars
  PROVE  request' \in Row /\ quotations' \subseteq Quotation /\ IsFiniteSet(quotations')
<1>1. ASSUME NEW c \in wire, Qualify(c) \/ ChangeStatus(c)
      PROVE  request' \in Row /\ quotations' = quotations
  BY <1>1, CallParts DEF TypeOK, Row, Statuses, Qualify, ChangeStatus, Saved
<1>2. ASSUME NEW c \in wire, Quote(c)
      PROVE  /\ request' \in Row
             /\ \E q \in Quotation : quotations' = quotations \cup {q}
  <2>1. request' \in Row
    BY <1>2 DEF TypeOK, Row, Statuses, Quote, Saved
  <2>2. c.body \in Intention /\ c.expected \in Nat
    BY <1>2, CallParts DEF Quote
  <2> DEFINE lines == [l \in c.body.lines |-> Effective[l]]
             q == [key |-> c.body.key, from |-> c.expected, lines |-> lines,
                   seen |-> c.body.seen, knows |-> c.body.knows, before |-> Cardinality(quotations),
                   unsaved |-> request.qualification = None]
  <2>3. lines \in Qualifications
    <3>1. \A l \in c.body.lines : l \in DOMAIN Effective
      BY <1>2 DEF Quote, Coverable
    <3>2. c.body.lines \in SUBSET Lines /\ lines \in [c.body.lines -> Contents]
      BY <2>2, <3>1, EffectiveType, QualificationElim DEF Intention
    <3> QED BY <3>2, QualificationIntro
  <2>4. Cardinality(quotations) \in Nat
    BY FS_CardinalityType DEF TypeOK
  <2> HIDE DEF lines
  <2>5. q \in Quotation
    BY <2>2, <2>3, <2>4 DEF Intention, Quotation
  <2>6. quotations' = quotations \cup {q}
    BY <1>2 DEF Quote, lines
  <2> QED BY <2>1, <2>5, <2>6
<1>3. CASE UNCHANGED server
  BY <1>3 DEF TypeOK, server
<1> QED BY <1>1, <1>2, <1>3, ServerSteps, FS_AddElement DEF TypeOK

LEMMA WireType ==
  ASSUME TypeOK, FormsAreRight, [Next]_vars
  PROVE  wire' \subseteq ServerCall
<1>0. wire \subseteq ServerCall
  BY DEF TypeOK
<1>1. CASE \A c \in wire' : c \in wire \/ \E d \in wire : c = Orphan(d)
  BY <1>0, <1>1, OrphanType DEF Orphan
<1>2. ASSUME NEW p \in Pages, SubmitEdit(p) \/ CloseRequest(p)
      PROVE  wire' \subseteq ServerCall
  BY <1>0, <1>2, SubmitCall, CloseCall
<1>3. ASSUME NEW f \in Forms, Confirm(f)
      PROVE  wire' \subseteq ServerCall
  <2>1. PICK c \in ServerCall : wire' = wire \cup {c}
    BY <1>3, ConfirmCall
  <2> QED BY <1>0, <2>1
<1> QED BY <1>1, <1>2, <1>3, WireSteps

\* The state of the pages and what the catalogue recognises.
PageTypes ==
  /\ recognised \in SUBSET Lines /\ answers \subseteq Answer
  /\ view \in [Pages -> Shown \cup {None}]
  /\ fetch \in [Pages -> Shown \cup {None, Sent}]
  /\ edit \in [Pages -> EditForm \cup {NoEdit}]
  /\ closing \in [Pages -> Phases]
  /\ form \in [Forms -> ProposalForm]
  /\ calls \in Nat /\ events \in Nat

LEMMA ArriveTypes ==
  ASSUME TypeOK, NEW p \in Pages, Arrive(p)
  PROVE  PageTypes'
<1>1. fetch[p] \in Shown
  BY DEF Arrive, TypeOK
<1>2. view' \in [Pages -> Shown \cup {None}] /\ fetch' \in [Pages -> Shown \cup {None, Sent}]
  BY <1>1 DEF Arrive, TypeOK
<1>3. edit' \in [Pages -> EditForm \cup {NoEdit}] /\ closing' \in [Pages -> Phases]
  BY DEF Arrive, TypeOK, Phases
<1>4. \A f \in Forms : Remounted(f, fetch[p]) \in ProposalForm
  BY Resting DEF TypeOK, Remounted, Settled, ProposalForm, Phases
<1>5. form' \in [Forms -> ProposalForm]
  BY <1>4 DEF Arrive, TypeOK
<1>6. answers' \subseteq Answer /\ UNCHANGED <<recognised, calls, events>>
  BY DEF Arrive, Detach, TypeOK
<1> QED BY <1>2, <1>3, <1>5, <1>6 DEF PageTypes, TypeOK

LEMMA UnmountTypes ==
  ASSUME TypeOK, NEW p \in Pages, FetchFails(p) \/ Leave(p)
  PROVE  PageTypes'
<1>1. Unmount(p) /\ UNCHANGED <<recognised, calls>>
  BY DEF FetchFails, Leave
<1>2. view' \in [Pages -> Shown \cup {None}] /\ fetch' \in [Pages -> Shown \cup {None, Sent}] /\ events' \in Nat
  BY DEF FetchFails, Leave, TypeOK
<1>3. /\ edit' \in [Pages -> EditForm \cup {NoEdit}] /\ closing' \in [Pages -> Phases]
      /\ form' \in [Forms -> ProposalForm] /\ answers' \subseteq Answer
  BY <1>1, Resting DEF Unmount, Detach, TypeOK, Phases
<1> QED BY <1>1, <1>2, <1>3 DEF PageTypes, TypeOK

LEMMA FormTypes ==
  ASSUME TypeOK, FormsAreRight, NEW f \in Forms,
         OpenForm(f) \/ CloseForm(f) \/ ToggleLine(f) \/ Confirm(f) \/ AnotherProposal(f)
  PROVE  PageTypes'
<1>0. form[f] \in ProposalForm /\ f[1] \in Pages
  BY FormOwner DEF TypeOK
<1>1. CASE OpenForm(f)
  <2>1. Captured(f[1]) \in ProposalForm
    BY <1>0, <1>1, OpenPage DEF OpenForm, Mounted, Open
  <2> DEFINE base == IF form[f].intention = None THEN Captured(f[1]) ELSE form[f]
  <2>2. base \in ProposalForm
    BY <1>0, <2>1
  <2> HIDE DEF base
  <2>3. [base EXCEPT !.open = TRUE] \in ProposalForm
    BY <2>2 DEF ProposalForm
  <2>4. form' = [form EXCEPT ![f] = [base EXCEPT !.open = TRUE]]
    BY <1>1 DEF OpenForm, base
  <2> QED BY <1>1, <2>3, <2>4 DEF OpenForm, PageTypes, TypeOK
<1>2. CASE CloseForm(f)
  <2>1. [form[f] EXCEPT !.open = FALSE] \in ProposalForm
    BY <1>0 DEF ProposalForm
  <2> QED BY <1>2, <2>1, Resting DEF CloseForm, PageTypes, TypeOK
<1>3. CASE ToggleLine(f)
  <2>1. view[f[1]] # None
    BY <1>3, Resting DEF ToggleLine, FormsAreRight, FormIsRight
  <2>2. DOMAIN view[f[1]].lines \in SUBSET Lines
    BY <1>0, <2>1, OpenPage, QualificationElim
  <2>3. PICK chosen \in SUBSET Lines : form' = [form EXCEPT ![f].selected = chosen]
    <3>1. form[f].selected \in SUBSET Lines
      BY <1>0 DEF ProposalForm
    <3>2. PICK l \in DOMAIN view[f[1]].lines :
             form' = [form EXCEPT ![f].selected =
                        IF l \in form[f].selected THEN form[f].selected \ {l} ELSE form[f].selected \cup {l}]
      BY <1>0, <1>3 DEF ToggleLine, TypeOK
    <3> QED BY <2>2, <3>1, <3>2
  <2>4. [form[f] EXCEPT !.selected = chosen] \in ProposalForm
    BY <1>0 DEF ProposalForm
  <2>5. form' \in [Forms -> ProposalForm]
    BY <2>3, <2>4 DEF TypeOK
  <2> QED BY <1>3, <2>5 DEF ToggleLine, PageTypes, TypeOK
<1>4. CASE Confirm(f)
  <2>1. PICK i \in Intention : form' = [form EXCEPT ![f].intention = i, ![f].phase = "pending"]
    BY <1>4, ConfirmCall
  <2>2. [form[f] EXCEPT !.intention = i, !.phase = "pending"] \in ProposalForm
    BY <1>0 DEF ProposalForm, Phases
  <2>3. form' = [form EXCEPT ![f] = [form[f] EXCEPT !.intention = i, !.phase = "pending"]]
    BY <1>0, <2>1 DEF TypeOK
  <2>4. form' \in [Forms -> ProposalForm]
    BY <2>2, <2>3 DEF TypeOK
  <2> QED BY <1>4, <2>4 DEF Confirm, Mutate, PageTypes, TypeOK
<1>5. CASE AnotherProposal(f)
  <2>1. view[f[1]] # None
    BY <1>5, Resting DEF AnotherProposal, FormsAreRight, FormIsRight
  <2>2. Captured(f[1]) \in ProposalForm
    BY <1>0, <2>1, OpenPage
  <2> DEFINE new == [Captured(f[1]) EXCEPT !.open = TRUE]
  <2>3. new \in ProposalForm
    BY <2>2 DEF ProposalForm
  <2>4. form' = [form EXCEPT ![f] = new]
    BY <1>5 DEF AnotherProposal
  <2> HIDE DEF new
  <2>5. form' \in [Forms -> ProposalForm]
    BY <2>3, <2>4 DEF TypeOK
  <2> QED BY <1>5, <2>5 DEF AnotherProposal, PageTypes, TypeOK
<1> QED BY <1>1, <1>2, <1>3, <1>4, <1>5

LEMMA EditTypes ==
  ASSUME TypeOK, NEW p \in Pages,
         BeginEdit(p) \/ EditLines(p) \/ CancelEdit(p) \/ SubmitEdit(p) \/ CloseRequest(p)
  PROVE  PageTypes'
<1>0. edit[p] # NoEdit => edit[p] \in EditForm
  BY DEF TypeOK
<1>1. CASE BeginEdit(p)
  <2> DEFINE e == [expected |-> view[p].version, base |-> view[p].saved,
                   lines |-> view[p].lines, phase |-> "idle"]
  <2>1. e \in EditForm
    BY <1>1, OpenPage DEF BeginEdit, Open, EditForm, Phases
  <2>2. edit' = [edit EXCEPT ![p] = e]
    BY <1>1 DEF BeginEdit
  <2> HIDE DEF e
  <2> QED BY <1>1, <2>1, <2>2, Resting DEF BeginEdit, PageTypes, TypeOK
<1>2. CASE EditLines(p)
  <2>1. edit[p] # NoEdit /\ edit[p].lines \in Qualifications /\ edit[p] \in EditForm
    BY <1>0, <1>2 DEF EditLines, EditForm
  <2>2. /\ DOMAIN edit[p].lines \in SUBSET Lines
        /\ \A l \in DOMAIN edit[p].lines : edit[p].lines[l] \in Contents
    BY <2>1, QualificationElim
  <2>3. PICK lines \in Adjusted(edit[p].lines) \cup Removed(edit[p].lines) \cup UsedSelection(p, edit[p].lines) :
          edit' = [edit EXCEPT ![p].lines = lines]
    BY <1>2 DEF EditLines
  <2>4. \E S \in SUBSET Lines : lines \in [S -> Contents]
    <3>1. CASE lines \in Adjusted(edit[p].lines)
      <4>1. PICK l \in Lines, c \in Contents :
              lines = [k \in DOMAIN edit[p].lines \cup {l} |-> IF k = l THEN c ELSE edit[p].lines[k]]
        BY <3>1 DEF Adjusted
      <4> QED BY <2>2, <4>1
    <3>2. CASE lines \in Removed(edit[p].lines)
      <4>1. PICK l \in DOMAIN edit[p].lines :
              lines = [k \in DOMAIN edit[p].lines \ {l} |-> edit[p].lines[k]]
        BY <3>2 DEF Removed
      <4> QED BY <2>2, <4>1
    <3>3. CASE lines \in UsedSelection(p, edit[p].lines)
      <4>1. PICK l \in Lines :
              lines = [k \in DOMAIN edit[p].lines \cup {l} |-> IF k = l THEN Asked ELSE edit[p].lines[k]]
        BY <3>3 DEF UsedSelection
      <4> QED BY <2>2, <4>1, ContentsAssumption
    <3> QED BY <2>3, <3>1, <3>2, <3>3
  <2>5. lines \in Qualifications
    BY <2>4, QualificationIntro
  <2>6. [edit[p] EXCEPT !.lines = lines] \in EditForm
    BY <2>1, <2>5 DEF EditForm
  <2> QED BY <1>2, <2>3, <2>6 DEF EditLines, PageTypes, TypeOK
<1>3. CASE CancelEdit(p)
  BY <1>3 DEF CancelEdit, PageTypes, TypeOK
<1>4. CASE SubmitEdit(p)
  <2>1. [edit[p] EXCEPT !.phase = "pending"] \in EditForm
    BY <1>0, <1>4 DEF SubmitEdit, EditForm, Phases
  <2> QED BY <1>4, <2>1 DEF SubmitEdit, Mutate, PageTypes, TypeOK
<1>5. CASE CloseRequest(p)
  BY <1>5 DEF CloseRequest, Mutate, PageTypes, TypeOK, Phases
<1> QED BY <1>1, <1>2, <1>3, <1>4, <1>5

LEMMA EndTypes ==
  ASSUME TypeOK, NEW o \in Owners, NEW phase \in {"idle", "settling"}, Waiting(o), EndCall(o, phase)
  PROVE  /\ edit' \in [Pages -> EditForm \cup {NoEdit}] /\ closing' \in [Pages -> Phases]
         /\ form' \in [Forms -> ProposalForm]
<1>1. edit' \in [Pages -> EditForm \cup {NoEdit}]
  <2>1. CASE o[2] = "edit"
    <3>1. edit[o[1]] \in EditForm /\ o[1] \in Pages
      BY <2>1, OwnerKinds DEF Waiting, TypeOK
    <3>2. [edit[o[1]] EXCEPT !.phase = phase] \in EditForm
      BY <3>1 DEF EditForm, Phases
    <3> QED BY <2>1, <3>1, <3>2 DEF EndCall, TypeOK
  <2> QED BY <2>1 DEF EndCall, TypeOK
<1>2. closing' \in [Pages -> Phases]
  BY DEF EndCall, TypeOK, Phases
<1>3. form' \in [Forms -> ProposalForm]
  <2>1. \A f \in Forms : [form[f] EXCEPT !.phase = phase] \in ProposalForm
    BY DEF TypeOK, ProposalForm, Phases
  <2> QED BY <2>1 DEF EndCall, TypeOK
<1> QED BY <1>1, <1>2, <1>3

LEMMA Types ==
  ASSUME TypeOK, FormsAreRight, OneInFlight, [Next]_vars
  PROVE  TypeOK'
<1>1. ASSUME NEW p \in Pages, Refetch(p) \/ Read(p)
      PROVE  PageTypes'
  BY <1>1, CopyType DEF Refetch, Read, PageTypes, TypeOK
<1>2. ASSUME NEW c \in wire, Execute(c)
      PROVE  PageTypes'
  BY <1>2, CallParts DEF Execute, PageTypes, TypeOK, Answer
<1>3. ASSUME (\E a \in answers : Deliver(a)) \/ (\E o \in Owners : Lose(o))
      PROVE  PageTypes'
  <2>1. /\ edit' \in [Pages -> EditForm \cup {NoEdit}] /\ closing' \in [Pages -> Phases]
        /\ form' \in [Forms -> ProposalForm]
    BY <1>3, Ends, EndTypes
  <2>2. ASSUME NEW a \in answers, Deliver(a)
        PROVE  /\ UNCHANGED <<recognised, view, calls, events>> /\ answers' \subseteq answers
               /\ fetch' \in [Pages -> Shown \cup {None, Sent}]
    BY <2>2 DEF Deliver, TypeOK
  <2>3. ASSUME NEW o \in Owners, Lose(o)
        PROVE  /\ UNCHANGED <<recognised, view, calls, fetch>> /\ answers' \subseteq answers
               /\ events' = events + 1
    BY <2>3 DEF Lose
  <2>4. answers' \subseteq answers /\ recognised' = recognised /\ view' = view /\ calls' = calls
    BY <1>3, <2>2, <2>3
  <2>5. events' \in Nat /\ fetch' \in [Pages -> Shown \cup {None, Sent}]
    BY <1>3, <2>2, <2>3 DEF TypeOK
  <2>6. /\ recognised' \in SUBSET Lines /\ answers' \subseteq Answer /\ calls' \in Nat
        /\ view' \in [Pages -> Shown \cup {None}]
    BY <2>4 DEF TypeOK
  <2> QED BY <2>1, <2>5, <2>6 DEF PageTypes
<1>4. ASSUME CatalogueMoves \/ UNCHANGED vars
      PROVE  PageTypes'
  BY <1>4 DEF CatalogueMoves, vars, PageTypes, TypeOK
<1>5. ASSUME NEW p \in Pages,
             \/ Arrive(p) \/ FetchFails(p) \/ Leave(p)
             \/ BeginEdit(p) \/ EditLines(p) \/ CancelEdit(p) \/ SubmitEdit(p) \/ CloseRequest(p)
      PROVE  PageTypes'
  BY <1>5, ArriveTypes, UnmountTypes, EditTypes
<1>6. ASSUME NEW f \in Forms,
             OpenForm(f) \/ CloseForm(f) \/ ToggleLine(f) \/ Confirm(f) \/ AnotherProposal(f)
      PROVE  PageTypes'
  BY <1>6, FormTypes
<1>7. PageTypes'
  BY <1>1, <1>2, <1>3, <1>4, <1>5, <1>6 DEF Next
<1> QED BY <1>7, ServerTypes, WireType DEF PageTypes, TypeOK
-----------------------------------------------------------------------------
(* What the pages know *)

LEMMA CopyRight ==
  ASSUME TypeOK
  PROVE  CopyIsRight(Copy)
<1>1. request.qualification = None => \A l \in DOMAIN Effective : Effective[l] = Asked
  BY DEF Effective
<1>2. request.qualification # None => Effective = request.qualification
  BY DEF Effective
<1> QED BY <1>1, <1>2 DEF CopyIsRight, Copy, TypeOK, Row

LEMMA Views ==
  ASSUME IInv, [Next]_vars
  PROVE  ViewsAreRight'
<1> SUFFICES ASSUME NEW p \in Pages, view'[p] # None
             PROVE  CopyIsRight(view[p])'
  BY DEF ViewsAreRight
<1>1. CASE view'[p] = view[p]
  <2>1. CopyIsRight(view[p]) /\ view[p].version \in Nat
    BY <1>1, OpenPage DEF IInv, ViewsAreRight
  <2> QED BY <1>1, <2>1, Versions DEF IInv, CopyIsRight, server
<1>2. CASE Arrive(p)
  <2>1. view'[p] = fetch[p] /\ UNCHANGED server /\ CopyIsRight(fetch[p])
    BY <1>2 DEF IInv, TypeOK, Arrive, FetchesAreRight, server
  <2> QED BY <2>1 DEF CopyIsRight, server
<1> QED BY <1>1, <1>2, ViewSteps DEF IInv

LEMMA Fetches ==
  ASSUME IInv, [Next]_vars
  PROVE  FetchesAreRight'
<1> SUFFICES ASSUME NEW p \in Pages, fetch'[p] \notin {None, Sent}
             PROVE  /\ CopyIsRight(fetch[p])'
                    /\ view'[p] # None =>
                         /\ view'[p].version <= fetch'[p].version
                         /\ view'[p].version = fetch'[p].version => view'[p].saved = fetch'[p].saved
  BY DEF FetchesAreRight
<1>1. CASE fetch'[p] = fetch[p] /\ view'[p] = view[p]
  <2>1. fetch[p] \in Shown /\ fetch[p].version \in Nat
    BY <1>1 DEF IInv, TypeOK, Shown
  <2>2. CopyIsRight(fetch[p])
    BY <1>1 DEF IInv, FetchesAreRight
  <2>3. CopyIsRight(fetch[p])'
    BY <1>1, <2>1, <2>2, Versions DEF IInv, CopyIsRight, server
  <2> QED BY <1>1, <2>3 DEF IInv, FetchesAreRight
<1>2. CASE fetch'[p] = Copy /\ UNCHANGED <<request, quotations, view>>
  <2>1. CopyIsRight(Copy) /\ Copy.version = request.version /\ Copy.saved = request.qualification
    BY CopyRight DEF IInv, Copy
  <2>2. CopyIsRight(fetch[p])'
    BY <1>2, <2>1 DEF CopyIsRight
  <2>3. view[p] # None => CopyIsRight(view[p])
    BY DEF IInv, ViewsAreRight
  <2> QED BY <1>2, <2>1, <2>2, <2>3 DEF CopyIsRight
<1> QED BY <1>1, <1>2, FetchSteps DEF IInv

LEMMA Edits ==
  ASSUME IInv, [Next]_vars
  PROVE  EditsAreRight'
<1> SUFFICES ASSUME NEW p \in Pages, edit'[p] # NoEdit
             PROVE  BaseIsRight(edit[p].expected, edit[p].base)'
  BY DEF EditsAreRight
<1>1. CASE edit[p] # NoEdit /\ edit'[p].expected = edit[p].expected /\ edit'[p].base = edit[p].base
  <2>1. BaseIsRight(edit[p].expected, edit[p].base) /\ edit[p].expected \in Nat
    BY <1>1 DEF IInv, TypeOK, EditForm, EditsAreRight
  <2> QED BY <1>1, <2>1, Versions DEF IInv, BaseIsRight, server
<1>2. CASE /\ view[p] # None /\ UNCHANGED <<request, quotations>>
           /\ edit'[p].expected = view[p].version /\ edit'[p].base = view[p].saved
  BY <1>2 DEF IInv, ViewsAreRight, CopyIsRight, BaseIsRight
<1> QED BY <1>1, <1>2, EditSteps DEF IInv

\* An intention stays right while the row moves on.
LEMMA IntentionKept ==
  ASSUME IInv, [Next]_vars, NEW i \in Intention, IntentionIsRight(i)
  PROVE  IntentionIsRight(i)'
<1>1. i.expected \in Nat
  BY DEF Intention
<1> QED BY <1>1, Versions DEF IInv, IntentionIsRight, server

\* What a dialog confirms is what its page shows and knows.
LEMMA ConfirmRight ==
  ASSUME IInv, NEW f \in Forms, form[f].open, form[f].intention = None
  PROVE  IntentionIsRight(Command(f))
<1> DEFINE v == view[f[1]]
           i == Command(f)
<1>1. f[1] \in Pages /\ form[f] \in ProposalForm /\ v # None
  BY FormOwner, Resting DEF IInv, TypeOK, FormsAreRight, FormIsRight
<1>2. CopyIsRight(v) /\ v.version \in Nat /\ v.lines \in Qualifications
  BY <1>1, OpenPage DEF IInv, ViewsAreRight
<1>3. DraftIsRight(f) /\ form[f].expected \in Nat /\ request.version \in Nat
  BY <1>1 DEF IInv, FormsAreRight, FormIsRight, ProposalForm, TypeOK, Row
<1>4. /\ i.expected = form[f].expected /\ i.lines = form[f].selected /\ i.knows = form[f].knows
      /\ DOMAIN i.seen = form[f].selected \cap DOMAIN v.lines
      /\ \A l \in DOMAIN i.seen : i.seen[l] = v.lines[l]
  BY DEF Command
<1> HIDE DEF i, v
<1>5. i.expected <= request.version
  BY <1>2, <1>3, <1>4 DEF CopyIsRight, DraftIsRight, v
<1>6. ASSUME i.expected = request.version
      PROVE  /\ i.knows = Cardinality(quotations)
             /\ request.qualification # None =>
                  /\ DOMAIN i.seen = i.lines
                  /\ \A l \in i.lines : i.seen[l] = request.qualification[l]
             /\ request.qualification = None => \A l \in DOMAIN i.seen : i.seen[l] = Asked
  <2>1. v.version = request.version /\ form[f].expected = v.version
    BY <1>2, <1>3, <1>4, <1>6 DEF CopyIsRight, DraftIsRight, v
  <2>2. v.saved = request.qualification
    BY <1>2, <2>1 DEF CopyIsRight
  <2>3. v.saved # None => form[f].selected \subseteq DOMAIN v.lines
    BY <1>3, <2>1 DEF DraftIsRight, v
  <2>4. i.knows = Cardinality(quotations)
    BY <1>3, <1>4, <1>6 DEF DraftIsRight
  <2> QED BY <1>2, <1>4, <2>2, <2>3, <2>4 DEF CopyIsRight
<1> QED BY <1>4, <1>5, <1>6 DEF IntentionIsRight, i

LEMMA Calls ==
  ASSUME IInv, [Next]_vars
  PROVE  CallsAreRight'
<1> DEFINE Right(c) == /\ c.kind = "qualify" => BaseIsRight(c.expected, c.body.base)
                       /\ c.kind = "propose" => IntentionIsRight(c.body) /\ c.expected = c.body.expected
           RightNext(c) == /\ c.kind = "qualify" => BaseIsRight(c.expected, c.body.base)'
                           /\ c.kind = "propose" => IntentionIsRight(c.body)' /\ c.expected = c.body.expected
<1>1. ASSUME NEW c \in wire
      PROVE  RightNext(c) /\ RightNext(Orphan(c))
  <2>1. c.expected \in Nat /\ Right(c) /\ (c.kind = "propose" => c.body \in Intention)
    BY CallParts DEF IInv, CallsAreRight
  <2>2. c.kind = "qualify" => BaseIsRight(c.expected, c.body.base)'
    BY <2>1, Versions DEF IInv, BaseIsRight, server
  <2>3. c.kind = "propose" => IntentionIsRight(c.body)'
    BY <2>1, IntentionKept
  <2>4. RightNext(c)
    BY <2>1, <2>2, <2>3
  <2>5. Orphan(c).kind = c.kind /\ Orphan(c).expected = c.expected /\ Orphan(c).body = c.body
    BY CallParts, OrphanType DEF IInv
  <2> QED BY <2>4, <2>5
<1>2. ASSUME NEW p \in Pages, SubmitEdit(p) \/ CloseRequest(p)
      PROVE  CallsAreRight'
  <2>1. PICK c : /\ wire' = wire \cup {c} /\ c.kind \in {"qualify", "close"}
                 /\ c.kind = "qualify" => BaseIsRight(c.expected, c.body.base)
    BY <1>2, SubmitCall, CloseCall DEF IInv, EditsAreRight, SubmitEdit
  <2>2. UNCHANGED <<request, quotations>>
    BY <1>2 DEF SubmitEdit, CloseRequest
  <2>3. RightNext(c)
    BY <2>1, <2>2 DEF BaseIsRight
  <2> HIDE DEF RightNext
  <2>4. \A d \in wire' : RightNext(d)
    BY <1>1, <2>1, <2>3
  <2> QED BY <2>4 DEF CallsAreRight, RightNext
<1>3. ASSUME NEW f \in Forms, Confirm(f)
      PROVE  CallsAreRight'
  <2>1. PICK i \in Intention, c \in ServerCall :
           /\ i = IF form[f].intention = None THEN Command(f) ELSE form[f].intention
           /\ form' = [form EXCEPT ![f].intention = i, ![f].phase = "pending"]
           /\ wire' = wire \cup {c} /\ c.owner = f /\ c.kind = "propose"
           /\ c.expected = i.expected /\ c.body = i
    BY <1>3, ConfirmCall, Zenon DEF IInv
  <2>2. UNCHANGED <<request, quotations>> /\ form[f].open
    BY <1>3 DEF Confirm
  <2>3. IntentionIsRight(i)
    BY <2>1, <2>2, ConfirmRight DEF IInv, FormsAreRight, FormIsRight
  <2>4. RightNext(c)
    BY <2>1, <2>2, <2>3 DEF IntentionIsRight
  <2> HIDE DEF RightNext
  <2>5. \A d \in wire' : RightNext(d)
    BY <1>1, <2>1, <2>4
  <2> QED BY <2>5 DEF CallsAreRight, RightNext
<1>4. CASE \A c \in wire' : c \in wire \/ \E d \in wire : c = Orphan(d)
  <2> HIDE DEF RightNext
  <2>1. \A d \in wire' : RightNext(d)
    BY <1>1, <1>4
  <2> QED BY <2>1 DEF CallsAreRight, RightNext
<1> QED BY <1>2, <1>3, <1>4, WireSteps DEF IInv

\* A dialog that is left alone, but for whether it is open and for its phase.
LEMMA FormKept ==
  ASSUME IInv, [Next]_vars, NEW f \in Forms, view'[f[1]] = view[f[1]],
         view[f[1]] = None => form'[f] = NoForm,
         form'[f].intention = form[f].intention, form'[f].expected = form[f].expected,
         form'[f].selected = form[f].selected, form'[f].knows = form[f].knows,
         form'[f].open => form[f].open \/ form[f].intention # None
  PROVE  FormIsRight(f)'
<1>1. f[1] \in Pages /\ form[f] \in ProposalForm /\ FormIsRight(f)
  BY FormOwner DEF IInv, TypeOK, FormsAreRight
<1>2. form[f].intention # None => IntentionIsRight(form[f].intention)'
  <2>1. ASSUME form[f].intention # None
        PROVE  form[f].intention \in Intention /\ IntentionIsRight(form[f].intention)
    BY <1>1, <2>1 DEF ProposalForm, FormIsRight
  <2>2. ASSUME NEW i \in Intention, i = form[f].intention, IntentionIsRight(i)
        PROVE  IntentionIsRight(i)'
    BY <2>2, IntentionKept
  <2> QED BY <2>1, <2>2 DEF IntentionIsRight
<1>3. ASSUME form'[f].open, form[f].intention = None
      PROVE  DraftIsRight(f)'
  <2>1. DraftIsRight(f) /\ form[f].expected \in Nat /\ view[f[1]] # None
    BY <1>1, <1>3, Resting DEF FormIsRight, ProposalForm
  <2>2. view[f[1]].version \in Nat /\ view[f[1]].version <= request.version
    BY <1>1, <2>1, OpenPage DEF IInv, ViewsAreRight, CopyIsRight
  <2> QED BY <2>1, <2>2, Versions DEF IInv, DraftIsRight, server
<1> QED BY <1>2, <1>3 DEF FormIsRight, IntentionIsRight

\* A dialog that has just taken what the page shows.
LEMMA FormCaptured ==
  ASSUME IInv, NEW f \in Forms, view[f[1]] # None, UNCHANGED <<request, quotations, view>>,
         form'[f] = [Captured(f[1]) EXCEPT !.open = TRUE]
  PROVE  FormIsRight(f)'
<1> DEFINE v == view[f[1]]
<1>1. CopyIsRight(v) /\ v.version \in Nat
  BY FormOwner, OpenPage DEF IInv, ViewsAreRight
<1>2. /\ form'[f].intention = None /\ form'[f].expected = v.version
      /\ form'[f].selected = DOMAIN v.lines /\ form'[f].knows = v.made
  BY DEF Captured
<1>3. DraftIsRight(f)'
  BY <1>1, <1>2 DEF CopyIsRight, DraftIsRight
<1> QED BY <1>2, <1>3 DEF FormIsRight

LEMMA FormsArrive ==
  ASSUME IInv, [Next]_vars, NEW p \in Pages, Arrive(p)
  PROVE  FormsAreRight'
<1> SUFFICES ASSUME NEW f \in Forms PROVE FormIsRight(f)'
  BY DEF FormsAreRight
<1>1. f[1] \in Pages /\ f[2] \in Places /\ form[f] \in ProposalForm
  BY FormOwner DEF IInv, TypeOK
<1>2. CASE f[1] # p
  <2>1. f \notin FormsOf(p)
    BY <1>2 DEF FormsOf
  <2>2. form'[f] = form[f] /\ view'[f[1]] = view[f[1]]
    BY <1>1, <1>2, <2>1 DEF Arrive, IInv, TypeOK
  <2> QED BY <2>2, FormKept DEF IInv, FormsAreRight, FormIsRight
<1>3. CASE f[1] = p
  <2>1. f \in FormsOf(p)
    BY <1>1, <1>3, FormOwner DEF FormsOf
  <2>2. /\ form'[f] = Remounted(f, fetch[p]) /\ view'[p] = fetch[p] /\ fetch[p] \in Shown
        /\ UNCHANGED <<request, quotations>>
    BY <2>1 DEF Arrive, IInv, TypeOK
  <2>3. view'[p] # None
    BY <2>2, MarksAssumption
  <2>4. CASE fetch[p].status = "CLOSED"
    BY <1>3, <2>2, <2>3, <2>4 DEF Remounted, NoForm, FormIsRight
  <2>5. CASE fetch[p].status # "CLOSED"
    <3>1. /\ form'[f].open = form[f].open /\ form'[f].intention = form[f].intention
          /\ form'[f].expected = form[f].expected /\ form'[f].selected = form[f].selected
          /\ form'[f].knows = form[f].knows
      BY <1>1, <2>2, <2>5 DEF Remounted, ProposalForm
    <3>2. form[f].intention # None => IntentionIsRight(form[f].intention)'
      BY <2>2, <3>1 DEF IInv, FormsAreRight, FormIsRight, IntentionIsRight
    <3>3. ASSUME form[f].open, form[f].intention = None
          PROVE  DraftIsRight(f)'
      <4>1. DraftIsRight(f) /\ view[p] # None /\ form[f].expected \in Nat
        BY <1>1, <1>3, <3>3, Resting DEF IInv, FormsAreRight, FormIsRight, ProposalForm
      <4>2. /\ view[p].version \in Nat /\ fetch[p].version \in Nat
            /\ view[p].version <= fetch[p].version
            /\ view[p].version = fetch[p].version => view[p].saved = fetch[p].saved
            /\ view[p].saved # None => view[p].lines = view[p].saved
            /\ fetch[p].saved # None => fetch[p].lines = fetch[p].saved
        BY <2>2, <4>1, OpenPage, MarksAssumption
           DEF IInv, FetchesAreRight, ViewsAreRight, CopyIsRight, Shown
      <4> QED BY <1>3, <2>2, <3>1, <4>1, <4>2 DEF DraftIsRight
    <3> QED BY <1>3, <2>3, <3>1, <3>2, <3>3 DEF FormIsRight, IntentionIsRight
  <2> QED BY <2>4, <2>5
<1> QED BY <1>2, <1>3

LEMMA FormsUnmount ==
  ASSUME IInv, [Next]_vars, NEW p \in Pages, FetchFails(p) \/ Leave(p)
  PROVE  FormsAreRight'
<1> SUFFICES ASSUME NEW f \in Forms PROVE FormIsRight(f)'
  BY DEF FormsAreRight
<1>1. f[1] \in Pages /\ f[2] \in Places
  BY FormOwner
<1>2. CASE f[1] # p
  <2>1. f \notin FormsOf(p)
    BY <1>2 DEF FormsOf
  <2>2. form'[f] = form[f] /\ view'[f[1]] = view[f[1]]
    BY <1>1, <1>2, <2>1 DEF FetchFails, Leave, Unmount, IInv, TypeOK
  <2> QED BY <2>2, FormKept DEF IInv, FormsAreRight, FormIsRight
<1>3. CASE f[1] = p
  <2>1. f \in FormsOf(p)
    BY <1>1, <1>3, FormOwner DEF FormsOf
  <2>2. form'[f] = NoForm
    BY <2>1 DEF FetchFails, Leave, Unmount
  <2> QED BY <2>2 DEF NoForm, FormIsRight
<1> QED BY <1>2, <1>3

LEMMA FormsUsed ==
  ASSUME IInv, [Next]_vars, NEW f \in Forms,
         OpenForm(f) \/ CloseForm(f) \/ ToggleLine(f) \/ Confirm(f) \/ AnotherProposal(f)
  PROVE  FormsAreRight'
<1> SUFFICES ASSUME NEW g \in Forms PROVE FormIsRight(g)'
  BY DEF FormsAreRight
<1>0. UNCHANGED <<request, quotations, view>> /\ (f # g => form'[g] = form[g])
  BY DEF OpenForm, CloseForm, ToggleLine, Confirm, AnotherProposal, IInv, TypeOK
<1>1. CASE f # g
  BY <1>0, <1>1, FormKept DEF IInv, FormsAreRight, FormIsRight
<1>2. form[f] \in ProposalForm /\ FormIsRight(f) /\ form \in [Forms -> ProposalForm]
  BY DEF IInv, TypeOK, FormsAreRight
<1>3. CASE f = g /\ OpenForm(f)
  <2>1. view[f[1]] # None
    BY <1>3 DEF OpenForm, Mounted, Open
  <2>2. CASE form[f].intention = None
    <3>1. form'[f] = [Captured(f[1]) EXCEPT !.open = TRUE]
      BY <1>2, <1>3, <2>2 DEF OpenForm
    <3> QED BY <1>0, <1>3, <2>1, <3>1, FormCaptured
  <2>3. CASE form[f].intention # None
    <3>1. form'[f] = [form[f] EXCEPT !.open = TRUE]
      BY <1>2, <1>3, <2>3 DEF OpenForm
    <3> QED BY <1>0, <1>2, <1>3, <2>1, <2>3, <3>1, FormKept DEF ProposalForm
  <2> QED BY <2>2, <2>3
<1>4. CASE f = g /\ CloseForm(f)
  <2>1. CASE form[f].intention = None
    <3>1. form'[f] = NoForm
      BY <1>2, <1>4, <2>1 DEF CloseForm
    <3> QED BY <1>4, <3>1 DEF NoForm, FormIsRight
  <2>2. CASE form[f].intention # None
    <3>1. form'[f] = [form[f] EXCEPT !.open = FALSE] /\ form[f].open
      BY <1>2, <1>4, <2>2 DEF CloseForm
    <3>2. view[f[1]] # None
      BY <1>2, <3>1, Resting DEF FormIsRight
    <3> QED BY <1>0, <1>2, <1>4, <2>2, <3>1, <3>2, FormKept DEF ProposalForm
  <2> QED BY <2>1, <2>2
<1>5. CASE f = g /\ ToggleLine(f)
  <2>1. PICK l \in DOMAIN view[f[1]].lines :
          form' = [form EXCEPT ![f].selected =
                     IF l \in form[f].selected THEN form[f].selected \ {l} ELSE form[f].selected \cup {l}]
    BY <1>2, <1>5 DEF ToggleLine
  <2>2. /\ form'[f].open = form[f].open /\ form'[f].intention = form[f].intention
        /\ form'[f].expected = form[f].expected /\ form'[f].knows = form[f].knows
        /\ form'[f].selected \subseteq form[f].selected \cup {l}
    BY <1>2, <2>1 DEF ProposalForm
  <2>3. form[f].open /\ form[f].intention = None /\ view[f[1]] # None /\ DraftIsRight(f)
    BY <1>2, <1>5, Resting DEF ToggleLine, FormIsRight
  <2>4. DraftIsRight(f)'
    BY <1>0, <2>2, <2>3 DEF DraftIsRight
  <2> QED BY <1>0, <1>5, <2>2, <2>3, <2>4 DEF FormIsRight
<1>6. CASE f = g /\ Confirm(f)
  <2>1. PICK i \in Intention, c \in ServerCall :
           /\ i = IF form[f].intention = None THEN Command(f) ELSE form[f].intention
           /\ form' = [form EXCEPT ![f].intention = i, ![f].phase = "pending"]
           /\ wire' = wire \cup {c} /\ c.owner = f /\ c.kind = "propose"
           /\ c.expected = i.expected /\ c.body = i
    BY <1>6, ConfirmCall, Zenon DEF IInv
  <2>2. form'[f].intention = i /\ i # None /\ form[f].open
    BY <1>2, <1>6, <2>1, MarksAssumption DEF ProposalForm, Confirm
  <2>3. IntentionIsRight(i)
    BY <1>2, <2>1, <2>2, ConfirmRight DEF FormIsRight
  <2>4. view[f[1]] # None
    BY <1>2, <2>2, Resting DEF FormIsRight
  <2> QED BY <1>0, <1>6, <2>2, <2>3, <2>4 DEF FormIsRight, IntentionIsRight
<1>7. CASE f = g /\ AnotherProposal(f)
  <2>1. form'[f] = [Captured(f[1]) EXCEPT !.open = TRUE] /\ form[f].open
    BY <1>2, <1>7 DEF AnotherProposal
  <2>2. view[f[1]] # None
    BY <1>2, <2>1, Resting DEF FormIsRight
  <2> QED BY <1>0, <1>7, <2>1, <2>2, FormCaptured
<1> QED BY <1>1, <1>3, <1>4, <1>5, <1>6, <1>7

LEMMA Dialogs ==
  ASSUME IInv, [Next]_vars
  PROVE  FormsAreRight'
<1>1. ASSUME UNCHANGED <<view, form>>
      PROVE  FormsAreRight'
  BY <1>1, FormKept DEF IInv, FormsAreRight, FormIsRight
<1>2. ASSUME NEW p \in Pages, BeginEdit(p)
      PROVE  FormsAreRight'
  <2> SUFFICES ASSUME NEW f \in Forms PROVE FormIsRight(f)'
    BY DEF FormsAreRight
  <2>1. view' = view /\ (form'[f] = form[f] \/ form'[f] = NoForm)
    BY <1>2 DEF BeginEdit, IInv, TypeOK
  <2>2. CASE form'[f] = form[f]
    BY <2>1, <2>2, FormKept DEF IInv, FormsAreRight, FormIsRight
  <2>3. CASE form'[f] = NoForm
    BY <2>3 DEF NoForm, FormIsRight
  <2> QED BY <2>1, <2>2, <2>3
<1>3. ASSUME (\E a \in answers : Deliver(a)) \/ (\E o \in Owners : Lose(o))
      PROVE  FormsAreRight'
  <2> SUFFICES ASSUME NEW f \in Forms PROVE FormIsRight(f)'
    BY DEF FormsAreRight
  <2>1. PICK o \in Owners, phase \in {"idle", "settling"} : Waiting(o) /\ EndCall(o, phase)
    BY <1>3, Ends DEF IInv
  <2>2. view' = view /\ form \in [Forms -> ProposalForm]
    BY <1>3 DEF Deliver, Lose, IInv, TypeOK
  <2>3. CASE f = o
    <3>1. form'[f] = [form[f] EXCEPT !.phase = phase] /\ form[f].open
      BY <2>1, <2>2, <2>3, FormOwner DEF EndCall, Waiting
    <3>2. view[f[1]] # None
      BY <3>1, Resting DEF IInv, FormsAreRight, FormIsRight
    <3> QED BY <2>2, <3>1, <3>2, FormKept DEF ProposalForm
  <2>4. CASE f # o
    <3>1. form'[f] = form[f]
      BY <2>1, <2>2, <2>4 DEF EndCall
    <3> QED BY <2>2, <3>1, FormKept DEF IInv, FormsAreRight, FormIsRight
  <2> QED BY <2>3, <2>4
<1>4. ASSUME NEW p \in Pages,
             Refetch(p) \/ Read(p) \/ EditLines(p) \/ CancelEdit(p) \/ SubmitEdit(p) \/ CloseRequest(p)
      PROVE  UNCHANGED <<view, form>>
  BY <1>4 DEF Refetch, Read, EditLines, CancelEdit, SubmitEdit, CloseRequest
<1>5. ASSUME (\E c \in wire : Execute(c)) \/ CatalogueMoves \/ UNCHANGED vars
      PROVE  UNCHANGED <<view, form>>
  BY <1>5 DEF Execute, CatalogueMoves, vars
<1>6. ASSUME NEW p \in Pages, Arrive(p) \/ FetchFails(p) \/ Leave(p)
      PROVE  FormsAreRight'
  BY <1>6, FormsArrive, FormsUnmount
<1>7. ASSUME NEW f \in Forms,
             OpenForm(f) \/ CloseForm(f) \/ ToggleLine(f) \/ Confirm(f) \/ AnotherProposal(f)
      PROVE  FormsAreRight'
  BY <1>7, FormsUsed
<1> QED BY <1>1, <1>2, <1>3, <1>4, <1>5, <1>6, <1>7 DEF Next
-----------------------------------------------------------------------------
(* What is quoted *)

\* The quotation a proposal makes.
LEMMA QuoteMakes ==
  ASSUME IInv, NEW c \in wire, Quote(c)
  PROVE  \E q :
    /\ quotations' = quotations \cup {q} /\ q.key = c.body.key /\ ~Made(q.key)
    /\ q.from = request.version /\ q.before = Cardinality(quotations) /\ q.knows = q.before
    /\ \A l \in DOMAIN q.seen : l \in DOMAIN q.lines /\ q.lines[l] = q.seen[l]
    /\ ~q.unsaved => DOMAIN q.lines = DOMAIN q.seen
<1> DEFINE lines == [l \in c.body.lines |-> Effective[l]]
           q == [key |-> c.body.key, from |-> c.expected, lines |-> lines,
                 seen |-> c.body.seen, knows |-> c.body.knows, before |-> Cardinality(quotations),
                 unsaved |-> request.qualification = None]
<1>1. quotations' = quotations \cup {q} /\ ~Made(c.body.key) /\ c.expected = request.version
      /\ c.body.lines \subseteq DOMAIN Effective
  BY DEF Quote, Editable, Coverable
<1>2. IntentionIsRight(c.body) /\ c.body.expected = c.expected
  BY DEF IInv, CallsAreRight, Quote
<1>3. c.body.knows = Cardinality(quotations)
  BY <1>1, <1>2 DEF IntentionIsRight
<1>4. /\ \A l \in DOMAIN c.body.seen : l \in DOMAIN lines /\ lines[l] = c.body.seen[l]
      /\ request.qualification # None => DOMAIN lines = DOMAIN c.body.seen
  <2>1. CASE request.qualification # None
    BY <1>1, <1>2, <2>1 DEF IntentionIsRight, Effective
  <2>2. CASE request.qualification = None
    BY <1>1, <1>2, <2>2 DEF IntentionIsRight, Effective
  <2> QED BY <2>1, <2>2
<1> HIDE DEF lines
<1>5. /\ q.key = c.body.key /\ q.from = c.expected /\ q.lines = lines /\ q.seen = c.body.seen
      /\ q.knows = c.body.knows /\ q.before = Cardinality(quotations)
      /\ q.unsaved = (request.qualification = None)
  OBVIOUS
<1> HIDE DEF q
<1> QED BY <1>1, <1>3, <1>4, <1>5

LEMMA Quotations ==
  ASSUME IInv, [Next]_vars
  PROVE  QuotationsAreRight'
<1>0. /\ \A q \in quotations : q \in Quotation /\ q.before \in Nat /\ q.from \in Nat
      /\ IsFiniteSet(quotations) /\ Cardinality(quotations) \in Nat /\ request.version \in Nat
  BY FS_CardinalityType DEF IInv, TypeOK, Row, Quotation
<1>1. CASE quotations' = quotations
  BY <1>0, <1>1, Versions
     DEF IInv, QuotationsAreRight, InformedProposals, QuotedAsSeen, server
<1>2. ASSUME NEW c \in wire, Quote(c)
      PROVE  QuotationsAreRight'
  <2>1. PICK q :
    /\ quotations' = quotations \cup {q} /\ q.key = c.body.key /\ ~Made(q.key)
    /\ q.from = request.version /\ q.before = Cardinality(quotations) /\ q.knows = q.before
    /\ \A l \in DOMAIN q.seen : l \in DOMAIN q.lines /\ q.lines[l] = q.seen[l]
    /\ ~q.unsaved => DOMAIN q.lines = DOMAIN q.seen
    BY <1>2, QuoteMakes
  <2>2. request'.version = request.version + 1
    BY <1>2 DEF Quote, Saved
  <2>3. q \notin quotations /\ Cardinality(quotations') = Cardinality(quotations) + 1
    BY <1>0, <2>1, FS_AddElement DEF Made
  <2>4. InformedProposals'
    <3>1. \A r \in quotations : r.knows = r.before /\ r.before < Cardinality(quotations) /\ r.key # q.key
      BY <2>1 DEF IInv, QuotationsAreRight, InformedProposals, Made
    <3>2. \A r \in quotations : r.before # q.before
      BY <1>0, <2>1, <3>1
    <3>3. \A r, t \in quotations : r.key = t.key \/ r.before = t.before => r = t
      BY DEF IInv, QuotationsAreRight, InformedProposals
    <3> QED BY <2>1, <3>1, <3>2, <3>3 DEF InformedProposals
  <2>5. QuotedAsSeen'
    BY <2>1 DEF IInv, QuotationsAreRight, QuotedAsSeen
  <2>6. \A r \in quotations' : r.before < Cardinality(quotations') /\ r.from < request'.version
    BY <1>0, <2>1, <2>2, <2>3 DEF IInv, QuotationsAreRight
  <2> QED BY <2>4, <2>5, <2>6 DEF QuotationsAreRight
<1>3. ASSUME NEW c \in wire, Qualify(c) \/ ChangeStatus(c)
      PROVE  quotations' = quotations
  BY <1>3 DEF Qualify, ChangeStatus
<1> QED BY <1>1, <1>2, <1>3, ServerSteps DEF server
-----------------------------------------------------------------------------
(* What is under way *)

Quiet(o) == (\A c \in wire : c.owner # o) /\ (\A a \in answers : a.owner # o)

LEMMA NotWaiting ==
  ASSUME TypeOK, OneInFlight, NEW o \in Owners, ~Waiting(o)
  PROVE  Quiet(o)
BY MarksAssumption DEF OneInFlight, Quiet

LEMMA OwnerTypes ==
  ASSUME TypeOK
  PROVE  /\ \A c \in wire : c.owner \in Owners \cup {None}
         /\ \A a \in answers : a.owner \in Owners /\ a.owner # None
BY CallParts, MarksAssumption DEF TypeOK, Answer

\* No call and no answer comes or goes.
LEMMA FlightKept ==
  ASSUME TypeOK, OneInFlight, UNCHANGED <<wire, answers>>,
         \A o \in Owners : Waiting(o) => Waiting(o)'
  PROVE  OneInFlight'
<1>1. /\ \A c \in wire : c.owner # None => Waiting(c.owner)'
      /\ \A a \in answers : Waiting(a.owner)'
  BY OwnerTypes DEF OneInFlight
<1> QED BY <1>1 DEF OneInFlight

\* A component that waits for nothing makes a call.
LEMMA FlightStarts ==
  ASSUME TypeOK, OneInFlight, NEW o \in Owners, ~Waiting(o), Waiting(o)',
         NEW c, c.owner = o, wire' = wire \cup {c}, answers' = answers,
         \A x \in Owners : Waiting(x) => Waiting(x)'
  PROVE  OneInFlight'
<1>1. Quiet(o)
  BY NotWaiting
<1>2. /\ \A d \in wire : d.owner # None => Waiting(d.owner)'
      /\ \A a \in answers : Waiting(a.owner)'
  BY OwnerTypes DEF OneInFlight
<1> QED BY <1>1, <1>2 DEF OneInFlight, Quiet

\* Components go, and their calls lose their callers.
LEMMA FlightDetached ==
  ASSUME TypeOK, OneInFlight, NEW owners, Detach(owners),
         \A o \in Owners \ owners : Waiting(o) => Waiting(o)'
  PROVE  /\ OneInFlight'
         /\ \A c \in wire' : c.owner # None => c \in wire /\ c.owner \notin owners
         /\ \A a \in answers' : a \in answers /\ a.owner \notin owners
<1>0. \A d \in wire : Orphan(d).owner = None
  BY OrphanType DEF TypeOK
<1>1. \A c \in wire' : c.owner # None => c \in wire /\ c.owner \notin owners
  <2> SUFFICES ASSUME NEW c \in wire', c.owner # None
               PROVE  c \in wire /\ c.owner \notin owners
    OBVIOUS
  <2>1. c \in wire \ OwnedBy(wire, owners) \/ \E d \in OwnedBy(wire, owners) : c = Orphan(d)
    BY DEF Detach
  <2>2. ~(\E d \in OwnedBy(wire, owners) : c = Orphan(d))
    BY <1>0 DEF OwnedBy
  <2> QED BY <2>1, <2>2 DEF OwnedBy
<1>2. \A a \in answers' : a \in answers /\ a.owner \notin owners
  BY DEF Detach, OwnedBy
<1>3. /\ \A c \in wire' : c.owner # None => Waiting(c.owner)'
      /\ \A a \in answers' : Waiting(a.owner)'
  BY <1>1, <1>2, OwnerTypes DEF OneInFlight
<1> QED BY <1>1, <1>2, <1>3, OwnerTypes DEF OneInFlight

\* A call or an answer ends, and with it the waiting of its component.
LEMMA FlightEnds ==
  ASSUME TypeOK, OneInFlight, (\E a \in answers : Deliver(a)) \/ (\E o \in Owners : Lose(o))
  PROVE  /\ OneInFlight'
         /\ \A o \in Owners : Lose(o) => Quiet(o)'
<1>1. ASSUME NEW o \in Owners, NEW phase \in {"idle", "settling"}, EndCall(o, phase)
      PROVE  \A x \in Owners : x # o /\ Waiting(x) => Waiting(x)'
  <2> SUFFICES ASSUME NEW x \in Owners, x # o, Waiting(x) PROVE Waiting(x)'
    OBVIOUS
  <2>1. /\ x[1] \in Pages /\ o[1] \in Pages /\ x = <<x[1], x[2]>> /\ o = <<o[1], o[2]>>
        /\ x[2] \in {"edit", "close"} \cup Places /\ (x \in Forms <=> x[2] \in Places)
        /\ o[2] \in {"edit", "close"} \cup Places /\ (o \in Forms <=> o[2] \in Places)
    BY OwnerKinds
  <2>2. CASE x[2] = "edit"
    BY <1>1, <2>1, <2>2 DEF EndCall, Waiting, TypeOK
  <2>3. CASE x[2] = "close"
    BY <1>1, <2>1, <2>3 DEF EndCall, Waiting, TypeOK
  <2>4. CASE x[2] \in Places
    BY <1>1, <2>1, <2>4, MarksAssumption DEF EndCall, Waiting, TypeOK
  <2> QED BY <2>1, <2>2, <2>3, <2>4
<1>2. ASSUME NEW a \in answers, Deliver(a)
      PROVE  OneInFlight'
  <2>1. a.owner \in Owners /\ Waiting(a.owner)
    BY OwnerTypes DEF OneInFlight
  <2>2. PICK phase \in {"idle", "settling"} : EndCall(a.owner, phase)
    BY <1>2 DEF Deliver
  <2>3. wire' = wire /\ answers' = answers \ {a}
    BY <1>2 DEF Deliver
  <2>4. Quiet(a.owner)'
    BY <2>3 DEF OneInFlight, Quiet
  <2>5. /\ \A c \in wire' : c.owner # None => Waiting(c.owner)'
        /\ \A b \in answers' : Waiting(b.owner)'
    BY <1>1, <2>1, <2>2, <2>3, <2>4, OwnerTypes DEF OneInFlight, Quiet
  <2>6. OneInFlight'
    BY <2>3, <2>5 DEF OneInFlight
  <2> QED BY <2>6
<1>3. ASSUME NEW o \in Owners, Lose(o)
      PROVE  OneInFlight' /\ Quiet(o)'
  <2>0. o # None
    BY MarksAssumption
  <2>1. EndCall(o, "idle")
    BY <1>3 DEF Lose
  <2>2. CASE \E c \in OwnedBy(wire, {o}) :
               /\ wire' \in {wire \ {c}, (wire \ {c}) \cup {Orphan(c)}}
               /\ UNCHANGED answers
    <3>1. PICK c \in wire : /\ c.owner = o /\ answers' = answers
                            /\ wire' \in {wire \ {c}, (wire \ {c}) \cup {Orphan(c)}}
      BY <2>2 DEF OwnedBy
    <3>2. Orphan(c).owner = None
      BY OrphanType DEF TypeOK
    <3>3. \A d \in wire' : d.owner # None => d \in wire /\ d # c
      BY <3>1, <3>2
    <3>4. Waiting(o) /\ Quiet(o)'
      BY <2>0, <3>1, <3>3 DEF OneInFlight, Quiet
    <3>5. /\ \A d \in wire' : d.owner # None => Waiting(d.owner)'
          /\ \A b \in answers' : Waiting(b.owner)'
      BY <1>1, <2>1, <3>1, <3>3, <3>4, OwnerTypes DEF OneInFlight, Quiet
    <3>6. OneInFlight'
      BY <3>1, <3>3, <3>5, OwnerTypes DEF OneInFlight
    <3> QED BY <3>4, <3>6
  <2>3. CASE \E a \in OwnedBy(answers, {o}) : answers' = answers \ {a} /\ UNCHANGED wire
    <3>1. PICK a \in answers : a.owner = o /\ answers' = answers \ {a} /\ wire' = wire
      BY <2>3 DEF OwnedBy
    <3>2. Waiting(o) /\ Quiet(o)'
      BY <3>1 DEF OneInFlight, Quiet
    <3>3. /\ \A c \in wire' : c.owner # None => Waiting(c.owner)'
          /\ \A b \in answers' : Waiting(b.owner)'
      BY <1>1, <2>1, <3>1, <3>2, OwnerTypes DEF OneInFlight, Quiet
    <3>4. OneInFlight'
      BY <3>1, <3>3 DEF OneInFlight
    <3> QED BY <3>2, <3>4
  <2> QED BY <1>3, <2>2, <2>3 DEF Lose
<1> QED BY <1>2, <1>3

LEMMA ArriveForms ==
  ASSUME TypeOK, NEW p \in Pages, Arrive(p), NEW f \in Forms
  PROVE  /\ f[1] # p => form'[f] = form[f]
         /\ f[1] = p /\ fetch[p].status = "CLOSED" => form'[f] = NoForm
         /\ f[1] = p /\ fetch[p].status # "CLOSED" =>
              form'[f].open = form[f].open /\ form'[f].intention = form[f].intention
              /\ form'[f].phase = Settled(form[f].phase)
<1>1. f = <<f[1], f[2]>> /\ f[2] \in Places /\ (f \in FormsOf(p) <=> f[1] = p)
  BY FormOwner DEF FormsOf
<1>2. form'[f] = IF f \in FormsOf(p) THEN Remounted(f, fetch[p]) ELSE form[f]
  BY DEF Arrive
<1> QED BY <1>1, <1>2 DEF Remounted, TypeOK, ProposalForm

LEMMA ArriveFlight ==
  ASSUME IInv, NEW p \in Pages, Arrive(p)
  PROVE  /\ OneInFlight'
         /\ \A c \in wire' : c.owner \in Forms => c \in wire
         /\ \A a \in answers' : a \in answers
         /\ fetch[p].status = "CLOSED" => \A f \in Forms : f[1] = p => Quiet(f)'
<1>0. TypeOK /\ OneInFlight
  BY DEF IInv
<1>1. ASSUME NEW o \in Owners, Waiting(o),
             fetch[p].status = "CLOSED" => o \notin FormsOf(p) \cup {<<p, "close">>}
      PROVE  Waiting(o)'
  <2>1. /\ o[1] \in Pages /\ o = <<o[1], o[2]>> /\ o[2] \in {"edit", "close"} \cup Places
        /\ o \in Forms <=> o[2] \in Places
    BY OwnerKinds
  <2>2. CASE o[2] = "edit"
    <3>1. edit[o[1]] # NoEdit /\ edit[o[1]].phase = "pending"
      BY <1>1, <2>2 DEF Waiting
    <3>2. edit'[o[1]] = edit[o[1]]
      BY <1>0, <2>1, <3>1 DEF Arrive, TypeOK
    <3> QED BY <2>2, <3>1, <3>2 DEF Waiting
  <2>3. CASE o[2] = "close"
    BY <1>0, <1>1, <2>1, <2>3 DEF Arrive, TypeOK, Waiting
  <2>4. CASE o[2] \in Places
    <3>1. o \in Forms /\ o[2] # "edit" /\ o[2] # "close" /\ (o \in FormsOf(p) <=> o[1] = p)
      BY <2>1, <2>4, MarksAssumption DEF FormsOf
    <3>2. form[o].open /\ form[o].phase = "pending"
      BY <1>1, <3>1 DEF Waiting
    <3>3. form'[o].open /\ form'[o].phase = "pending"
      BY <1>0, <1>1, <3>1, <3>2, ArriveForms DEF Settled
    <3> QED BY <3>1, <3>3 DEF Waiting
  <2> QED BY <2>1, <2>2, <2>3, <2>4
<1>2. CASE fetch[p].status = "CLOSED"
  <2>1. Detach(FormsOf(p) \cup {<<p, "close">>})
    BY <1>2 DEF Arrive
  <2>2. /\ OneInFlight'
        /\ \A c \in wire' : c.owner # None => c \in wire /\ c.owner \notin FormsOf(p) \cup {<<p, "close">>}
        /\ \A a \in answers' : a \in answers /\ a.owner \notin FormsOf(p) \cup {<<p, "close">>}
    BY <1>0, <1>1, <2>1, FlightDetached
  <2>3. \A f \in Forms : f # None /\ (f[1] = p => f \in FormsOf(p))
    BY FormOwner, MarksAssumption DEF FormsOf
  <2>4. \A f \in Forms : f[1] = p => Quiet(f)'
    BY <2>2, <2>3 DEF Quiet
  <2> QED BY <2>2, <2>3, <2>4
<1>3. CASE fetch[p].status # "CLOSED"
  <2>1. UNCHANGED <<wire, answers>>
    BY <1>3 DEF Arrive
  <2> QED BY <1>0, <1>1, <1>3, <2>1, FlightKept
<1> QED BY <1>2, <1>3

LEMMA UnmountFlight ==
  ASSUME IInv, NEW p \in Pages, FetchFails(p) \/ Leave(p)
  PROVE  /\ OneInFlight'
         /\ \A c \in wire' : c.owner \in Forms => c \in wire
         /\ \A a \in answers' : a \in answers
         /\ \A f \in Forms : /\ f[1] = p => Quiet(f)' /\ form'[f] = NoForm
                             /\ f[1] # p => form'[f] = form[f]
<1>0. TypeOK /\ OneInFlight /\ Unmount(p) /\ Detach(Slots(p))
  BY DEF IInv, FetchFails, Leave, Unmount
<1>1. \A f \in Forms : f # None /\ (f[1] = p <=> f \in FormsOf(p)) /\ (f[1] = p <=> f \in Slots(p))
  BY FormOwner, MarksAssumption DEF FormsOf, Slots
<1>2. ASSUME NEW o \in Owners \ Slots(p), Waiting(o)
      PROVE  Waiting(o)'
  <2>1. /\ o[1] \in Pages /\ o = <<o[1], o[2]>> /\ o[2] \in {"edit", "close"} \cup Places
        /\ o \in Forms <=> o[2] \in Places
    BY OwnerKinds
  <2>2. o[1] # p
    BY <2>1 DEF Slots
  <2>3. edit'[o[1]] = edit[o[1]] /\ closing'[o[1]] = closing[o[1]]
    BY <1>0, <2>1, <2>2 DEF Unmount, TypeOK
  <2>4. o \in Forms => form'[o] = form[o]
    BY <1>0, <1>1, <2>2 DEF Unmount
  <2> QED BY <1>2, <2>1, <2>3, <2>4 DEF Waiting
<1>3. /\ OneInFlight'
      /\ \A c \in wire' : c.owner # None => c \in wire /\ c.owner \notin Slots(p)
      /\ \A a \in answers' : a \in answers /\ a.owner \notin Slots(p)
  BY <1>0, <1>2, FlightDetached
<1>4. \A f \in Forms : /\ f[1] = p => Quiet(f)' /\ form'[f] = NoForm
                       /\ f[1] # p => form'[f] = form[f]
  BY <1>0, <1>1, <1>3 DEF Quiet, Unmount
<1> QED BY <1>1, <1>3, <1>4

\* What a form action does to the waiting of the components.
LEMMA FormFlight ==
  ASSUME IInv, NEW f \in Forms,
         OpenForm(f) \/ CloseForm(f) \/ ToggleLine(f) \/ Confirm(f) \/ AnotherProposal(f)
  PROVE  /\ OneInFlight'
         /\ ~Confirm(f) => UNCHANGED <<wire, answers>>
         /\ UNCHANGED <<edit, closing, view, fetch>> /\ \A g \in Forms : g # f => form'[g] = form[g]
<1>0. TypeOK /\ OneInFlight /\ form[f] \in ProposalForm /\ f \in Owners /\ f[2] # "edit" /\ f[2] # "close"
  BY FormOwner DEF IInv, TypeOK
<1>1. /\ UNCHANGED <<edit, closing, view, fetch>> /\ \A g \in Forms : g # f => form'[g] = form[g]
  BY <1>0 DEF OpenForm, CloseForm, ToggleLine, Confirm, AnotherProposal, TypeOK
<1>2. ASSUME NEW o \in Owners, Waiting(o), o = f => Waiting(f)'
      PROVE  Waiting(o)'
  BY <1>1, <1>2, OwnerKinds DEF Waiting
<1>3. ASSUME OpenForm(f) \/ CloseForm(f) \/ AnotherProposal(f)
      PROVE  ~Waiting(f)
  <2>1. CASE OpenForm(f)
    <3>1. f[2] \in Places /\ f = <<f[1], f[2]>>
      BY FormOwner
    <3>2. ~form[f].open
      BY <2>1, <3>1 DEF OpenForm, Modal
    <3> QED BY <1>0, <3>2 DEF Waiting
  <2>2. CASE CloseForm(f) \/ AnotherProposal(f)
    BY <1>0, <2>2 DEF CloseForm, AnotherProposal, Waiting, Busy
  <2> QED BY <1>3, <2>1, <2>2
<1>4. ToggleLine(f) => ~Waiting(f)
  BY <1>0 DEF ToggleLine, Waiting, Busy
<1>5. CASE ~Confirm(f)
  <2>1. UNCHANGED <<wire, answers>>
    BY <1>5 DEF OpenForm, CloseForm, ToggleLine, AnotherProposal
  <2> QED BY <1>0, <1>1, <1>2, <1>3, <1>4, <1>5, <2>1, FlightKept
<1>6. CASE Confirm(f)
  <2>1. PICK i \in Intention, c \in ServerCall :
           /\ i = IF form[f].intention = None THEN Command(f) ELSE form[f].intention
           /\ form' = [form EXCEPT ![f].intention = i, ![f].phase = "pending"]
           /\ wire' = wire \cup {c} /\ c.owner = f /\ c.kind = "propose"
           /\ c.expected = i.expected /\ c.body = i
    BY <1>6, ConfirmCall, Zenon DEF IInv
  <2>2. answers' = answers /\ form[f].open /\ form[f].phase = "idle"
    BY <1>6 DEF Confirm, Mutate
  <2>3. form'[f].open /\ form'[f].phase = "pending"
    BY <1>0, <2>1, <2>2 DEF TypeOK, ProposalForm
  <2>4. ~Waiting(f) /\ Waiting(f)'
    BY <1>0, <2>2, <2>3 DEF Waiting
  <2> QED BY <1>0, <1>1, <1>2, <1>6, <2>1, <2>2, <2>4, FlightStarts
<1> QED BY <1>5, <1>6

LEMMA EditFlight ==
  ASSUME IInv, NEW p \in Pages,
         BeginEdit(p) \/ EditLines(p) \/ CancelEdit(p) \/ SubmitEdit(p) \/ CloseRequest(p)
  PROVE  OneInFlight'
<1>0. TypeOK /\ OneInFlight /\ (edit[p] # NoEdit => edit[p] \in EditForm)
  BY DEF IInv, TypeOK
<1>1. ASSUME NEW o \in Owners
      PROVE  /\ o[1] \in Pages /\ o = <<o[1], o[2]>> /\ o[2] \in {"edit", "close"} \cup Places
             /\ o \in Forms <=> o[2] \in Places
  BY OwnerKinds
<1>2. CASE BeginEdit(p)
  <2>1. /\ UNCHANGED <<wire, answers, closing>> /\ edit[p] = NoEdit
        /\ \A q \in Pages : q # p => edit'[q] = edit[q]
        /\ \A f \in Forms : f # <<p, PanelPlace>> => form'[f] = form[f]
        /\ ~form[<<p, PanelPlace>>].open
    BY <1>0, <1>2, PlacesAssumption DEF BeginEdit, Modal, TypeOK
  <2>2. \A o \in Owners : Waiting(o) => Waiting(o)'
    <3> SUFFICES ASSUME NEW o \in Owners, Waiting(o) PROVE Waiting(o)'
      OBVIOUS
    <3>1. CASE o[2] = "edit"
      BY <1>1, <2>1, <3>1 DEF Waiting
    <3>2. CASE o[2] = "close"
      BY <1>1, <2>1, <3>2 DEF Waiting
    <3>3. CASE o[2] \in Places
      BY <1>1, <2>1, <3>3, MarksAssumption DEF Waiting
    <3> QED BY <1>1, <3>1, <3>2, <3>3
  <2> QED BY <1>0, <2>1, <2>2, FlightKept
<1>3. CASE EditLines(p) \/ CancelEdit(p)
  <2>1. /\ UNCHANGED <<wire, answers, closing, form>> /\ ~(edit[p].phase = "pending")
        /\ \A q \in Pages : q # p => edit'[q] = edit[q]
    BY <1>0, <1>3 DEF EditLines, CancelEdit, Busy, TypeOK
  <2>2. \A o \in Owners : Waiting(o) => Waiting(o)'
    BY <1>1, <2>1 DEF Waiting
  <2> QED BY <1>0, <2>1, <2>2, FlightKept
<1>4. CASE SubmitEdit(p)
  <2>1. PICK c \in ServerCall : wire' = wire \cup {c} /\ c.owner = <<p, "edit">>
    BY <1>0, <1>4, SubmitCall
  <2>2. /\ UNCHANGED <<answers, closing, form>> /\ ~(edit[p].phase = "pending")
        /\ edit'[p] \in EditForm /\ edit'[p].phase = "pending"
        /\ \A q \in Pages : q # p => edit'[q] = edit[q]
    <3>1. edit[p] \in EditForm /\ edit' = [edit EXCEPT ![p].phase = "pending"]
      BY <1>0, <1>4 DEF SubmitEdit
    <3> QED BY <1>0, <1>4, <3>1 DEF SubmitEdit, Mutate, Busy, TypeOK, EditForm, Phases
  <2>3. <<p, "edit">> \in Owners /\ ~Waiting(<<p, "edit">>) /\ Waiting(<<p, "edit">>)'
    BY <2>2, MarksAssumption DEF Owners, Slots, Waiting, NoEdit
  <2>4. \A o \in Owners : Waiting(o) => Waiting(o)'
    BY <1>1, <2>2 DEF Waiting
  <2> QED BY <1>0, <2>1, <2>2, <2>3, <2>4, FlightStarts
<1>5. CASE CloseRequest(p)
  <2>1. PICK c \in ServerCall : wire' = wire \cup {c} /\ c.owner = <<p, "close">>
    BY <1>0, <1>5, CloseCall
  <2>2. /\ UNCHANGED <<answers, edit, form>> /\ closing[p] # "pending" /\ closing'[p] = "pending"
        /\ \A q \in Pages : q # p => closing'[q] = closing[q]
    BY <1>0, <1>5 DEF CloseRequest, Mutate, Busy, TypeOK
  <2>3. <<p, "close">> \in Owners /\ ~Waiting(<<p, "close">>) /\ Waiting(<<p, "close">>)'
    BY <2>2 DEF Owners, Slots, Waiting
  <2>4. \A o \in Owners : Waiting(o) => Waiting(o)'
    BY <1>1, <2>2 DEF Waiting
  <2> QED BY <1>0, <2>1, <2>2, <2>3, <2>4, FlightStarts
<1> QED BY <1>2, <1>3, <1>4, <1>5

LEMMA ExecuteFlight ==
  ASSUME IInv, NEW c \in wire, Execute(c)
  PROVE  /\ OneInFlight' /\ UNCHANGED <<view, fetch, edit, closing, form>>
         /\ \A d \in wire' : d \in wire
         /\ \A a \in answers' : a \in answers \/ a.owner = c.owner
<1>1. PICK ok \in BOOLEAN :
        /\ wire' = wire \ {c}
        /\ answers' = answers \cup (IF c.owner = None THEN {} ELSE {[owner |-> c.owner, ok |-> ok]})
        /\ UNCHANGED <<view, fetch, edit, closing, form>>
  BY DEF Execute
<1>2. \A o \in Owners : Waiting(o) => Waiting(o)'
  BY <1>1 DEF Waiting
<1>3. \A a \in answers' : a \in answers \/ (a.owner = c.owner /\ c.owner # None)
  BY <1>1
<1>4. \A d \in wire' : d.owner # None => Waiting(d.owner)'
  BY <1>1, <1>2, OwnerTypes DEF IInv, OneInFlight
<1>5. \A a \in answers' : Waiting(a.owner)'
  BY <1>2, <1>3, OwnerTypes DEF IInv, OneInFlight
<1>6. \A a, b \in answers' : a.owner = b.owner => a = b
  BY <1>1 DEF IInv, OneInFlight
<1>7. \A d \in wire', a \in answers' : d.owner # a.owner
  BY <1>1, <1>3 DEF IInv, OneInFlight
<1>8. OneInFlight'
  BY <1>1, <1>4, <1>5, <1>6, <1>7 DEF IInv, OneInFlight
<1> QED BY <1>1, <1>3, <1>8

LEMMA Flight ==
  ASSUME IInv, [Next]_vars
  PROVE  OneInFlight'
<1>1. ASSUME NEW p \in Pages, Arrive(p) \/ FetchFails(p) \/ Leave(p)
      PROVE  OneInFlight'
  BY <1>1, ArriveFlight, UnmountFlight
<1>2. ASSUME NEW p \in Pages,
             BeginEdit(p) \/ EditLines(p) \/ CancelEdit(p) \/ SubmitEdit(p) \/ CloseRequest(p)
      PROVE  OneInFlight'
  BY <1>2, EditFlight
<1>3. ASSUME NEW f \in Forms,
             OpenForm(f) \/ CloseForm(f) \/ ToggleLine(f) \/ Confirm(f) \/ AnotherProposal(f)
      PROVE  OneInFlight'
  BY <1>3, FormFlight
<1>4. ASSUME NEW c \in wire, Execute(c)
      PROVE  OneInFlight'
  BY <1>4, ExecuteFlight
<1>5. ASSUME (\E a \in answers : Deliver(a)) \/ (\E o \in Owners : Lose(o))
      PROVE  OneInFlight'
  BY <1>5, FlightEnds DEF IInv
<1>6. ASSUME (\E p \in Pages : Refetch(p) \/ Read(p)) \/ CatalogueMoves \/ UNCHANGED vars
      PROVE  OneInFlight'
  <2>1. UNCHANGED <<wire, answers, edit, closing, form>>
    BY <1>6 DEF Refetch, Read, CatalogueMoves, vars
  <2> QED BY <2>1, FlightKept DEF IInv, Waiting
<1> QED BY <1>1, <1>2, <1>3, <1>4, <1>5, <1>6 DEF Next
-----------------------------------------------------------------------------
(* What stands behind the dialogs *)

LEMMA QuotationsGrow ==
  ASSUME [Next]_vars
  PROVE  quotations \subseteq quotations' /\ \A k : Made(k) => Made(k)'
BY ServerSteps DEF server, Qualify, ChangeStatus, Quote, Made

\* A dialog that rests, with nothing under way.
LEMMA AnsweredIdle ==
  ASSUME NEW f \in Forms, Quiet(f)', form'[f].phase = "idle"
  PROVE  FormIsAnswered(f)'
BY DEF FormIsAnswered, Quiet

\* A dialog that is left alone while its page may be read again.
LEMMA AnsweredKept ==
  ASSUME IInv, [Next]_vars, NEW f \in Forms,
         form'[f].intention = form[f].intention, form'[f].phase = form[f].phase,
         view'[f[1]] = view[f[1]],
         \A c \in wire' : c.owner = f => c \in wire,
         \A a \in answers' : a.owner = f => a \in answers,
         \/ fetch'[f[1]] = fetch[f[1]]
         \/ fetch'[f[1]] = Sent
         \/ fetch'[f[1]] = Copy
  PROVE  FormIsAnswered(f)'
<1>0. FormIsAnswered(f) /\ f[1] \in Pages
  BY FormOwner DEF IInv, FormsAnswered
<1>1. quotations \subseteq quotations' /\ \A k : Made(k) => Made(k)'
  BY QuotationsGrow
<1>2. /\ \A c \in wire' : c.owner = f => c.kind = "propose" /\ c.body = form'[f].intention
      /\ \A a \in answers' : a.owner = f /\ a.ok => Made(form[f].intention.key)'
  BY <1>0, <1>1 DEF FormIsAnswered, Made
<1>3. ASSUME form[f].phase = "settling"
      PROVE  /\ fetch'[f[1]] # None /\ Made(form[f].intention.key)'
             /\ fetch'[f[1]] # Sent =>
                  \E q \in quotations' : q.key = form[f].intention.key /\ fetch'[f[1]].version > q.from
  <2>1. /\ fetch[f[1]] # None /\ Made(form[f].intention.key)
        /\ fetch[f[1]] # Sent =>
             \E q \in quotations : q.key = form[f].intention.key /\ fetch[f[1]].version > q.from
    BY <1>0, <1>3 DEF FormIsAnswered
  <2>2. Copy # None /\ Copy.version = request.version
    BY CopyType DEF IInv, Copy
  <2>3. \E q \in quotations : q.key = form[f].intention.key /\ request.version > q.from
    <3>1. PICK q \in quotations : q.key = form[f].intention.key
      BY <2>1 DEF Made
    <3>2. q.from < request.version
      BY DEF IInv, QuotationsAreRight
    <3>3. q.from \in Nat /\ request.version \in Nat
      BY DEF IInv, TypeOK, Quotation, Row
    <3> QED BY <3>1, <3>2, <3>3
  <2>4. Made(form[f].intention.key)'
    BY <1>1, <2>1 DEF Made
  <2> QED BY <1>1, <2>1, <2>2, <2>3, <2>4, MarksAssumption
<1>4. form[f].phase = "success" =>
        \E q \in quotations' : q.key = form[f].intention.key /\ view[f[1]].version > q.from
  BY <1>0, <1>1 DEF FormIsAnswered
<1> QED BY <1>2, <1>3, <1>4 DEF FormIsAnswered, Made

LEMMA AnsweredArrive ==
  ASSUME IInv, [Next]_vars, NEW p \in Pages, Arrive(p)
  PROVE  FormsAnswered'
<1> SUFFICES ASSUME NEW f \in Forms PROVE FormIsAnswered(f)'
  BY DEF FormsAnswered
<1>0. f[1] \in Pages /\ FormIsAnswered(f) /\ f \in Owners /\ TypeOK
  BY FormOwner DEF IInv, FormsAnswered
<1>1. /\ \A c \in wire' : c.owner = f => c \in wire
      /\ \A a \in answers' : a.owner = f => a \in answers
      /\ fetch[p].status = "CLOSED" /\ f[1] = p => Quiet(f)'
  BY ArriveFlight
<1>2. CASE f[1] # p
  <2>1. form'[f] = form[f]
    BY <1>0, <1>2, ArriveForms
  <2>2. view'[f[1]] = view[f[1]] /\ fetch'[f[1]] = fetch[f[1]]
    BY <1>0, <1>2 DEF Arrive, TypeOK
  <2> QED BY <1>1, <2>1, <2>2, AnsweredKept
<1>3. CASE f[1] = p /\ fetch[p].status = "CLOSED"
  <2>1. form'[f] = NoForm
    BY <1>0, <1>3, ArriveForms
  <2> QED BY <1>1, <1>3, <2>1, Resting, AnsweredIdle
<1>4. CASE f[1] = p /\ fetch[p].status # "CLOSED"
  <2>1. form'[f].intention = form[f].intention /\ form'[f].phase = Settled(form[f].phase)
    BY <1>0, <1>4, ArriveForms
  <2>2. UNCHANGED <<request, quotations>> /\ view'[p] = fetch[p] /\ fetch[p] \in Shown
    BY <1>0 DEF Arrive, TypeOK
  <2>3. form[f].phase = "success" =>
          \E q \in quotations : q.key = form[f].intention.key /\ fetch[p].version > q.from
    <3> SUFFICES ASSUME form[f].phase = "success"
                 PROVE  \E q \in quotations : q.key = form[f].intention.key /\ fetch[p].version > q.from
      OBVIOUS
    <3>1. PICK q \in quotations : q.key = form[f].intention.key /\ view[p].version > q.from
      BY <1>0, <1>4 DEF FormIsAnswered
    <3>2. view[p] # None
      BY <1>4, Resting DEF IInv, FormsAreRight, FormIsRight
    <3>3. view[p].version <= fetch[p].version
      BY <2>2, <3>2, MarksAssumption DEF IInv, FetchesAreRight
    <3>4. view[p].version \in Nat /\ fetch[p].version \in Nat /\ q.from \in Nat
      BY <1>0, <2>2, <3>2, OpenPage DEF TypeOK, Shown, Quotation
    <3> QED BY <3>1, <3>3, <3>4
  <2>4. form[f].phase = "settling" =>
          \E q \in quotations : q.key = form[f].intention.key /\ fetch[p].version > q.from
    BY <1>0, <1>4, <2>2, MarksAssumption DEF FormIsAnswered
  <2>5. form'[f].phase = "success" => form[f].phase \in {"settling", "success"}
    BY <2>1 DEF Settled
  <2>6. form'[f].phase # "settling"
    BY <2>1 DEF Settled
  <2>7. /\ \A c \in wire' : c.owner = f => c.kind = "propose" /\ c.body = form'[f].intention
        /\ \A a \in answers' : a.owner = f /\ a.ok => Made(form[f].intention.key)'
    BY <1>0, <1>1, <2>1, <2>2 DEF FormIsAnswered, Made
  <2> QED BY <1>4, <2>1, <2>2, <2>3, <2>4, <2>5, <2>6, <2>7 DEF FormIsAnswered, Made
<1> QED BY <1>2, <1>3, <1>4

LEMMA AnsweredUnmount ==
  ASSUME IInv, [Next]_vars, NEW p \in Pages, FetchFails(p) \/ Leave(p)
  PROVE  FormsAnswered'
<1> SUFFICES ASSUME NEW f \in Forms PROVE FormIsAnswered(f)'
  BY DEF FormsAnswered
<1>1. /\ \A c \in wire' : c.owner = f => c \in wire
      /\ \A a \in answers' : a.owner = f => a \in answers
      /\ f[1] = p => Quiet(f)' /\ form'[f] = NoForm
      /\ f[1] # p => form'[f] = form[f]
  BY UnmountFlight
<1>2. CASE f[1] # p
  <2>1. view'[f[1]] = view[f[1]] /\ fetch'[f[1]] = fetch[f[1]]
    BY <1>2, FormOwner DEF FetchFails, Leave, IInv, TypeOK
  <2> QED BY <1>1, <1>2, <2>1, AnsweredKept
<1>3. CASE f[1] = p
  BY <1>1, <1>3, Resting, AnsweredIdle
<1> QED BY <1>2, <1>3

LEMMA AnsweredUsed ==
  ASSUME IInv, [Next]_vars, NEW f \in Forms,
         OpenForm(f) \/ CloseForm(f) \/ ToggleLine(f) \/ Confirm(f) \/ AnotherProposal(f)
  PROVE  FormsAnswered'
<1> SUFFICES ASSUME NEW g \in Forms PROVE FormIsAnswered(g)'
  BY DEF FormsAnswered
<1>0. /\ form[f] \in ProposalForm /\ form \in [Forms -> ProposalForm] /\ TypeOK /\ OneInFlight
      /\ f \in Owners /\ f[2] # "edit" /\ f[2] # "close" /\ f[2] \in Places /\ f = <<f[1], f[2]>>
  BY FormOwner DEF IInv, TypeOK
<1>1. /\ ~Confirm(f) => UNCHANGED <<wire, answers>>
      /\ UNCHANGED <<view, fetch>> /\ \A x \in Forms : x # f => form'[x] = form[x]
  BY FormFlight
<1>2. CASE f # g
  <2>1. /\ \A c \in wire' : c.owner = g => c \in wire
        /\ \A a \in answers' : a.owner = g => a \in answers
    <3>1. CASE Confirm(f)
      <4>1. PICK i \in Intention, c \in ServerCall :
           /\ i = IF form[f].intention = None THEN Command(f) ELSE form[f].intention
           /\ form' = [form EXCEPT ![f].intention = i, ![f].phase = "pending"]
           /\ wire' = wire \cup {c} /\ c.owner = f /\ c.kind = "propose"
           /\ c.expected = i.expected /\ c.body = i
        BY <3>1, ConfirmCall, Zenon DEF IInv
      <4> QED BY <1>2, <3>1, <4>1 DEF Confirm, Mutate
    <3> QED BY <1>1, <3>1
  <2> QED BY <1>1, <1>2, <2>1, AnsweredKept
<1>3. CASE f = g /\ OpenForm(f)
  <2>1. UNCHANGED <<wire, answers>>
    BY <1>3 DEF OpenForm
  <2>2. CASE form[f].intention = None
    <3>1. form'[f].phase = "idle"
      <4>1. form'[f] = [Captured(f[1]) EXCEPT !.open = TRUE]
        BY <1>0, <1>3, <2>2 DEF OpenForm
      <4> QED BY <4>1 DEF Captured
    <3>2. ~Waiting(f)
      BY <1>0, <1>3 DEF OpenForm, Modal, Waiting
    <3> QED BY <1>0, <1>3, <2>1, <3>1, <3>2, NotWaiting, AnsweredIdle DEF Quiet
  <2>3. CASE form[f].intention # None
    <3>1. form'[f] = [form[f] EXCEPT !.open = TRUE]
      BY <1>0, <1>3, <2>3 DEF OpenForm
    <3> QED BY <1>0, <1>1, <1>3, <2>1, <3>1, AnsweredKept DEF ProposalForm
  <2> QED BY <2>2, <2>3
<1>4. CASE f = g /\ CloseForm(f)
  <2>1. UNCHANGED <<wire, answers>>
    BY <1>4 DEF CloseForm
  <2>2. CASE form[f].intention = None
    <3>1. form'[f] = NoForm /\ ~Waiting(f)
      BY <1>0, <1>4, <2>2 DEF CloseForm, Waiting, Busy
    <3> QED BY <1>0, <1>4, <2>1, <3>1, NotWaiting, Resting, AnsweredIdle DEF Quiet
  <2>3. CASE form[f].intention # None
    <3>1. form'[f] = [form[f] EXCEPT !.open = FALSE]
      BY <1>0, <1>4, <2>3 DEF CloseForm
    <3> QED BY <1>0, <1>1, <1>4, <2>1, <3>1, AnsweredKept DEF ProposalForm
  <2> QED BY <2>2, <2>3
<1>5. CASE f = g /\ ToggleLine(f)
  <2>1. PICK l \in DOMAIN view[f[1]].lines :
          form' = [form EXCEPT ![f].selected =
                     IF l \in form[f].selected THEN form[f].selected \ {l} ELSE form[f].selected \cup {l}]
    BY <1>0, <1>5 DEF ToggleLine
  <2>2. form'[f].intention = form[f].intention /\ form'[f].phase = form[f].phase
    BY <1>0, <2>1 DEF ProposalForm
  <2>3. UNCHANGED <<wire, answers>>
    BY <1>5 DEF ToggleLine
  <2> QED BY <1>1, <1>5, <2>2, <2>3, AnsweredKept
<1>6. CASE f = g /\ Confirm(f)
  <2>1. PICK i \in Intention, c \in ServerCall :
           /\ i = IF form[f].intention = None THEN Command(f) ELSE form[f].intention
           /\ form' = [form EXCEPT ![f].intention = i, ![f].phase = "pending"]
           /\ wire' = wire \cup {c} /\ c.owner = f /\ c.kind = "propose"
           /\ c.expected = i.expected /\ c.body = i
    BY <1>6, ConfirmCall, Zenon DEF IInv
  <2>2. form'[f].intention = i /\ form'[f].phase = "pending"
    BY <1>0, <2>1 DEF ProposalForm
  <2>3. ~Waiting(f) /\ answers' = answers
    BY <1>0, <1>6 DEF Confirm, Mutate, Waiting
  <2>4. Quiet(f)
    BY <1>0, <2>3, NotWaiting
  <2> QED BY <1>6, <2>1, <2>2, <2>3, <2>4 DEF FormIsAnswered, Quiet
<1>7. CASE f = g /\ AnotherProposal(f)
  <2>1. form'[f].phase = "idle" /\ ~Waiting(f)
    <3>1. form'[f] = [Captured(f[1]) EXCEPT !.open = TRUE]
      BY <1>0, <1>7 DEF AnotherProposal
    <3> QED BY <1>0, <1>7, <3>1 DEF Captured, AnotherProposal, Waiting, Busy
  <2>2. UNCHANGED <<wire, answers>>
    BY <1>7 DEF AnotherProposal
  <2> QED BY <1>0, <1>7, <2>1, <2>2, NotWaiting, AnsweredIdle DEF Quiet
<1> QED BY <1>2, <1>3, <1>4, <1>5, <1>6, <1>7

LEMMA AnsweredEdited ==
  ASSUME IInv, [Next]_vars, NEW p \in Pages,
         BeginEdit(p) \/ EditLines(p) \/ CancelEdit(p) \/ SubmitEdit(p) \/ CloseRequest(p)
  PROVE  FormsAnswered'
<1> SUFFICES ASSUME NEW f \in Forms PROVE FormIsAnswered(f)'
  BY DEF FormsAnswered
<1>0. TypeOK /\ OneInFlight /\ f \in Owners /\ f[2] # "edit" /\ f[2] # "close" /\ f = <<f[1], f[2]>>
  BY FormOwner DEF IInv
<1>1. UNCHANGED <<view, fetch, answers>>
  BY DEF BeginEdit, EditLines, CancelEdit, SubmitEdit, CloseRequest, Mutate
<1>2. CASE BeginEdit(p)
  <2>1. UNCHANGED <<wire, answers>> /\ (f # <<p, PanelPlace>> => form'[f] = form[f])
    BY <1>0, <1>2 DEF BeginEdit, TypeOK
  <2>2. CASE f # <<p, PanelPlace>>
    BY <1>1, <2>1, <2>2, AnsweredKept
  <2>3. CASE f = <<p, PanelPlace>>
    <3>1. form'[f] = NoForm /\ ~form[f].open
      BY <1>0, <1>2, <2>3, PlacesAssumption DEF BeginEdit, Modal, TypeOK
    <3>2. Quiet(f)
      BY <1>0, <3>1, NotWaiting DEF Waiting
    <3> QED BY <2>1, <3>1, <3>2, Resting, AnsweredIdle DEF Quiet
  <2> QED BY <2>2, <2>3
<1>3. CASE EditLines(p) \/ CancelEdit(p)
  BY <1>1, <1>3, AnsweredKept DEF EditLines, CancelEdit
<1>4. CASE SubmitEdit(p)
  <2>1. PICK c \in ServerCall : wire' = wire \cup {c} /\ c.owner = <<p, "edit">>
    BY <1>0, <1>4, SubmitCall
  <2>2. c.owner # f
    BY <1>0, <2>1
  <2> QED BY <1>1, <1>4, <2>1, <2>2, AnsweredKept DEF SubmitEdit
<1>5. CASE CloseRequest(p)
  <2>1. PICK c \in ServerCall : wire' = wire \cup {c} /\ c.owner = <<p, "close">>
    BY <1>0, <1>5, CloseCall
  <2>2. c.owner # f
    BY <1>0, <2>1
  <2> QED BY <1>1, <1>5, <2>1, <2>2, AnsweredKept DEF CloseRequest
<1> QED BY <1>2, <1>3, <1>4, <1>5

LEMMA AnsweredExecuted ==
  ASSUME IInv, [Next]_vars, NEW c \in wire, Execute(c)
  PROVE  FormsAnswered'
<1> SUFFICES ASSUME NEW f \in Forms PROVE FormIsAnswered(f)'
  BY DEF FormsAnswered
<1>1. /\ UNCHANGED <<view, fetch, form>> /\ \A d \in wire' : d \in wire
      /\ \A a \in answers' : a \in answers \/ a.owner = c.owner
  BY ExecuteFlight
<1>2. CASE c.owner # f
  BY <1>1, <1>2, AnsweredKept
<1>3. CASE c.owner = f
  <2>1. Waiting(f) /\ f[2] # "edit" /\ f[2] # "close" /\ f # None
    BY <1>3, FormOwner, MarksAssumption DEF IInv, OneInFlight
  <2>2. form'[f].phase = "pending"
    BY <1>1, <2>1 DEF Waiting
  <2>3. c.kind = "propose" /\ c.body = form[f].intention
    BY <1>3 DEF IInv, FormsAnswered, FormIsAnswered
  <2>4. \A d \in wire' : d.owner # f
    BY <1>3, <2>1 DEF Execute, IInv, OneInFlight
  <2>5. PICK ok \in BOOLEAN :
          /\ IF ok THEN Qualify(c) \/ ChangeStatus(c) \/ Quote(c) \/ Replay(c) ELSE Refuse(c)
          /\ answers' = answers \cup {[owner |-> f, ok |-> ok]}
    BY <1>3, <2>1 DEF Execute
  <2>6. ok => Made(c.body.key)'
    <3>1. CASE Quote(c)
      <4>1. PICK q : quotations' = quotations \cup {q} /\ q.key = c.body.key
        BY <3>1, QuoteMakes
      <4> QED BY <4>1 DEF Made
    <3>2. CASE Replay(c)
      BY <3>2 DEF Replay, Replayed, Made, server
    <3>3. ~Qualify(c) /\ ~ChangeStatus(c)
      BY <2>3 DEF Qualify, ChangeStatus
    <3> QED BY <2>5, <3>1, <3>2, <3>3
  <2>7. \A a \in answers : a.owner # f
    BY <1>3 DEF IInv, OneInFlight
  <2>8. \A a \in answers' : a.owner = f /\ a.ok => Made(form[f].intention.key)'
    <3> SUFFICES ASSUME NEW a \in answers', a.owner = f, a.ok
                 PROVE  Made(form[f].intention.key)'
      OBVIOUS
    <3>1. a = [owner |-> f, ok |-> ok]
      BY <2>5, <2>7
    <3>2. ok
      BY <3>1
    <3> QED BY <1>1, <2>3, <2>6, <3>2 DEF Made
  <2> QED BY <2>2, <2>4, <2>8 DEF FormIsAnswered
<1> QED BY <1>2, <1>3

LEMMA AnsweredEnds ==
  ASSUME IInv, [Next]_vars, (\E a \in answers : Deliver(a)) \/ (\E o \in Owners : Lose(o))
  PROVE  FormsAnswered'
<1> SUFFICES ASSUME NEW f \in Forms PROVE FormIsAnswered(f)'
  BY DEF FormsAnswered
<1>0. TypeOK /\ OneInFlight /\ f[1] \in Pages /\ form[f] \in ProposalForm /\ form \in [Forms -> ProposalForm]
  BY FormOwner DEF IInv, TypeOK
<1>1. ASSUME NEW a \in answers, Deliver(a)
      PROVE  FormIsAnswered(f)'
  <2>1. a.owner \in Owners /\ a.owner[1] \in Pages
    BY <1>0, OwnerTypes, OwnerKinds
  <2>2. /\ wire' = wire /\ answers' = answers \ {a} /\ view' = view /\ UNCHANGED <<request, quotations>>
        /\ fetch' = IF a.ok THEN [fetch EXCEPT ![a.owner[1]] = Sent] ELSE fetch
        /\ EndCall(a.owner, IF a.ok THEN "settling" ELSE "idle")
    BY <1>1 DEF Deliver
  <2>3. CASE a.owner # f
    <3>1. form'[f] = form[f]
      BY <1>0, <2>2, <2>3 DEF EndCall
    <3>2. fetch'[f[1]] = fetch[f[1]] \/ fetch'[f[1]] = Sent
      BY <1>0, <2>1, <2>2 DEF TypeOK
    <3> QED BY <2>2, <3>1, <3>2, AnsweredKept
  <2>4. CASE a.owner = f
    <3>1. form'[f].intention = form[f].intention /\ form'[f].phase = IF a.ok THEN "settling" ELSE "idle"
      BY <1>0, <2>2, <2>4 DEF EndCall, ProposalForm
    <3>2. Quiet(f)'
      BY <1>0, <2>2, <2>4 DEF OneInFlight, Quiet
    <3>3. ASSUME a.ok
          PROVE  Made(form[f].intention.key)' /\ fetch'[f[1]] = Sent
      <4>1. Made(form[f].intention.key)
        BY <2>4, <3>3 DEF IInv, FormsAnswered, FormIsAnswered
      <4>2. Made(form[f].intention.key)'
        BY <2>2, <3>1, <4>1 DEF Made
      <4>3. fetch'[f[1]] = Sent
        BY <1>0, <2>2, <2>4, <3>3 DEF TypeOK
      <4> QED BY <4>2, <4>3
    <3> QED BY <3>1, <3>2, <3>3, MarksAssumption DEF FormIsAnswered, Quiet, Made
  <2> QED BY <2>3, <2>4
<1>2. ASSUME NEW o \in Owners, Lose(o)
      PROVE  FormIsAnswered(f)'
  <2>1. EndCall(o, "idle") /\ UNCHANGED <<view, fetch>>
    BY <1>2 DEF Lose
  <2>3. (\A c \in wire' : c.owner = f => c \in wire) /\ (\A a \in answers' : a \in answers)
    <3>1. \A c \in wire : Orphan(c).owner = None
      BY <1>0, OrphanType DEF TypeOK
    <3>2. f # None
      BY FormOwner, MarksAssumption
    <3>3. \A c \in wire' : c \in wire \/ \E d \in wire : c = Orphan(d)
      BY <1>2 DEF Lose, OwnedBy
    <3>4. answers' \subseteq answers
      BY <1>2 DEF Lose
    <3> QED BY <3>1, <3>2, <3>3, <3>4
  <2>4. CASE f # o
    <3>1. form'[f] = form[f]
      BY <1>0, <2>1, <2>4 DEF EndCall
    <3> QED BY <2>1, <2>3, <3>1, AnsweredKept
  <2>5. CASE f = o
    <3>1. form'[f].phase = "idle"
      BY <1>0, <2>1, <2>5 DEF EndCall, ProposalForm
    <3>2. Quiet(f)'
      BY <1>0, <1>2, <2>5, FlightEnds
    <3> QED BY <3>1, <3>2, AnsweredIdle
  <2> QED BY <2>4, <2>5
<1> QED BY <1>1, <1>2

LEMMA Answered ==
  ASSUME IInv, [Next]_vars
  PROVE  FormsAnswered'
<1>1. ASSUME NEW p \in Pages, Arrive(p) \/ FetchFails(p) \/ Leave(p)
      PROVE  FormsAnswered'
  BY <1>1, AnsweredArrive, AnsweredUnmount
<1>2. ASSUME NEW p \in Pages,
             BeginEdit(p) \/ EditLines(p) \/ CancelEdit(p) \/ SubmitEdit(p) \/ CloseRequest(p)
      PROVE  FormsAnswered'
  BY <1>2, AnsweredEdited
<1>3. ASSUME NEW f \in Forms,
             OpenForm(f) \/ CloseForm(f) \/ ToggleLine(f) \/ Confirm(f) \/ AnotherProposal(f)
      PROVE  FormsAnswered'
  BY <1>3, AnsweredUsed
<1>4. ASSUME NEW c \in wire, Execute(c)
      PROVE  FormsAnswered'
  BY <1>4, AnsweredExecuted
<1>5. ASSUME (\E a \in answers : Deliver(a)) \/ (\E o \in Owners : Lose(o))
      PROVE  FormsAnswered'
  BY <1>5, AnsweredEnds
<1>6. ASSUME (\E p \in Pages : Refetch(p) \/ Read(p)) \/ CatalogueMoves \/ UNCHANGED vars
      PROVE  FormsAnswered'
  <2> SUFFICES ASSUME NEW f \in Forms PROVE FormIsAnswered(f)'
    BY DEF FormsAnswered
  <2>1. UNCHANGED <<wire, answers, view, form>>
    BY <1>6 DEF Refetch, Read, CatalogueMoves, vars
  <2>2. fetch'[f[1]] = fetch[f[1]] \/ fetch'[f[1]] = Sent \/ fetch'[f[1]] = Copy
    BY <1>6, FormOwner DEF Refetch, Read, CatalogueMoves, vars, IInv, TypeOK
  <2> QED BY <2>1, <2>2, AnsweredKept
<1> QED BY <1>1, <1>2, <1>3, <1>4, <1>5, <1>6 DEF Next
-----------------------------------------------------------------------------
(* The theorems *)

LEMMA Initially == Init => IInv
<1> SUFFICES ASSUME Init PROVE IInv
  OBVIOUS
<1>1. IsFiniteSet(quotations) /\ Cardinality(quotations) = 0
  BY FS_EmptySet DEF Init
<1>2. /\ request \in Row /\ request.version = 0 /\ request.qualification = None
  BY DEF Init, Row, Statuses
<1>3. Copy \in Shown /\ Copy # None /\ CopyIsRight(Copy)
  <2>1. Effective = [l \in Lines |-> Asked]
    BY <1>2 DEF Init, Effective
  <2>2. [l \in Lines |-> Asked] \in [Lines -> Contents]
    BY ContentsAssumption
  <2>3. Effective \in Qualifications
    BY <2>1, <2>2, QualificationIntro
  <2>4. Copy \in Shown
    BY <1>1, <1>2, <2>3 DEF Copy, Shown, Row
  <2>5. CopyIsRight(Copy)
    BY <1>1, <1>2, <2>1 DEF Copy, CopyIsRight
  <2> QED BY <2>4, <2>5, MarksAssumption
<1>4. TypeOK
  BY <1>1, <1>2, <1>3, Resting DEF Init, TypeOK, Phases
<1>5. ViewsAreRight /\ FetchesAreRight /\ EditsAreRight /\ CallsAreRight
  BY <1>3 DEF Init, ViewsAreRight, FetchesAreRight, EditsAreRight, CallsAreRight
<1>6. FormsAreRight /\ FormsAnswered
  BY FormOwner, Resting
     DEF Init, FormsAreRight, FormIsRight, FormsAnswered, FormIsAnswered, NoForm
<1>7. OneInFlight /\ QuotationsAreRight
  BY DEF Init, OneInFlight, QuotationsAreRight, InformedProposals, QuotedAsSeen
<1> QED BY <1>4, <1>5, <1>6, <1>7 DEF IInv

LEMMA Invariance == Spec => []IInv
<1>1. IInv /\ [Next]_vars => IInv'
  <2> SUFFICES ASSUME IInv, [Next]_vars PROVE IInv'
    OBVIOUS
  <2>1. TypeOK'
    BY Types DEF IInv
  <2> QED BY <2>1, Views, Fetches, Edits, Calls, Dialogs, Flight, Answered, Quotations DEF IInv
<1> QED BY Initially, <1>1, PTL DEF Spec

\* The types hold in every reachable state, whatever the constants.
THEOREM TypeCorrect == Spec => []TypeOK
<1>1. IInv => TypeOK
  BY DEF IInv
<1> QED BY <1>1, Invariance, PTL

\* A quotation covers what its author saw (ProposalForm.submit,
\* CreateQuoteRequestProposal.execute).
THEOREM QuotationsAreAsSeen == Spec => []QuotedAsSeen
<1>1. IInv => QuotedAsSeen
  BY DEF IInv, QuotationsAreRight
<1> QED BY <1>1, Invariance, PTL

\* Every author of a quotation had been shown the ones before it
\* (QuoteRequest.editable under the row lock).
THEOREM ProposalsAreInformed == Spec => []InformedProposals
<1>1. IInv => InformedProposals
  BY DEF IInv, QuotationsAreRight
<1> QED BY <1>1, Invariance, PTL

\* A dialog that reports a quotation stands on a page that shows it (useCreateProposal).
THEOREM ConfirmationsAreShown == Spec => []ConfirmedIsShown
<1>1. IInv => ConfirmedIsShown
  BY DEF IInv, FormsAnswered, FormIsAnswered, ConfirmedIsShown
<1> QED BY <1>1, Invariance, PTL

\* A saved qualification replaces the one its author's form was opened on
\* (QualificationForm.submit, QuoteRequest.qualify).
THEOREM QualificationsAreKept == Spec => NoLostQualification
<1>1. IInv => \A c \in wire : (Execute(c) /\ Qualify(c)) => c.body.base = request.qualification
  BY DEF IInv, CallsAreRight, BaseIsRight, Qualify, Editable
<1> QED BY <1>1, Invariance, PTL DEF NoLostQualification

\* A repeated intention is answered by the quotation it made and changes nothing
\* (CreateQuoteRequestProposal.execute).
THEOREM RetriesAreHonoured == Spec => RetryIsHonoured
<1>1. ASSUME IInv, NEW c \in wire, c.kind = "propose", Made(c.body.key), Execute(c)
      PROVE  /\ UNCHANGED server
             /\ c.owner # None => \E a \in answers' \ answers : a.owner = c.owner /\ a.ok
  <2>1. PICK ok \in BOOLEAN :
          /\ IF ok THEN Qualify(c) \/ ChangeStatus(c) \/ Quote(c) \/ Replay(c) ELSE Refuse(c)
          /\ answers' = answers \cup (IF c.owner = None THEN {} ELSE {[owner |-> c.owner, ok |-> ok]})
    BY <1>1 DEF Execute
  <2>2. ok /\ Replay(c)
    BY <1>1, <2>1 DEF Qualify, ChangeStatus, Quote, Refuse, Replayed
  <2>3. \A a \in answers : a.owner # c.owner
    BY <1>1 DEF IInv, OneInFlight
  <2>4. c.owner # None => [owner |-> c.owner, ok |-> TRUE] \in answers' \ answers
    BY <2>1, <2>2, <2>3
  <2> QED BY <2>2, <2>4 DEF Replay
<1>2. IInv /\ [Next]_vars =>
        [\A c \in wire : (c.kind = "propose" /\ Made(c.body.key) /\ Execute(c)) =>
           /\ UNCHANGED server
           /\ c.owner # None => \E a \in answers' \ answers : a.owner = c.owner /\ a.ok]_vars
  BY <1>1
<1> QED BY <1>2, Invariance, PTL DEF Spec, RetryIsHonoured
=============================================================================
