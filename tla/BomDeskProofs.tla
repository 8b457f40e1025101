--------------------------- MODULE BomDeskProofs ---------------------------
(* What the pages of the compositions promise for any number of resources,
   components, texts, calls and events. *)
EXTENDS BomDesk, SequenceTheorems, FiniteSetTheorems, WellFoundedInduction, TLAPS

-----------------------------------------------------------------------------
(* Types *)

CallKinds == {"create", "replace", "clone", "delete"}
CallRows ==
  [kind : CallKinds, id : Nat, body : Compositions, draft : Nat, nth : Nat, live : BOOLEAN, gone : BOOLEAN]
AnswerRows == [call : CallRows, ok : BOOLEAN, id : Nat]

\* What is saved or deleted is there, or was; what is created is not yet.
Aimed(c) == IF c.kind \in {"replace", "delete"} THEN c.id \in Known ELSE c.id = 0

ServerTypes ==
  /\ rows \in Seq(BomRows \cup {None}) /\ lastPart \in Nat /\ active \subseteq Resources
  /\ material \in Materials /\ seen \in Materials /\ {material, seen} \subseteq past
NetTypes ==
  /\ wire \subseteq CallRows /\ answers \subseteq AnswerRows
  /\ \A c \in wire : Aimed(c)
ListTypes == cache # None => \A n \in DOMAIN cache : cache[n] \in Compositions \cup {None}
PageTypes ==
  /\ at \in {List, New, Elsewhere} \cup Known /\ going \in Nat \cup {None}
  /\ form \in Compositions /\ dirty \in BOOLEAN /\ alert \in BOOLEAN /\ touched \in BOOLEAN
  /\ busy \subseteq CallKinds
DraftTypes ==
  /\ stored \in Compositions \cup {None} /\ drafting \in Nat /\ unsure \subseteq Nat /\ meddled \in BOOLEAN
CountTypes == typed \in Nat /\ calls \in Nat /\ events \in Nat

TypeInv == ServerTypes /\ NetTypes /\ ListTypes /\ PageTypes /\ DraftTypes /\ CountTypes

LEMMA EmptyParts == <<>> \in Seq(PartRows)
BY EmptySeq

LEMMA OnePart ==
  ASSUME NEW r \in Resources, NEW unit \in Units \cup {None}, NEW offer \in Offers \cup {None}, NEW id \in Nat
  PROVE  <<Part(id, r, unit, offer)>> \in Seq(PartRows)
<1>1. Part(id, r, unit, offer) \in PartRows
  BY DEF Part, PartRows
<1>2. QED BY <1>1

LEMMA ContentTypes ==
  ASSUME NEW parts \in Seq(PartRows)
  PROVE  Blank \in Compositions /\ Whole(parts) \in Compositions /\ Others(parts) \in Compositions
BY EmptyParts, BoundsAssumption DEF Blank, Whole, Others, Content, Compositions

LEMMA Rows ==
  ASSUME ServerTypes
  PROVE  /\ Len(rows) \in Nat /\ Known = DOMAIN rows
         /\ \A n \in Known : n \in Nat /\ n # 0 /\ rows[n] \in BomRows \cup {None}
         /\ \A n \in Known : rows[n] # None => rows[n].content \in Compositions /\ rows[n].draft \in Nat
         /\ \A n : Parts(n) \in Seq(PartRows)
<1>1. /\ Len(rows) \in Nat /\ Known = DOMAIN rows
      /\ \A n \in Known : n \in Nat /\ n # 0 /\ rows[n] \in BomRows \cup {None}
  BY DEF ServerTypes, Known
<1>2. \A n \in Known : rows[n] # None => rows[n].content \in Compositions /\ rows[n].draft \in Nat
  BY <1>1 DEF BomRows
<1>3. \A n : Parts(n) \in Seq(PartRows)
  BY <1>2, EmptyParts DEF Parts, Compositions
<1>4. QED BY <1>1, <1>2, <1>3

\* Rows that are not found again are given identifiers; the rest stays.
LEMMA NumberedTypes ==
  ASSUME ServerTypes, NEW parts \in Seq(PartRows), NEW n
  PROVE  /\ Numbered(parts, n) \in Seq(PartRows) /\ DOMAIN Numbered(parts, n) = DOMAIN parts
         /\ Len(Numbered(parts, n)) = Len(parts)
         /\ \A i \in DOMAIN parts :
              /\ Numbered(parts, n)[i].resource = parts[i].resource /\ Numbered(parts, n)[i].unit = parts[i].unit
              /\ Numbered(parts, n)[i].offer = parts[i].offer
              /\ Found(parts[i], n) => Numbered(parts, n)[i] = parts[i]
         /\ lastPart + Fresh(parts, n, Len(parts)) \in Nat
<1>1. DOMAIN parts = 1..Len(parts) /\ Len(parts) \in Nat /\ \A i \in DOMAIN parts : parts[i] \in PartRows
  OBVIOUS
<1>2. \A i \in Nat : Fresh(parts, n, i) \in Nat
  <2>1. TAKE i \in Nat
  <2>2. IsFiniteSet(1..i)
    BY FS_Interval
  <2>3. IsFiniteSet({j \in 1..i : ~Found(parts[j], n)})
    BY <2>2, FS_Subset
  <2>4. QED BY <2>3, FS_CardinalityType DEF Fresh
<1>0. lastPart \in Nat
  BY DEF ServerTypes
<1>3. \A i \in Nat : lastPart + Fresh(parts, n, i) \in Nat
  BY <1>0, <1>2
<1>4. ASSUME NEW i \in DOMAIN parts
      PROVE  /\ Numbered(parts, n)[i] \in PartRows
             /\ Numbered(parts, n)[i].resource = parts[i].resource /\ Numbered(parts, n)[i].unit = parts[i].unit
             /\ Numbered(parts, n)[i].offer = parts[i].offer
             /\ Found(parts[i], n) => Numbered(parts, n)[i] = parts[i]
  BY <1>1, <1>3 DEF Numbered, PartRows
<1>5. Numbered(parts, n) = [i \in 1..Len(parts) |-> Numbered(parts, n)[i]]
  BY <1>1 DEF Numbered
<1>6. Numbered(parts, n) \in Seq(PartRows)
  BY <1>1, <1>4, <1>5
<1>7. lastPart + Fresh(parts, n, Len(parts)) \in Nat
  BY <1>1, <1>3
<1>8. QED BY <1>1, <1>4, <1>5, <1>6, <1>7

\* A save writes one row.
LEMMA SavedRow ==
  ASSUME ServerTypes, NEW n, n \in Known \/ n = Len(rows) + 1, NEW content \in Compositions, NEW d \in Nat,
         SaveBom(n, content, d)
  PROVE  /\ rows' \in Seq(BomRows \cup {None}) /\ lastPart' \in Nat
         /\ Known' = Known \cup {n}
         /\ rows'[n] = [content |-> [content EXCEPT !.parts = Numbered(content.parts, n)], draft |-> d]
         /\ rows'[n] \in BomRows /\ rows'[n] # None /\ rows'[n].draft = d
         /\ rows'[n].content.name = content.name /\ rows'[n].content.parts = Numbered(content.parts, n)
         /\ \A k \in Known \ {n} : rows'[k] = rows[k]
<1> DEFINE row == [content |-> [content EXCEPT !.parts = Numbered(content.parts, n)], draft |-> d]
<1>1. content.parts \in Seq(PartRows)
  BY DEF Compositions
<1>2. row \in BomRows
  BY <1>1, NumberedTypes DEF Compositions, BomRows
<1>3. lastPart' \in Nat
  BY <1>1, NumberedTypes DEF SaveBom
<1>4. rows' = IF n \in Known THEN [rows EXCEPT ![n] = row] ELSE Append(rows, row)
  BY DEF SaveBom, Row
<1>5. rows \in Seq(BomRows \cup {None}) /\ row \in BomRows \cup {None}
  BY <1>2 DEF ServerTypes
<1> HIDE DEF row
<1>8. rows' \in Seq(BomRows \cup {None}) /\ Known' = Known \cup {n} /\ rows'[n] = row
        /\ \A k \in Known \ {n} : rows'[k] = rows[k]
  <2>1. CASE n \in Known
    BY <1>4, <1>5, <2>1 DEF Known
  <2>2. CASE n \notin Known
    BY <1>4, <1>5, <2>2 DEF Known
  <2>3. QED BY <2>1, <2>2
<1>9. row # None
  BY <1>2, NoneAssumption
<1>10. row.draft = d /\ row.content.name = content.name /\ row.content.parts = Numbered(content.parts, n)
  BY DEF row, Compositions
<1>11. row = [content |-> [content EXCEPT !.parts = Numbered(content.parts, n)], draft |-> d]
  BY DEF row
<1>12. QED BY <1>2, <1>3, <1>8, <1>9, <1>10, <1>11

\* The offer of a component is its resource's, as the page read it, or was chosen for
\* the same resource before.
Suited(p, part) ==
  \/ p.offer = None
  \/ p.offer \in Offers /\ seen.owner[p.offer] = p.resource
  \/ p.offer = part.offer /\ p.resource = part.resource

\* What can be done to the components of the form.
Revised(parts, next) ==
  \/ next = parts
  \/ next = Append(parts, Part(0, None, None, None))
  \/ \E i \in DOMAIN parts : next = Without(parts, i)
  \/ \E i \in DOMAIN parts, p \in PartRows :
       p.id = parts[i].id /\ Suited(p, parts[i]) /\ next = [parts EXCEPT ![i] = p]

LEMMA WithoutPart ==
  ASSUME NEW S, NEW parts \in Seq(S), NEW i \in DOMAIN parts
  PROVE  /\ Without(parts, i) \in Seq(S) /\ DOMAIN Without(parts, i) = 1..Len(parts) - 1
         /\ \A j \in DOMAIN Without(parts, i) :
              /\ (IF j < i THEN j ELSE j + 1) \in DOMAIN parts
              /\ Without(parts, i)[j] = parts[IF j < i THEN j ELSE j + 1]
<1>1. DOMAIN parts = 1..Len(parts) /\ Len(parts) \in Nat /\ Len(parts) - 1 \in Nat
  OBVIOUS
<1>2. \A j \in 1..Len(parts) - 1 : (IF j < i THEN j ELSE j + 1) \in DOMAIN parts
  BY <1>1
<1>3. \A j \in 1..Len(parts) - 1 : Without(parts, i)[j] = parts[IF j < i THEN j ELSE j + 1]
  BY <1>1 DEF Without
<1>4. \A j \in 1..Len(parts) - 1 : Without(parts, i)[j] \in S
  BY <1>1, <1>2, <1>3
<1>5. Without(parts, i) = [j \in 1..Len(parts) - 1 |-> Without(parts, i)[j]]
  BY DEF Without
<1>6. QED BY <1>1, <1>2, <1>3, <1>4, <1>5

LEMMA RevisedTypes ==
  ASSUME NEW parts \in Seq(PartRows), NEW next, Revised(parts, next)
  PROVE  next \in Seq(PartRows)
<1>1. Part(0, None, None, None) \in PartRows
  BY DEF Part, PartRows
<1>2. Append(parts, Part(0, None, None, None)) \in Seq(PartRows)
  BY <1>1
<1>3. \A i \in DOMAIN parts : Without(parts, i) \in Seq(PartRows)
  BY WithoutPart
<1>4. \A i \in DOMAIN parts, p \in PartRows : [parts EXCEPT ![i] = p] \in Seq(PartRows)
  OBVIOUS
<1>5. QED BY <1>2, <1>3, <1>4 DEF Revised

LEMMA FieldsTypes ==
  ASSUME form \in Compositions, ServerTypes, NEW k \in Nat, NEW next \in Fields(k)
  PROVE  next \in Compositions /\ Revised(form.parts, next.parts)
<1>1. form.parts \in Seq(PartRows) /\ \A i \in DOMAIN form.parts : form.parts[i] \in PartRows
  BY DEF Compositions
<1>2. ASSUME NEW parts \in Seq(PartRows)
      PROVE  [form EXCEPT !.parts = parts] \in Compositions /\ [form EXCEPT !.parts = parts].parts = parts
  BY DEF Compositions
<1>3. SUFFICES Revised(form.parts, next.parts)
                 /\ \/ next \in Compositions
                    \/ \E parts : Revised(form.parts, parts) /\ next = [form EXCEPT !.parts = parts]
  BY <1>1, <1>2, RevisedTypes
<1>4. CASE next \in InformationFields(k) \cup ProductionFields(k) \cup ActivityFields(k)
  BY <1>4 DEF InformationFields, ProductionFields, ActivityFields, Compositions, Revised
<1>5. ASSUME NEW parts, Revised(form.parts, parts), next = [form EXCEPT !.parts = parts]
      PROVE  Revised(form.parts, next.parts)
  BY <1>1, <1>2, <1>5, RevisedTypes
<1>6. CASE next \in AddComponent \cup RemoveComponent
  BY <1>5, <1>6 DEF AddComponent, RemoveComponent, Revised
\* A component is changed at its place.
<1>7. ASSUME NEW i \in DOMAIN form.parts, NEW p \in PartRows, p.id = form.parts[i].id, Suited(p, form.parts[i]),
             next = [form EXCEPT !.parts[i] = p]
      PROVE  Revised(form.parts, next.parts) /\ \E parts : Revised(form.parts, parts) /\ next = [form EXCEPT !.parts = parts]
  <2>1. next = [form EXCEPT !.parts = [form.parts EXCEPT ![i] = p]]
    BY <1>7
  <2>2. Revised(form.parts, [form.parts EXCEPT ![i] = p])
    BY <1>7 DEF Revised
  <2>3. QED BY <1>5, <2>1, <2>2
<1>8. CASE next \in ChooseResource
  <2>1. PICK i \in DOMAIN form.parts, r \in active :
          next = [form EXCEPT !.parts[i] = Assigned(form.parts[i], r)]
    BY <1>8 DEF ChooseResource
  <2>2. PICK p : p = Assigned(form.parts[i], r)
    OBVIOUS
  <2>3. r \in Resources /\ seen.units[r] \in Units \cup {None} /\ form.parts[i] \in PartRows
    BY <1>1 DEF ServerTypes, Materials
  <2>4. p \in PartRows /\ p.id = form.parts[i].id /\ p.offer = None
    BY <2>2, <2>3 DEF PartRows, Assigned
  <2>5. QED BY <1>7, <2>1, <2>2, <2>4 DEF Suited
<1>9. CASE next \in ChooseUnit
  <2>0. PICK i \in DOMAIN form.parts : \E u \in UnitsListed(form.parts[i].resource) :
          next = [form EXCEPT !.parts[i] = [form.parts[i] EXCEPT !.unit = u]]
    BY <1>9 DEF ChooseUnit
  <2>1. PICK u \in UnitsListed(form.parts[i].resource) : next = [form EXCEPT !.parts[i] = [form.parts[i] EXCEPT !.unit = u]]
    BY <2>0
  <2>2. PICK p : p = [form.parts[i] EXCEPT !.unit = u]
    OBVIOUS
  <2>3. form.parts[i] \in PartRows /\ form.parts[i].resource \in Resources \cup {None}
    BY <1>1 DEF PartRows
  <2>4. u \in Units
    BY <2>1, <2>3 DEF UnitsListed, ServerTypes, Materials
  <2>5. p \in PartRows /\ p.id = form.parts[i].id /\ p.offer = form.parts[i].offer /\ p.resource = form.parts[i].resource
    BY <2>2, <2>3, <2>4 DEF PartRows
  <2>6. QED BY <1>7, <2>1, <2>2, <2>5 DEF Suited
<1>10. CASE next \in ChooseOffer
  <2>0. PICK i \in DOMAIN form.parts : \E o \in OffersListed(form.parts[i].resource) :
          next = [form EXCEPT !.parts[i] = [form.parts[i] EXCEPT !.offer = o]]
    BY <1>10 DEF ChooseOffer
  <2>1. PICK o \in OffersListed(form.parts[i].resource) : next = [form EXCEPT !.parts[i] = [form.parts[i] EXCEPT !.offer = o]]
    BY <2>0
  <2>2. PICK p : p = [form.parts[i] EXCEPT !.offer = o]
    OBVIOUS
  <2>3. o \in Offers /\ seen.owner[o] = form.parts[i].resource /\ form.parts[i] \in PartRows
    BY <1>1 DEF OffersListed
  <2>4. p \in PartRows /\ p.id = form.parts[i].id /\ p.offer = o /\ p.resource = form.parts[i].resource
    BY <2>2, <2>3 DEF PartRows
  <2>5. QED BY <1>7, <2>1, <2>2, <2>3, <2>4 DEF Suited
<1>11. QED BY <1>4, <1>5, <1>6, <1>8, <1>9, <1>10 DEF Fields, ComponentFields

-----------------------------------------------------------------------------
(* Steps keep the types *)

\* Changing what is noted of a call leaves the call.
LEMMA CallFields ==
  ASSUME NEW c \in CallRows
  PROVE  /\ LET d == [c EXCEPT !.live = FALSE] IN
            /\ d \in CallRows /\ d.kind = c.kind /\ d.id = c.id /\ d.body = c.body /\ d.draft = c.draft
            /\ d.gone = c.gone /\ d.live = FALSE
         /\ LET d == [c EXCEPT !.gone = TRUE] IN
            /\ d \in CallRows /\ d.kind = c.kind /\ d.id = c.id /\ d.body = c.body /\ d.draft = c.draft
            /\ d.live = c.live /\ d.gone = TRUE
         /\ LET d == [c EXCEPT !.gone = TRUE, !.live = FALSE] IN
            /\ d \in CallRows /\ d.kind = c.kind /\ d.id = c.id /\ d.body = c.body /\ d.draft = c.draft
            /\ d.live = FALSE /\ d.gone = TRUE
BY DEF CallRows

LEMMA AnswerFields ==
  ASSUME NEW a \in AnswerRows
  PROVE  LET b == [a EXCEPT !.call.live = FALSE] IN
         b \in AnswerRows /\ b.call = [a.call EXCEPT !.live = FALSE] /\ b.ok = a.ok /\ b.id = a.id
<1>1. a.call \in CallRows
  BY DEF AnswerRows
<1>2. [a.call EXCEPT !.live = FALSE] \in CallRows
  BY <1>1, CallFields
<1>3. [a EXCEPT !.call.live = FALSE] = [a EXCEPT !.call = [a.call EXCEPT !.live = FALSE]]
  OBVIOUS
<1>4. QED BY <1>2, <1>3 DEF AnswerRows

LEMMA AnswerRow ==
  ASSUME NEW c \in CallRows, NEW ok \in BOOLEAN, NEW n \in Nat
  PROVE  /\ Answered(c, ok, n) \subseteq AnswerRows
         /\ \A a \in Answered(c, ok, n) : a.call = c /\ a.ok = ok /\ a.id = n /\ ~c.gone
BY DEF Answered, AnswerRows

LEMMA AimedStays ==
  ASSUME NEW c, Aimed(c), Known \subseteq Known'
  PROVE  Aimed(c)'
BY DEF Aimed

LEMMA MountTypes ==
  ASSUME TypeInv, NEW p, p \in {List, New, Elsewhere} \/ HasRow(p), NEW kept \in Compositions \cup {None},
         Mount(p, kept), rows' = rows
  PROVE  PageTypes' /\ drafting' \in Nat
<1>1. Fill(p, kept) \in Compositions
  <2>1. Blank \in Compositions
    BY EmptyParts, ContentTypes
  <2>2. HasRow(p) => rows[p].content \in Compositions
    BY Rows DEF TypeInv, HasRow
  <2>3. p \in Known => HasRow(p)
    BY MarksAssumption, Rows DEF TypeInv
  <2>4. QED BY <2>1, <2>2, <2>3 DEF Fill
<1>2. p \in {List, New, Elsewhere} \cup Known'
  BY DEF HasRow, Known
<1>3. /\ at' = p /\ going' = None /\ form' = Fill(p, kept)
      /\ dirty' = FALSE /\ alert' = FALSE /\ busy' = {} /\ touched' = FALSE
      /\ drafting' \in {calls + 1, drafting}
  BY DEF Mount
<1>4. PageTypes'
  BY <1>1, <1>2, <1>3 DEF PageTypes
<1>5. QED BY <1>3, <1>4 DEF TypeInv, DraftTypes, CountTypes

LEMMA UnansweredTypes ==
  ASSUME NetTypes
  PROVE  Unanswered \subseteq Nat
BY DEF NetTypes, Unanswered, CallRows, AnswerRows

\* Leaving a page only takes its calls out of its hands.
LEMMA DesertedCall ==
  ASSUME NetTypes
  PROVE  /\ \A c \in Deserted(wire) : c \in CallRows /\ Aimed(c) /\ ~c.live
              /\ \E d \in wire : /\ c.kind = d.kind /\ c.id = d.id /\ c.body = d.body /\ c.draft = d.draft
                                 /\ c.gone = d.gone /\ c.nth = d.nth
         /\ \A a \in DesertedAnswers(answers) : a \in AnswerRows /\ ~a.call.live
              /\ \E b \in answers : /\ a.ok = b.ok /\ a.id = b.id
                                           /\ a.call.kind = b.call.kind /\ a.call.draft = b.call.draft
<1>1. ASSUME NEW c \in Deserted(wire)
      PROVE  c \in CallRows /\ Aimed(c) /\ ~c.live
              /\ \E d \in wire : /\ c.kind = d.kind /\ c.id = d.id /\ c.body = d.body /\ c.draft = d.draft
                                 /\ c.gone = d.gone /\ c.nth = d.nth
  <2>1. PICK d \in wire : c = [d EXCEPT !.live = FALSE]
    BY DEF Deserted
  <2>2. d \in CallRows /\ Aimed(d)
    BY DEF NetTypes
  <2>3. /\ c \in CallRows /\ ~c.live /\ c.kind = d.kind /\ c.id = d.id /\ c.body = d.body /\ c.draft = d.draft
        /\ c.gone = d.gone /\ c.nth = d.nth
    BY <2>1, <2>2 DEF CallRows
  <2>4. QED BY <2>2, <2>3 DEF Aimed
<1>2. ASSUME NEW a \in DesertedAnswers(answers)
      PROVE  a \in AnswerRows /\ ~a.call.live
              /\ \E b \in answers : /\ a.ok = b.ok /\ a.id = b.id
                                           /\ a.call.kind = b.call.kind /\ a.call.draft = b.call.draft
  <2>1. PICK b \in answers : a = [b EXCEPT !.call.live = FALSE]
    BY DEF DesertedAnswers
  <2>2. b \in AnswerRows /\ b.call \in CallRows
    BY DEF NetTypes, AnswerRows
  <2>3. a \in AnswerRows /\ a.call = [b.call EXCEPT !.live = FALSE] /\ a.ok = b.ok /\ a.id = b.id
    BY <2>1, <2>2, AnswerFields
  <2>4. a.call.kind = b.call.kind /\ a.call.draft = b.call.draft /\ ~a.call.live
    BY <2>2, <2>3 DEF CallRows
  <2>5. QED BY <2>3, <2>4
<1>3. QED BY <1>1, <1>2

LEMMA NavigateTypes ==
  ASSUME TypeInv, NEW p, p \in {List, New, Elsewhere} \/ HasRow(p), NEW kept \in Compositions \cup {None},
         Navigate(p, kept), rows' = rows
  PROVE  PageTypes' /\ NetTypes' /\ drafting' \in Nat /\ unsure' \subseteq Nat
<1>1. PageTypes' /\ drafting' \in Nat
  BY MountTypes DEF Navigate
<1>2. unsure' \subseteq Nat
  BY UnansweredTypes DEF Navigate, TypeInv, DraftTypes
<1>3. NetTypes'
  <2>1. wire' \subseteq CallRows /\ answers' \subseteq AnswerRows /\ \A c \in wire' : Aimed(c)
    BY DesertedCall DEF Navigate, TypeInv
  <2>2. QED BY <2>1, AimedStays DEF NetTypes, Known
<1>4. QED BY <1>1, <1>2, <1>3

LEMMA ContentsTypes ==
  ASSUME ServerTypes
  PROVE  \A n \in DOMAIN Contents : Contents[n] \in Compositions \cup {None}
BY Rows DEF Contents

LEMMA ListsTypes ==
  ASSUME TypeInv, cache' \in Lists \cup {Contents, Listing, None, cache}
  PROVE  ListTypes'
BY ContentsTypes DEF Lists, Listing, ListTypes, TypeInv

LEMMA ServerStays ==
  ASSUME TypeInv, UNCHANGED server
  PROVE  ServerTypes' /\ Known' = Known
BY DEF TypeInv, ServerTypes, server, materials, Known

LEMMA NetStays ==
  ASSUME TypeInv, wire' \subseteq wire, answers' \subseteq answers, Known \subseteq Known'
  PROVE  NetTypes'
BY AimedStays DEF TypeInv, NetTypes

LEMMA CallTypes ==
  ASSUME TypeInv, NEW kind \in CallKinds, NEW id \in Nat, NEW body \in Compositions, Call(kind, id, body),
         IF kind \in {"replace", "delete"} THEN id \in Known ELSE id = 0
  PROVE  TypeInv'
<1> DEFINE c == [kind |-> kind, id |-> id, body |-> body, draft |-> IF kind = "create" THEN drafting ELSE 0,
                 nth |-> calls, live |-> TRUE, gone |-> FALSE]
<1>1. c \in CallRows /\ Aimed(c)
  BY DEF CallRows, Aimed, TypeInv, DraftTypes, CountTypes
<1>2. wire' = wire \cup {c} /\ busy' = busy \cup {kind} /\ calls' = calls + 1
        /\ UNCHANGED <<server, answers, cache, at, going, form, dirty, alert, touched, draft, typed, events>>
  BY DEF Call
<1> HIDE DEF c
<1>3. ServerTypes' /\ Known' = Known
  BY <1>2, ServerStays
<1>4. NetTypes'
  BY <1>1, <1>2, <1>3, AimedStays DEF TypeInv, NetTypes
<1>5. ListTypes' /\ PageTypes'
  BY <1>2, <1>3 DEF TypeInv, ListTypes, PageTypes
<1>6. DraftTypes' /\ CountTypes'
  BY <1>2 DEF TypeInv, DraftTypes, CountTypes, draft
<1>7. QED BY <1>3, <1>4, <1>5, <1>6 DEF TypeInv
LEMMA SaveTypes ==
  ASSUME TypeInv, NEW c \in wire, Save(c)
  PROVE  TypeInv'
<1> DEFINE n == IF c.id = 0 THEN Len(rows) + 1 ELSE c.id
<1>1. c \in CallRows /\ Aimed(c) /\ c.kind # "delete"
  BY DEF TypeInv, NetTypes, Save
<1>2. n \in Nat /\ (n \in Known \/ n = Len(rows) + 1)
  BY <1>1, Rows DEF Aimed, TypeInv, CallRows
<1>3. Len(rows) + 1 \notin Known
  BY Rows DEF TypeInv, Known
<1>4. (IF HasRow(n) THEN rows[n].draft ELSE c.draft) \in Nat /\ c.body \in Compositions
  BY <1>1, Rows DEF CallRows, TypeInv, HasRow
<1>5. \/ /\ Allowed(n, c.body)
         /\ SaveBom(n, c.body, IF HasRow(n) THEN rows[n].draft ELSE c.draft)
         /\ answers' = answers \cup Answered(c, TRUE, n)
      \/ UNCHANGED <<rows, lastPart>> /\ answers' = answers \cup Answered(c, FALSE, n)
  BY DEF Save
<1>6. /\ wire' = wire \ {c} /\ touched' = (touched \/ (c.id # 0 /\ c.id = at /\ ~c.live))
      /\ UNCHANGED <<materials, cache, at, going, form, dirty, alert, busy, draft, typed, calls, events>>
  BY DEF Save
<1> HIDE DEF n
<1>7. rows' \in Seq(BomRows \cup {None}) /\ lastPart' \in Nat /\ Known \subseteq Known'
  <2>1. CASE UNCHANGED <<rows, lastPart>>
    BY <2>1 DEF TypeInv, ServerTypes, Known
  <2>2. CASE SaveBom(n, c.body, IF HasRow(n) THEN rows[n].draft ELSE c.draft)
    BY <1>2, <1>4, <2>2, SavedRow DEF TypeInv
  <2>3. QED BY <1>5, <2>1, <2>2
<1>8. ServerTypes'
  BY <1>6, <1>7 DEF TypeInv, ServerTypes, materials
<1>9. answers' \subseteq AnswerRows
  BY <1>1, <1>2, <1>5, AnswerRow DEF TypeInv, NetTypes
<1>10. NetTypes'
  BY <1>6, <1>7, <1>9, AimedStays DEF TypeInv, NetTypes
<1>11. ListTypes' /\ PageTypes'
  BY <1>6, <1>7 DEF TypeInv, ListTypes, PageTypes
<1>12. DraftTypes' /\ CountTypes'
  BY <1>6 DEF TypeInv, DraftTypes, CountTypes, draft
<1>13. QED BY <1>8, <1>10, <1>11, <1>12 DEF TypeInv

LEMMA OthersTypes ==
  ASSUME TypeInv, NEW n \in Known, OtherSaves(n)
  PROVE  /\ TypeInv'
         /\ \E parts \in Seq(PartRows) :
              /\ SaveBom(n, Others(parts), rows[n].draft) /\ NameFree(Others(parts), n)
              /\ \A i \in DOMAIN parts : Acceptable(parts[i], n) /\ parts[i].offer = None
<1>1. PICK parts :
        /\ parts = <<>> \/ \E r \in active, u \in Units : parts = <<Part(0, r, u, None)>>
        /\ \A i \in DOMAIN parts : Acceptable(parts[i], n)
        /\ NameFree(Others(parts), n) /\ SaveBom(n, Others(parts), rows[n].draft)
  BY DEF OtherSaves
<1>2. parts \in Seq(PartRows)
  <2>1. \A r \in active, u \in Units : <<Part(0, r, u, None)>> \in Seq(PartRows)
    BY OnePart DEF TypeInv, ServerTypes
  <2>3. CASE parts = <<>>
    BY <2>3, EmptyParts
  <2>4. CASE \E r \in active, u \in Units : parts = <<Part(0, r, u, None)>>
    BY <2>1, <2>4
  <2>5. QED BY <1>1, <2>3, <2>4
<1>3. Others(parts) \in Compositions /\ rows[n].draft \in Nat
  BY <1>2, ContentTypes, Rows DEF OtherSaves, HasRow, TypeInv
<1>4. rows' \in Seq(BomRows \cup {None}) /\ lastPart' \in Nat /\ Known' = Known
  <2>1. ServerTypes /\ (n \in Known \/ n = Len(rows) + 1)
    BY DEF TypeInv
  <2>4. PICK body, d : body = Others(parts) /\ d = rows[n].draft
    OBVIOUS
  <2>2. body \in Compositions /\ d \in Nat /\ SaveBom(n, body, d)
    BY <1>1, <1>3, <2>4
  <2>3. rows' \in Seq(BomRows \cup {None}) /\ lastPart' \in Nat /\ Known' = Known \cup {n}
    BY <2>1, <2>2, SavedRow
  <2>5. QED BY <2>3
<1>5. /\ events' = events + 1 /\ touched' = (touched \/ n = at)
      /\ UNCHANGED <<materials, net, cache, at, going, form, dirty, alert, busy, draft, typed, calls>>
  BY DEF OtherSaves
<1>6. ServerTypes' /\ NetTypes'
  BY <1>4, <1>5, NetStays DEF TypeInv, ServerTypes, materials, net
<1>7. ListTypes' /\ PageTypes'
  BY <1>4, <1>5 DEF TypeInv, ListTypes, PageTypes
<1>8. DraftTypes' /\ CountTypes'
  BY <1>5 DEF TypeInv, DraftTypes, CountTypes, draft
<1>9. \A i \in DOMAIN parts : parts[i].offer = None
  BY <1>1 DEF Part
<1>10. QED BY <1>1, <1>2, <1>6, <1>7, <1>8, <1>9 DEF TypeInv

\* A composition goes.
LEMMA GoneTypes ==
  ASSUME TypeInv, NEW n \in Known, rows' = [rows EXCEPT ![n] = None], lastPart' = lastPart
  PROVE  /\ rows' \in Seq(BomRows \cup {None}) /\ lastPart' \in Nat /\ Known' = Known
         /\ rows'[n] = None /\ \A k \in Known \ {n} : rows'[k] = rows[k]
<1>1. rows \in Seq(BomRows \cup {None}) /\ lastPart \in Nat /\ n \in DOMAIN rows
  BY Rows DEF TypeInv, ServerTypes
<1>2. QED BY <1>1, Rows DEF TypeInv, Known

LEMMA DeleteTypes ==
  ASSUME TypeInv, NEW c \in wire, Delete(c)
  PROVE  TypeInv' /\ c.id \in Known
<1>1. c \in CallRows /\ c.id \in Known /\ c.id \in Nat
  BY DEF TypeInv, NetTypes, Delete, Aimed, CallRows
<1>2. /\ wire' = wire \ {c} /\ answers' = answers \cup Answered(c, HasRow(c.id), c.id)
      /\ rows' = [rows EXCEPT ![c.id] = None] /\ touched' = (touched \/ c.id = at)
      /\ UNCHANGED <<lastPart, materials, cache, at, going, form, dirty, alert, busy, draft, typed, calls, events>>
  BY DEF Delete
<1>3. rows' \in Seq(BomRows \cup {None}) /\ lastPart' \in Nat /\ Known' = Known
  <2>1. PICK n \in Known : n = c.id
    BY <1>1
  <2>2. rows' = [rows EXCEPT ![n] = None] /\ lastPart' = lastPart
    BY <1>2, <2>1
  <2>3. QED BY <2>2, GoneTypes
<1>4. ServerTypes'
  BY <1>2, <1>3 DEF TypeInv, ServerTypes, materials
<1>5. HasRow(c.id) \in BOOLEAN
  BY DEF HasRow
<1>6. answers' \subseteq AnswerRows
  BY <1>1, <1>2, <1>5, AnswerRow DEF TypeInv, NetTypes
<1>7. NetTypes'
  BY <1>2, <1>3, <1>6, AimedStays DEF TypeInv, NetTypes
<1>8. ListTypes' /\ PageTypes'
  BY <1>2, <1>3 DEF TypeInv, ListTypes, PageTypes
<1>9. DraftTypes' /\ CountTypes'
  BY <1>2 DEF TypeInv, DraftTypes, CountTypes, draft
<1>10. QED BY <1>1, <1>4, <1>7, <1>8, <1>9 DEF TypeInv

LEMMA OtherDeletesTypes ==
  ASSUME TypeInv, NEW n \in Known, OtherDeletes(n)
  PROVE  TypeInv'
<1>1. /\ events' = events + 1 /\ rows' = [rows EXCEPT ![n] = None] /\ touched' = (touched \/ n = at)
      /\ UNCHANGED <<lastPart, materials, net, cache, at, going, form, dirty, alert, busy, draft, typed, calls>>
  BY DEF OtherDeletes
<1>2. rows' \in Seq(BomRows \cup {None}) /\ lastPart' \in Nat /\ Known' = Known
  BY <1>1, GoneTypes
<1>3. ServerTypes' /\ NetTypes'
  BY <1>1, <1>2, NetStays DEF TypeInv, ServerTypes, materials, net
<1>4. ListTypes' /\ PageTypes'
  BY <1>1, <1>2 DEF TypeInv, ListTypes, PageTypes
<1>5. DraftTypes' /\ CountTypes'
  BY <1>1 DEF TypeInv, DraftTypes, CountTypes, draft
<1>6. QED BY <1>3, <1>4, <1>5 DEF TypeInv

\* Steps of the page that leave the server and what is asked of it.
LEMMA QuietTypes ==
  ASSUME TypeInv, UNCHANGED server, wire' \subseteq wire, answers' \subseteq answers,
         cache' \in Lists \cup {Contents, Listing, None, cache},
         /\ at' = at /\ going' \in Nat \cup {None} /\ form' \in Compositions
         /\ dirty' \in BOOLEAN /\ alert' \in BOOLEAN /\ touched' \in BOOLEAN /\ busy' \subseteq busy,
         DraftTypes', CountTypes'
  PROVE  TypeInv'
<1>1. ServerTypes' /\ Known' = Known
  BY ServerStays
<1>2. NetTypes'
  BY <1>1, NetStays
<1>3. ListTypes'
  BY ListsTypes
<1>4. PageTypes'
  BY <1>1 DEF TypeInv, PageTypes
<1>5. QED BY <1>1, <1>2, <1>3, <1>4 DEF TypeInv

\* Steps that open another page.
LEMMA LeaveTypes ==
  ASSUME TypeInv, UNCHANGED <<server, typed, calls, events>>, NEW p, p \in {List, New, Elsewhere} \/ HasRow(p),
         NEW kept \in Compositions \cup {None}, Navigate(p, kept),
         cache' \in Lists \cup {cache}, stored' \in Compositions \cup {None}, meddled' \in BOOLEAN
  PROVE  TypeInv'
<1>1. ServerTypes' /\ rows' = rows
  BY ServerStays DEF server
<1>2. PageTypes' /\ NetTypes' /\ drafting' \in Nat /\ unsure' \subseteq Nat
  BY <1>1, NavigateTypes
<1>3. ListTypes'
  BY ListsTypes
<1>4. QED BY <1>1, <1>2, <1>3 DEF TypeInv, DraftTypes, CountTypes
LEMMA CountKeeps ==
  ASSUME TypeInv, typed' \in {typed, typed + 1}, calls' \in {calls, calls + 1}, events' \in {events, events + 1}
  PROVE  CountTypes'
BY DEF TypeInv, CountTypes

LEMMA ReloadTypes ==
  ASSUME TypeInv, Reload
  PROVE  TypeInv'
<1> DEFINE p == IF at \in Known /\ ~HasRow(at) THEN Elsewhere ELSE at
<1>1. /\ events' = events + 1
      /\ wire' = {[c EXCEPT !.gone = TRUE, !.live = FALSE] : c \in wire} /\ answers' = {}
      /\ unsure' = unsure \cup Unanswered /\ Mount(p, stored) /\ cache' \in {Contents, None} /\ meddled' = FALSE
      /\ seen' = material /\ UNCHANGED <<rows, lastPart, active, material, past, stored, typed, calls>>
  BY DEF Reload
<1>2. p \in {List, New, Elsewhere} \/ HasRow(p)
  BY DEF TypeInv, PageTypes
<1> HIDE DEF p
<1>3. ServerTypes' /\ Known' = Known /\ rows' = rows
  BY <1>1 DEF TypeInv, ServerTypes, Known
<1>4. stored \in Compositions \cup {None}
  BY DEF TypeInv, DraftTypes
<1>5. PageTypes' /\ drafting' \in Nat
  BY <1>1, <1>2, <1>3, <1>4, MountTypes
<1>6. NetTypes'
  <2>1. \A c \in wire : c \in CallRows /\ Aimed(c)
    BY DEF TypeInv, NetTypes
  <2>2. ASSUME NEW c \in wire
        PROVE  [c EXCEPT !.gone = TRUE, !.live = FALSE] \in CallRows /\ Aimed([c EXCEPT !.gone = TRUE, !.live = FALSE])
    <3> DEFINE d == [c EXCEPT !.gone = TRUE, !.live = FALSE]
    <3>1. d \in CallRows /\ d.kind = c.kind /\ d.id = c.id
      BY <2>1 DEF CallRows
    <3> HIDE DEF d
    <3>2. Aimed(d)
      BY <2>1, <3>1 DEF Aimed
    <3>3. QED BY <3>1, <3>2 DEF d
  <2>3. wire' \subseteq CallRows /\ \A c \in wire' : Aimed(c)
    BY <1>1, <2>2
  <2>4. QED BY <1>1, <1>3, <2>3, AimedStays DEF NetTypes
<1>7. unsure' \subseteq Nat
  BY <1>1, UnansweredTypes DEF TypeInv, DraftTypes
<1>8. ListTypes'
  BY <1>1, ListsTypes
<1>11. CountTypes'
  BY <1>1, CountKeeps
<1>9. DraftTypes' /\ CountTypes'
  BY <1>1, <1>4, <1>5, <1>7, <1>11 DEF DraftTypes
<1>10. QED BY <1>3, <1>5, <1>6, <1>8, <1>9 DEF TypeInv

LEMMA TypingTypes ==
  ASSUME TypeInv, NEW next \in Fields(typed + 1), Type(next)
  PROVE  TypeInv'
<1>1. next \in Compositions
  BY FieldsTypes DEF TypeInv, PageTypes, CountTypes
<1>2. /\ typed' = typed + 1 /\ form' = next /\ dirty' = TRUE
      /\ stored' \in {next, stored} /\ unsure' \subseteq unsure \cup {drafting} /\ meddled' = FALSE
      /\ UNCHANGED <<server, net, cache, at, going, alert, busy, touched, drafting, calls, events>>
  BY DEF Type
<1>7. CountTypes'
  BY <1>2, CountKeeps
<1>3. DraftTypes' /\ CountTypes'
  BY <1>1, <1>2, <1>7 DEF TypeInv, DraftTypes
<1>4. UNCHANGED server /\ wire' \subseteq wire /\ answers' \subseteq answers /\ cache' = cache
  BY <1>2 DEF net
<1>5. /\ at' = at /\ going' \in Nat \cup {None} /\ form' \in Compositions
      /\ dirty' \in BOOLEAN /\ alert' \in BOOLEAN /\ touched' \in BOOLEAN /\ busy' \subseteq busy
  BY <1>1, <1>2 DEF TypeInv, PageTypes
<1>6. QED BY <1>3, <1>4, <1>5, QuietTypes

LEMMA SubmitTypes ==
  ASSUME TypeInv, Submit
  PROVE  TypeInv'
<1>1. form \in Compositions /\ 0 \in Nat
  BY DEF TypeInv, PageTypes
<1>2. CASE at = New
  <2>1. Call("create", 0, form)
    BY <1>2 DEF Submit
  <2>2. QED BY <1>1, <2>1, CallTypes DEF CallKinds
<1>3. CASE at # New
  <2>1. Call("replace", at, form) /\ at \in Known /\ at \in Nat
    BY <1>3, Rows DEF Submit, Editing, OnForm, TypeInv
  <2>2. QED BY <1>1, <2>1, CallTypes DEF CallKinds
<1>4. QED BY <1>2, <1>3

LEMMA ListCallTypes ==
  ASSUME TypeInv, NEW n \in Known, CloneBom(n) \/ DeleteBom(n)
  PROVE  TypeInv'
<1>1. n \in Nat /\ 0 \in Nat /\ Blank \in Compositions
  BY Rows, EmptyParts, ContentTypes DEF TypeInv
<1>2. CASE DeleteBom(n)
  BY <1>1, <1>2, CallTypes DEF DeleteBom, CallKinds
<1>3. CASE CloneBom(n)
  <2>1. cache[n] \in Compositions
    BY <1>3 DEF CloneBom, Shown, TypeInv, ListTypes
  <2>2. CreateBomClone(cache[n]) \in Compositions
    <3>1. PICK content \in Compositions : content = cache[n]
      BY <2>1
    <3>2. CopyName(content.name) \in Nat
      BY BoundsAssumption DEF CopyName, Compositions
    <3>3. QED BY <3>1, <3>2 DEF CreateBomClone, Compositions
  <2>3. QED BY <1>1, <1>3, <2>2, CallTypes DEF CloneBom, CallKinds
<1>4. QED BY <1>2, <1>3

\* What an answer does to the page and the draft.
LEMMA AnswerSteps ==
  ASSUME NEW a, Created(a) \/ Replaced(a) \/ Cloned(a) \/ Deleted(a) \/ Refused(a)
  PROVE  /\ UNCHANGED <<server, wire, at, form, alert, touched, drafting, unsure, typed, calls, events>>
         /\ answers' = answers \ {a} /\ busy' \in {busy, Released(a.call)}
         /\ cache' \in {Listing, cache} /\ dirty' \in {FALSE, dirty} /\ going' \in {a.id, going}
         /\ stored' \in {None, stored} /\ meddled' \in {meddled, (meddled \/ ~a.call.live)}
BY DEF Created, Replaced, Cloned, Deleted, Refused, draft

LEMMA AnswerTypes ==
  ASSUME TypeInv, NEW a \in answers, Created(a) \/ Replaced(a) \/ Cloned(a) \/ Deleted(a) \/ Refused(a)
  PROVE  TypeInv'
<1>1. a.id \in Nat /\ Released(a.call) \subseteq busy
  BY DEF TypeInv, NetTypes, AnswerRows, Released
<1>2. /\ UNCHANGED <<server, wire, at, form, alert, touched, drafting, unsure, typed, calls, events>>
      /\ answers' = answers \ {a} /\ busy' \in {busy, Released(a.call)}
      /\ cache' \in {Listing, cache} /\ dirty' \in {FALSE, dirty} /\ going' \in {a.id, going}
      /\ stored' \in {None, stored} /\ meddled' \in {meddled, (meddled \/ ~a.call.live)}
  BY AnswerSteps
<1>3. DraftTypes' /\ CountTypes'
  BY <1>2 DEF TypeInv, DraftTypes, CountTypes
<1>4. /\ at' = at /\ going' \in Nat \cup {None} /\ form' \in Compositions
      /\ dirty' \in BOOLEAN /\ alert' \in BOOLEAN /\ touched' \in BOOLEAN /\ busy' \subseteq busy
  BY <1>1, <1>2 DEF TypeInv, PageTypes
<1>5. QED BY <1>2, <1>3, <1>4, QuietTypes

\* What a loss does.
LEMMA LoseSteps ==
  ASSUME TypeInv, Lose
  PROVE  /\ UNCHANGED <<server, cache, at, going, form, dirty, alert, touched, stored, drafting, meddled, typed, calls>>
         /\ events' = events + 1 /\ busy' \subseteq busy /\ answers' \subseteq answers
         /\ \/ \E c \in wire : /\ ~c.gone /\ c \in CallRows /\ answers' = answers /\ busy' = Released(c)
                               /\ unsure' = unsure \cup {c.draft}
                               /\ wire' \in {wire \ {c}, (wire \ {c}) \cup {[c EXCEPT !.gone = TRUE]}}
            \/ \E a \in answers : /\ a \in AnswerRows /\ wire' = wire /\ answers' = answers \ {a}
                                  /\ busy' = Released(a.call) /\ unsure' = unsure \cup {a.call.draft}
<1>1. \A c : Released(c) \subseteq busy
  BY DEF Released
<1>2. /\ UNCHANGED <<server, cache, at, going, form, dirty, alert, touched, stored, drafting, meddled, typed, calls>>
      /\ events' = events + 1
  BY DEF Lose
<1>3. \/ \E c \in wire : /\ ~c.gone /\ answers' = answers /\ busy' = Released(c)
                         /\ unsure' = unsure \cup {c.draft}
                         /\ wire' \in {wire \ {c}, (wire \ {c}) \cup {[c EXCEPT !.gone = TRUE]}}
      \/ \E a \in answers : /\ wire' = wire /\ answers' = answers \ {a}
                            /\ busy' = Released(a.call) /\ unsure' = unsure \cup {a.call.draft}
  BY DEF Lose
<1>4. QED BY <1>1, <1>2, <1>3 DEF TypeInv, NetTypes

LEMMA LoseTypes ==
  ASSUME TypeInv, Lose
  PROVE  TypeInv'
<1>1. UNCHANGED <<server, cache, at, going, form, dirty, alert, touched, stored, drafting, meddled, typed, calls>>
        /\ events' = events + 1 /\ busy' \subseteq busy /\ answers' \subseteq answers
  BY LoseSteps
<1>2. ServerTypes' /\ Known' = Known
  BY <1>1, ServerStays
<1>3. NetTypes' /\ unsure' \subseteq Nat
  <2>1. CASE \E c \in wire : /\ ~c.gone /\ c \in CallRows /\ answers' = answers /\ busy' = Released(c)
                             /\ unsure' = unsure \cup {c.draft}
                             /\ wire' \in {wire \ {c}, (wire \ {c}) \cup {[c EXCEPT !.gone = TRUE]}}
    <3>1. PICK c \in wire : /\ ~c.gone /\ c \in CallRows /\ unsure' = unsure \cup {c.draft}
                            /\ wire' \in {wire \ {c}, (wire \ {c}) \cup {[c EXCEPT !.gone = TRUE]}}
      BY <2>1
    <3>2. c.draft \in Nat /\ Aimed(c) /\ [c EXCEPT !.gone = TRUE] \in CallRows /\ Aimed([c EXCEPT !.gone = TRUE])
      <4>1. Aimed(c)
        BY DEF TypeInv, NetTypes
      <4>2. c.draft \in Nat
        BY <3>1 DEF CallRows
      <4>3. QED BY <3>1, <4>1, <4>2, CallFields DEF Aimed
    <3>3. wire' \subseteq CallRows /\ \A d \in wire' : Aimed(d)
      BY <3>1, <3>2 DEF TypeInv, NetTypes
    <3>4. unsure' \subseteq Nat
      BY <3>1, <3>2 DEF TypeInv, DraftTypes
    <3>5. QED BY <1>1, <1>2, <3>3, <3>4, AimedStays DEF TypeInv, NetTypes
  <2>2. CASE \E a \in answers : /\ a \in AnswerRows /\ wire' = wire /\ answers' = answers \ {a}
                                /\ busy' = Released(a.call) /\ unsure' = unsure \cup {a.call.draft}
    <3>1. NetTypes'
      BY <1>1, <1>2, <2>2, NetStays
    <3>2. unsure' \subseteq Nat
      BY <2>2 DEF TypeInv, DraftTypes, AnswerRows, CallRows
    <3>3. QED BY <3>1, <3>2
  <2>3. QED BY <2>1, <2>2, LoseSteps
<1>4. ListTypes' /\ PageTypes'
  BY <1>1, <1>2 DEF TypeInv, ListTypes, PageTypes
<1>5. DraftTypes' /\ CountTypes'
  BY <1>1, <1>3 DEF TypeInv, DraftTypes, CountTypes
<1>6. QED BY <1>2, <1>3, <1>4, <1>5 DEF TypeInv

\* The resources and the offers change, or what the tab knows of them.
Moves ==
  /\ UNCHANGED <<rows, lastPart, net, cache, page, draft, typed, calls>>
  /\ events' \in {events, events + 1}
  /\ past \subseteq past' /\ ServerTypes'

LEMMA MovesTypes ==
  ASSUME TypeInv, Moves
  PROVE  TypeInv'
<1>1. UNCHANGED <<rows, lastPart, net, cache, page, draft, typed, calls>> /\ ServerTypes' /\ Known' = Known
  BY DEF Moves, Known
<1>2. NetTypes'
  BY <1>1, NetStays DEF net
<1>3. ListTypes' /\ PageTypes'
  BY <1>1 DEF TypeInv, ListTypes, PageTypes, page
<1>4. CountTypes'
  BY <1>1, CountKeeps DEF Moves
<1>5. DraftTypes'
  BY <1>1 DEF TypeInv, DraftTypes, draft
<1>6. QED BY <1>1, <1>2, <1>3, <1>4, <1>5 DEF TypeInv

LEMMA MaterialSteps ==
  ASSUME TypeInv, NEW r,
         (r \in Resources /\ (Deactivate(r) \/ ReviseUnit(r) \/ \E o \in Offers : Associate(o, r))) \/ ReadMaterials
  PROVE  Moves
<1>1. ServerTypes /\ None \notin Resources \cup Units
  BY MarksAssumption DEF TypeInv
<1>2. CASE Deactivate(r)
  BY <1>1, <1>2 DEF Deactivate, Moves, ServerTypes
<1>3. CASE ReadMaterials
  BY <1>1, <1>3 DEF ReadMaterials, Moves, ServerTypes
\* The new material is one.
<1>4. ASSUME NEW m \in Materials, Becomes(m), events' = events + 1,
             UNCHANGED <<rows, lastPart, active, seen, net, cache, page, draft, typed, calls>>
      PROVE  Moves
  BY <1>1, <1>4 DEF Becomes, Moves, ServerTypes
<1>5. CASE r \in Resources /\ ReviseUnit(r)
  <2>1. PICK u \in Units \cup {None} : Becomes([material EXCEPT !.units[r] = u])
    BY <1>5 DEF ReviseUnit
  <2>2. [material EXCEPT !.units[r] = u] \in Materials
    BY <1>1 DEF ServerTypes, Materials
  <2>3. QED BY <1>4, <1>5, <2>1, <2>2 DEF ReviseUnit
<1>6. CASE r \in Resources /\ \E o \in Offers : Associate(o, r)
  <2>1. PICK o \in Offers : Associate(o, r)
    BY <1>6
  <2>2. [material EXCEPT !.owner[o] = r] \in Materials
    BY <1>1, <1>6 DEF ServerTypes, Materials
  <2>3. QED BY <1>4, <2>1, <2>2 DEF Associate
<1>7. QED BY <1>2, <1>3, <1>5, <1>6

LEMMA StepTypes ==
  ASSUME TypeInv, [Next]_vars
  PROVE  TypeInv'
<1>0. /\ stored \in Compositions \cup {None} /\ List \in {List, New, Elsewhere} /\ meddled \in BOOLEAN
      /\ going \in Nat \cup {None} /\ form \in Compositions /\ dirty \in BOOLEAN /\ alert \in BOOLEAN
      /\ touched \in BOOLEAN
  BY DEF TypeInv, DraftTypes, PageTypes
<1>1. ASSUME NEW c \in wire, Save(c) \/ Delete(c)
      PROVE  TypeInv'
  BY <1>1, SaveTypes, DeleteTypes
<1>2. ASSUME NEW n \in Known, OtherSaves(n) \/ OtherDeletes(n) \/ CloneBom(n) \/ DeleteBom(n)
      PROVE  TypeInv'
  BY <1>2, OthersTypes, OtherDeletesTypes, ListCallTypes
<1>3. ASSUME NEW n \in Known, Follow(n)
      PROVE  TypeInv'
  <2>1. n \in Nat
    BY Rows DEF TypeInv
  <2>2. going' = n /\ UNCHANGED <<server, net, cache, at, form, dirty, alert, busy, touched, draft, typed, calls, events>>
    BY <1>3 DEF Follow
  <2>3. DraftTypes' /\ CountTypes'
    BY <2>2 DEF TypeInv, DraftTypes, CountTypes, draft
  <2>4. QED BY <1>0, <2>1, <2>2, <2>3, QuietTypes DEF net
<1>4. ASSUME NEW r, (r \in Resources /\ (Deactivate(r) \/ ReviseUnit(r) \/ \E o \in Offers : Associate(o, r))) \/ ReadMaterials
      PROVE  TypeInv'
  BY <1>4, MaterialSteps, MovesTypes
<1>5. ASSUME NEW p, Visit(p)
      PROVE  TypeInv'
  <2>1. /\ p \in {List, New, Elsewhere} /\ Navigate(p, stored) /\ meddled' = FALSE
        /\ cache' \in Lists \cup {cache} /\ stored' = stored
        /\ UNCHANGED <<server, typed, calls, events>>
    BY <1>5 DEF Visit
  <2>2. QED BY <1>0, <2>1, LeaveTypes
<1>6. CASE Refetch
  <2>1. cache' = Contents /\ UNCHANGED <<server, net, page, draft, typed, calls, events>>
    BY <1>6 DEF Refetch
  <2>2. DraftTypes' /\ CountTypes'
    BY <2>1 DEF TypeInv, DraftTypes, CountTypes, draft
  <2>3. QED BY <1>0, <2>1, <2>2, QuietTypes DEF net, page
<1>7. CASE Opened
  <2>1. UNCHANGED <<server, cache, stored, typed, calls, events>>
    BY <1>7 DEF Opened
  <2>2. CASE going = at /\ HasRow(at)
    <3>1. going' = None /\ UNCHANGED <<net, at, form, dirty, alert, busy, touched, drafting, unsure, meddled>>
      BY <1>7, <2>2 DEF Opened
    <3>2. DraftTypes' /\ CountTypes'
      BY <2>1, <3>1 DEF TypeInv, DraftTypes, CountTypes
    <3>3. QED BY <1>0, <2>1, <3>1, <3>2, QuietTypes DEF net
  <2>3. CASE ~(going = at /\ HasRow(at))
    <3>1. Navigate(IF HasRow(going) THEN going ELSE Elsewhere, stored) /\ meddled' = FALSE
      BY <1>7, <2>3 DEF Opened, Reopened
    <3> DEFINE p == IF HasRow(going) THEN going ELSE Elsewhere
    <3>2. p \in {List, New, Elsewhere} \/ HasRow(p)
      OBVIOUS
    <3> HIDE DEF p
    <3>3. Navigate(p, stored)
      BY <3>1 DEF p
    <3>4. QED BY <1>0, <2>1, <3>1, <3>2, <3>3, LeaveTypes
  <2>4. QED BY <2>2, <2>3
<1>8. CASE Reload
  BY <1>8, ReloadTypes
<1>9. ASSUME NEW next \in Fields(typed + 1), Type(next)
      PROVE  TypeInv'
  BY <1>9, TypingTypes
<1>10. CASE Submit
  BY <1>10, SubmitTypes
<1>11. CASE Cancel
  <2>1. UNCHANGED <<server, typed, calls, events>>
    BY <1>11 DEF Cancel
  <2>2. CASE stored # None
    <3>1. alert' = TRUE /\ UNCHANGED <<net, at, going, form, dirty, busy, touched, draft, cache>>
      BY <1>11, <2>2 DEF Cancel
    <3>2. DraftTypes' /\ CountTypes'
      BY <2>1, <3>1 DEF TypeInv, DraftTypes, CountTypes, draft
    <3>3. QED BY <1>0, <2>1, <3>1, <3>2, QuietTypes DEF net
  <2>3. CASE stored = None
    <3>1. Navigate(List, stored) /\ cache' \in Lists /\ UNCHANGED <<stored, meddled>>
      BY <1>11, <2>3 DEF Cancel
    <3>2. QED BY <1>0, <2>1, <3>1, LeaveTypes
  <2>4. QED BY <2>2, <2>3
<1>12. CASE CloseAlert
  <2>1. alert' = FALSE /\ UNCHANGED <<server, net, cache, at, going, form, dirty, busy, touched, draft, typed, calls, events>>
    BY <1>12 DEF CloseAlert
  <2>2. DraftTypes' /\ CountTypes'
    BY <2>1 DEF TypeInv, DraftTypes, CountTypes, draft
  <2>3. QED BY <1>0, <2>1, <2>2, QuietTypes DEF net
<1>13. CASE DeleteDraft
  <2>1. stored' = None /\ Navigate(List, None) /\ cache' \in Lists /\ UNCHANGED <<server, meddled, typed, calls, events>>
    BY <1>13 DEF DeleteDraft
  <2>2. QED BY <1>0, <2>1, LeaveTypes
<1>14. CASE KeepDraft
  <2>1. Navigate(List, stored) /\ cache' \in Lists /\ UNCHANGED <<server, stored, meddled, typed, calls, events>>
    BY <1>14 DEF KeepDraft
  <2>2. QED BY <1>0, <2>1, LeaveTypes
<1>15. CASE OtherTab
  <2>1. /\ events' = events + 1 /\ stored' \in {None, Others(<<>>)} /\ drafting' = calls + 1 /\ meddled' = TRUE
        /\ UNCHANGED <<server, net, cache, page, unsure, typed, calls>>
    BY <1>15 DEF OtherTab
  <2>2. CountTypes'
    BY <2>1, CountKeeps
  <2>3. Others(<<>>) \in Compositions
    BY EmptyParts, ContentTypes
  <2>4. DraftTypes'
    BY <2>1, <2>3 DEF TypeInv, DraftTypes, CountTypes
  <2>5. QED BY <1>0, <2>1, <2>2, <2>4, QuietTypes DEF net, page
<1>16. ASSUME NEW a \in answers, Created(a) \/ Replaced(a) \/ Cloned(a) \/ Deleted(a) \/ Refused(a)
       PROVE  TypeInv'
  BY <1>16, AnswerTypes
<1>17. CASE Lose
  BY <1>17, LoseTypes
<1>18. CASE UNCHANGED vars
  BY <1>18 DEF vars, server, materials, net, page, draft, TypeInv, ServerTypes, NetTypes, ListTypes, PageTypes, DraftTypes,
     CountTypes, Known, Aimed
<1>19. QED
  BY <1>1, <1>2, <1>3, <1>4, <1>5, <1>6, <1>7, <1>8, <1>9, <1>10, <1>11, <1>12, <1>13, <1>14, <1>15, <1>16, <1>17,
     <1>18 DEF Next

\* What is there at the start.
LEMMA Started ==
  ASSUME Init
  PROVE  /\ \A n \in Known : n = 1 /\ rows[n] \in BomRows /\ rows[n] # None /\ rows[n].draft = 0
              /\ rows[n].content.parts \in {<<>>} \cup {<<Priced(o)>> : o \in Offers}
         /\ stored \in {None, Others(<<>>)} \cup {Whole(<<Part(0, r, material.units[r], None)>>) : r \in Resources}
         /\ rows \in Seq(BomRows \cup {None}) /\ lastPart \in Nat
         /\ material \in Materials /\ past = {material} /\ seen = material /\ active = Resources
         /\ \A r \in Resources : material.units[r] \in Units
         /\ \A o \in Offers : material.owner[o] \in Resources
<1> DEFINE Given == {<<>>} \cup {<<Priced(o)>> : o \in Offers}
<1>0. /\ material \in Materials /\ past = {material} /\ seen = material /\ active = Resources
      /\ \A r \in Resources : material.units[r] \in Units
      /\ \A o \in Offers : material.owner[o] \in Resources
  BY DEF Init, Stocked, Materials
<1>1. Given \subseteq Seq(PartRows)
  <2>1. \A o \in Offers : <<Part(1, material.owner[o], material.units[material.owner[o]], o)>> \in Seq(PartRows)
    BY <1>0, OnePart
  <2>2. QED BY <2>1, EmptyParts DEF Priced
<1>2. CASE rows = <<>> /\ lastPart = 0 /\ stored \in {None} \cup {Whole(<<Part(0, r, material.units[r], None)>>) : r \in Resources}
  BY <1>0, <1>2, EmptySeq DEF Known
<1>3. CASE /\ rows \in {<<Row(Whole(<<>>), 0)>>} \cup {<<Row(Whole(<<Priced(o)>>), 0)>> : o \in Offers}
           /\ lastPart = 1 /\ stored \in {None, Others(<<>>)}
  <2>1. PICK parts \in Given : rows = <<Row(Whole(parts), 0)>>
    BY <1>3
  <2>2. Whole(parts) \in Compositions /\ Whole(parts).parts = parts
    BY <1>1, ContentTypes DEF Whole, Content
  <2>3. Row(Whole(parts), 0) \in BomRows /\ Row(Whole(parts), 0).draft = 0 /\ Row(Whole(parts), 0).content = Whole(parts)
    BY <2>2 DEF Row, BomRows
  <2> DEFINE row == Row(Whole(parts), 0)
  <2>4. row \in BomRows /\ row # None /\ row.draft = 0 /\ row.content.parts \in Given
    BY <2>2, <2>3, NoneAssumption
  <2> HIDE DEF row, Given
  <2>5. rows = <<row>>
    BY <2>1 DEF row
  <2>6. rows \in Seq(BomRows \cup {None}) /\ Known = {1} /\ rows[1] = row
    BY <2>4, <2>5 DEF Known
  <2>7. QED BY <1>0, <1>3, <2>4, <2>6 DEF Given
<1>4. QED BY <1>2, <1>3 DEF Init

LEMMA InitTypes == Init => TypeInv
<1> SUFFICES ASSUME Init PROVE TypeInv
  OBVIOUS
<1>1. /\ active = Resources /\ wire = {} /\ answers = {} /\ cache = Contents /\ at = List /\ going = None /\ form = Blank
      /\ dirty = FALSE /\ alert = FALSE /\ busy = {} /\ touched = FALSE /\ drafting = 1 /\ unsure = {} /\ meddled = FALSE
      /\ typed = 0 /\ calls = 0 /\ events = 0
  BY DEF Init
<1>2. ServerTypes
  BY <1>1, Started DEF ServerTypes
<1>3. \A r \in Resources : <<Part(0, r, material.units[r], None)>> \in Seq(PartRows)
  BY OnePart, Started
<1>4. stored \in Compositions \cup {None}
  BY <1>3, Started, ContentTypes, EmptyParts
<1>5. ListTypes
  BY <1>1, <1>2, ContentsTypes DEF ListTypes
<1>6. Blank \in Compositions
  BY ContentTypes, EmptyParts
<1>7. NetTypes /\ PageTypes /\ CountTypes
  BY <1>1, <1>6 DEF NetTypes, PageTypes, CountTypes
<1>8. DraftTypes
  BY <1>1, <1>4 DEF DraftTypes
<1>9. QED BY <1>2, <1>5, <1>7, <1>8 DEF TypeInv

(* The pages and the server hold compositions, calls and answers of their kinds,
   and what is saved or deleted is a composition that was there. *)
THEOREM TypeCorrect == Spec => []TypeInv
<1>1. Init => TypeInv
  BY InitTypes
<1>2. TypeInv /\ [Next]_vars => TypeInv'
  BY StepTypes
<1>3. QED BY <1>1, <1>2, PTL DEF Spec

-----------------------------------------------------------------------------
(* The kinds of steps *)

Stays ==
  /\ UNCHANGED <<server, net, at, form, dirty, busy, touched, draft, typed, calls, events>>
  /\ cache' \in Lists \cup {Contents, cache}
  /\ at = New => going' = going \/ going' # None

\* A page is left for another one; its draft may be thrown away.
Leaves(p) ==
  /\ UNCHANGED <<server, typed, calls, events>>
  /\ p \in {List, New, Elsewhere} \/ HasRow(p)
  /\ Navigate(p, stored') /\ cache' \in Lists \cup {cache}
  /\ stored' = stored \/ (stored' = None /\ p = List)
  /\ meddled' \in BOOLEAN /\ (p \in {List, Elsewhere} \/ meddled' = FALSE)

\* What the page asks of the server.
Asks(kind, id, body) ==
  /\ Call(kind, id, body)
  /\ \/ kind = "create" /\ id = 0 /\ body = form /\ at = New
     \/ kind = "replace" /\ id = at /\ at \in Known /\ body = form
     \/ /\ kind = "clone" /\ id = 0 /\ at = List /\ cache # None
        /\ \E n \in DOMAIN cache : cache[n] # None /\ body = CreateBomClone(cache[n])
     \/ kind = "delete" /\ id \in Known /\ at = List /\ body = Blank

LEMMA StepKinds ==
  ASSUME TypeInv, [Next]_vars
  PROVE  \/ \E c \in wire : Save(c) \/ Delete(c)
         \/ \E n \in Known : OtherSaves(n) \/ OtherDeletes(n)
         \/ Moves
         \/ Stays \/ (\E p : Leaves(p)) \/ Reload
         \/ \E next \in Fields(typed + 1) : Type(next)
         \/ \E kind, id, body : Asks(kind, id, body)
         \/ OtherTab
         \/ \E a \in answers : Created(a) \/ Replaced(a) \/ Cloned(a) \/ Deleted(a) \/ Refused(a)
         \/ Lose
<1>0. /\ meddled \in BOOLEAN /\ New \notin Known /\ List # New
      /\ \A n \in Known : n # None
  BY Rows, MarksAssumption DEF TypeInv, DraftTypes
<1>2. ASSUME NEW n \in Known, CloneBom(n) \/ DeleteBom(n)
      PROVE  \E kind, id, body : Asks(kind, id, body)
  <2>1. CASE CloneBom(n)
    <3>1. Asks("clone", 0, CreateBomClone(cache[n]))
      BY <2>1 DEF CloneBom, Shown, Asks
    <3>2. QED BY <3>1
  <2>2. CASE DeleteBom(n)
    <3>1. Asks("delete", n, Blank)
      BY <2>2 DEF DeleteBom, Shown, Asks
    <3>2. QED BY <3>1
  <2>3. QED BY <1>2, <2>1, <2>2
<1>3. ASSUME NEW n \in Known, Follow(n)
      PROVE  Stays
  BY <1>0, <1>3 DEF Follow, Stays
<1>4. ASSUME NEW r, (r \in Resources /\ (Deactivate(r) \/ ReviseUnit(r) \/ \E o \in Offers : Associate(o, r))) \/ ReadMaterials
      PROVE  Moves
  BY <1>4, MaterialSteps
<1>5. ASSUME NEW p, Visit(p)
      PROVE  Leaves(p)
  BY <1>5 DEF Visit, Leaves
<1>6. CASE Refetch
  BY <1>6 DEF Refetch, Stays, page
<1>7. CASE Opened
  <2>1. UNCHANGED <<server, cache, stored, typed, calls, events>>
    BY <1>7 DEF Opened
  <2>2. CASE going = at /\ HasRow(at)
    <3>1. UNCHANGED <<net, at, form, dirty, alert, busy, touched, drafting, unsure, meddled>> /\ at # New
      BY <1>0, <1>7, <2>2 DEF Opened, HasRow
    <3>2. Stays
      BY <2>1, <3>1 DEF Stays, draft
    <3>3. QED BY <3>2
  <2>3. CASE ~(going = at /\ HasRow(at))
    <3> DEFINE p == IF HasRow(going) THEN going ELSE Elsewhere
    <3>1. Navigate(p, stored) /\ meddled' = FALSE
      BY <1>7, <2>3 DEF Opened, Reopened
    <3>2. p \in {List, New, Elsewhere} \/ HasRow(p)
      OBVIOUS
    <3> HIDE DEF p
    <3>3. Leaves(p)
      BY <2>1, <3>1, <3>2 DEF Leaves
    <3>4. QED BY <3>3
  <2>4. QED BY <2>2, <2>3
<1>10. CASE Submit
  <2>1. CASE at = New
    <3>1. Asks("create", 0, form)
      BY <1>10, <2>1 DEF Submit, Asks
    <3>2. QED BY <3>1
  <2>2. CASE at # New
    <3>1. Asks("replace", at, form)
      BY <1>10, <2>2 DEF Submit, Editing, OnForm, Asks
    <3>2. QED BY <3>1
  <2>3. QED BY <2>1, <2>2
<1>11. CASE Cancel
  <2>1. UNCHANGED <<server, typed, calls, events>>
    BY <1>11 DEF Cancel
  <2>2. CASE stored # None
    <3>1. UNCHANGED <<net, at, going, form, dirty, busy, touched, draft, cache>>
      BY <1>11, <2>2 DEF Cancel
    <3>2. Stays
      BY <2>1, <3>1 DEF Stays
    <3>3. QED BY <3>2
  <2>3. CASE stored = None
    <3>1. Navigate(List, stored) /\ cache' \in Lists /\ UNCHANGED <<stored, meddled>>
      BY <1>11, <2>3 DEF Cancel
    <3>2. Leaves(List)
      BY <1>0, <2>1, <3>1 DEF Leaves
    <3>3. QED BY <3>2
  <2>4. QED BY <2>2, <2>3
<1>12. CASE CloseAlert
  BY <1>12 DEF CloseAlert, Stays
<1>13. CASE DeleteDraft
  <2>1. Leaves(List)
    BY <1>0, <1>13 DEF DeleteDraft, Leaves
  <2>2. QED BY <2>1
<1>14. CASE KeepDraft
  <2>1. Leaves(List)
    BY <1>0, <1>14 DEF KeepDraft, Leaves
  <2>2. QED BY <2>1
<1>18. CASE UNCHANGED vars
  BY <1>18 DEF vars, page, Stays
<1>19. QED
  BY <1>2, <1>3, <1>4, <1>5, <1>6, <1>7, <1>10, <1>11, <1>12, <1>13, <1>14, <1>18 DEF Next

-----------------------------------------------------------------------------
(* The offers of the components *)

\* The offer of each component has been its resource's in some material of the set.
FitParts(set, parts) ==
  \A i \in DOMAIN parts : parts[i].offer # None => \E m \in set : m.owner[parts[i].offer] = parts[i].resource
Fits(set, content) == FitParts(set, content.parts)

\* Offers fit wherever a composition is held: a save, a copy or a reading only moves it.
FitInv(set) ==
  /\ Fits(set, form)
  /\ \A n \in Known : rows[n] # None => Fits(set, rows[n].content)
  /\ cache # None => \A n \in DOMAIN cache : cache[n] # None => Fits(set, cache[n])
  /\ stored # None => Fits(set, stored)
  /\ \A c \in wire : Fits(set, c.body)

\* What there has been of the material stays.
LEMMA PastStays ==
  ASSUME TypeInv, [Next]_vars
  PROVE  past \subseteq past'
<1>1. ASSUME NEW c \in wire, Save(c) \/ Delete(c)
      PROVE  past' = past
  BY <1>1 DEF Save, Delete, materials
<1>2. ASSUME NEW n \in Known, OtherSaves(n) \/ OtherDeletes(n)
      PROVE  past' = past
  BY <1>2 DEF OtherSaves, OtherDeletes, materials
<1>3. ASSUME NEW p, Leaves(p)
      PROVE  past' = past
  BY <1>3 DEF Leaves, server, materials
<1>4. ASSUME NEW next, Type(next)
      PROVE  past' = past
  BY <1>4 DEF Type, server, materials
<1>5. ASSUME NEW kind, NEW id, NEW body, Asks(kind, id, body)
      PROVE  past' = past
  BY <1>5 DEF Asks, Call, server, materials
<1>6. ASSUME NEW a, Created(a) \/ Replaced(a) \/ Cloned(a) \/ Deleted(a) \/ Refused(a)
      PROVE  past' = past
  BY <1>6, AnswerSteps DEF server, materials
<1>7. ASSUME Stays \/ Reload \/ OtherTab \/ Lose
      PROVE  past' = past
  BY <1>7 DEF Stays, Reload, OtherTab, Lose, server, materials
<1>8. QED BY <1>1, <1>2, <1>3, <1>4, <1>5, <1>6, <1>7, StepKinds DEF Moves

LEMMA BlankFits == ASSUME NEW set PROVE Fits(set, Blank) /\ Fits(set, Others(<<>>))
BY DEF Fits, FitParts, Blank, Others, Content

LEMMA RevisedFits ==
  ASSUME NEW set, seen \in set, NEW parts \in Seq(PartRows), FitParts(set, parts), NEW next, Revised(parts, next)
  PROVE  FitParts(set, next)
<1>1. CASE next = parts
  BY <1>1
<1>2. CASE next = Append(parts, Part(0, None, None, None))
  <2>1. DOMAIN next = 1..Len(parts) + 1 /\ \A i \in DOMAIN next : (i \in DOMAIN parts /\ next[i] = parts[i]) \/ next[i] = Part(0, None, None, None)
    BY <1>2
  <2>2. QED BY <2>1 DEF FitParts, Part
<1>3. CASE \E i \in DOMAIN parts : next = Without(parts, i)
  <2>1. PICK i \in DOMAIN parts : next = Without(parts, i)
    BY <1>3
  <2>2. \A j \in DOMAIN next : \E k \in DOMAIN parts : next[j] = parts[k]
    BY <2>1, WithoutPart
  <2>3. QED BY <2>2 DEF FitParts
<1>4. CASE \E i \in DOMAIN parts, p \in PartRows :
             p.id = parts[i].id /\ Suited(p, parts[i]) /\ next = [parts EXCEPT ![i] = p]
  BY <1>4 DEF FitParts, Suited
<1>5. QED BY <1>1, <1>2, <1>3, <1>4 DEF Revised

LEMMA SavedFits ==
  ASSUME NEW set, ServerTypes, NEW n, n \in Known \/ n = Len(rows) + 1, NEW content \in Compositions, NEW d \in Nat,
         SaveBom(n, content, d), Fits(set, content), \A k \in Known : rows[k] # None => Fits(set, rows[k].content)
  PROVE  \A k \in Known' : rows'[k] # None => Fits(set, rows'[k].content)
<1>1. content.parts \in Seq(PartRows)
  BY DEF Compositions
<1>2. [content EXCEPT !.parts = Numbered(content.parts, n)].parts = Numbered(content.parts, n)
  BY DEF Compositions
<1>3. FitParts(set, Numbered(content.parts, n))
  BY <1>1, NumberedTypes DEF Fits, FitParts
<1>4. /\ Known' = Known \cup {n} /\ rows'[n] = [content |-> [content EXCEPT !.parts = Numbered(content.parts, n)], draft |-> d]
      /\ \A k \in Known \ {n} : rows'[k] = rows[k]
  BY SavedRow
<1> DEFINE kept == [content EXCEPT !.parts = Numbered(content.parts, n)]
<1>7. rows'[n].content = kept /\ Fits(set, kept)
  BY <1>2, <1>3, <1>4 DEF Fits
<1>5. Fits(set, rows'[n].content)
  BY <1>7
<1>6. QED BY <1>4, <1>5

\* What is shown is what is held.
LEMMA ShownFits ==
  ASSUME TypeInv, NEW set, FitInv(set), UNCHANGED rows
  PROVE  /\ \A p : \A kept \in {None, stored} :
              (p \in {List, New, Elsewhere} \/ HasRow(p)) /\ Mount(p, kept) => Fits(set, form')
         /\ cache' \in Lists \cup {Contents, Listing, None, cache} =>
              (cache' # None => \A n \in DOMAIN cache' : cache'[n] # None => Fits(set, cache'[n]))
<1>1. ASSUME NEW p, NEW kept, Mount(p, kept), kept \in {None, stored},
             p \in {List, New, Elsewhere} \/ HasRow(p)
      PROVE  Fits(set, form')
  <2>1. form' = Fill(p, kept)
    BY <1>1 DEF Mount
  <2>2. Fits(set, stored) \/ stored = None
    BY DEF FitInv
  <2>3. HasRow(p) => p \in Nat /\ Fits(set, rows[p].content)
    BY Rows DEF FitInv, HasRow, TypeInv
  <2>4. p \in Known => HasRow(p)
    BY <1>1, MarksAssumption, Rows DEF TypeInv
  <2>5. Fits(set, Fill(p, kept))
    BY <1>1, <2>2, <2>3, <2>4, BlankFits, MarksAssumption DEF Fill
  <2>6. QED BY <2>1, <2>5
<1>2. ASSUME cache' \in Lists \cup {Contents, Listing, None, cache}, cache' # None, NEW n \in DOMAIN cache', cache'[n] # None
      PROVE  Fits(set, cache'[n])
  BY <1>2 DEF Lists, Listing, Contents, FitInv
<1>3. QED BY <1>1, <1>2

LEMMA StepFits ==
  ASSUME TypeInv, NEW set, seen \in set, FitInv(set), [Next]_vars
  PROVE  FitInv(set)'
<1>0. /\ \A c \in wire : c \in CallRows /\ Aimed(c) /\ c.body \in Compositions /\ c.id \in Nat /\ c.draft \in Nat
      /\ form \in Compositions /\ form.parts \in Seq(PartRows)
  BY DEF TypeInv, NetTypes, CallRows, PageTypes, Compositions
\* A save writes what its call carries; nothing else of the tab changes.
<1>1. ASSUME NEW n, n \in Known \/ n = Len(rows) + 1, NEW content \in Compositions, NEW d \in Nat,
             SaveBom(n, content, d), Fits(set, content), wire' \subseteq wire, UNCHANGED <<form, cache, stored>>
      PROVE  FitInv(set)'
  <2>1. \A k \in Known' : rows'[k] # None => Fits(set, rows'[k].content)
    BY <1>1, SavedFits DEF FitInv, TypeInv
  <2>2. QED BY <1>1, <2>1 DEF FitInv, Fits
<1>2. ASSUME \A k \in Known' : rows'[k] # None => k \in Known /\ rows'[k] = rows[k],
             wire' \subseteq wire, UNCHANGED <<form, cache, stored>>
      PROVE  FitInv(set)'
  BY <1>2 DEF FitInv, Fits
<1>3. ASSUME NEW c \in wire, Save(c)
      PROVE  FitInv(set)'
  <2> DEFINE n == IF c.id = 0 THEN Len(rows) + 1 ELSE c.id
             d == IF HasRow(n) THEN rows[n].draft ELSE c.draft
  <2>1. /\ wire' = wire \ {c} /\ UNCHANGED <<form, cache, stored>>
        /\ SaveBom(n, c.body, d) \/ rows' = rows
    BY <1>3 DEF Save, draft
  <2>2. n \in Known \/ n = Len(rows) + 1
    BY <1>0, <1>3 DEF Aimed, Save, CallRows
  <2>3. d \in Nat
    BY <1>0, Rows DEF TypeInv, HasRow
  <2>4. c.body \in Compositions /\ Fits(set, c.body)
    BY <1>0 DEF FitInv
  <2> HIDE DEF n, d
  <2>5. CASE SaveBom(n, c.body, d)
    BY <1>1, <2>1, <2>2, <2>3, <2>4, <2>5
  <2>6. CASE rows' = rows
    BY <1>2, <2>1, <2>6 DEF Known
  <2>7. QED BY <2>1, <2>5, <2>6
<1>4. ASSUME NEW n \in Known, OtherSaves(n)
      PROVE  FitInv(set)'
  <2>1. PICK parts \in Seq(PartRows) :
          SaveBom(n, Others(parts), rows[n].draft) /\ \A i \in DOMAIN parts : parts[i].offer = None
    BY <1>4, OthersTypes
  <2> DEFINE body == Others(parts)
             d == rows[n].draft
  <2>2. body \in Compositions /\ Fits(set, body)
    BY <2>1, ContentTypes DEF Others, Content, Fits, FitParts
  <2>3. d \in Nat
    BY <1>4, Rows DEF TypeInv, OtherSaves, HasRow
  <2>4. SaveBom(n, body, d) /\ wire' \subseteq wire /\ UNCHANGED <<form, cache, stored>>
    BY <1>4, <2>1 DEF OtherSaves, net, draft
  <2> HIDE DEF body, d
  <2>5. QED BY <1>1, <2>2, <2>3, <2>4
<1>5. ASSUME NEW n \in Known, rows' = [rows EXCEPT ![n] = None], lastPart' = lastPart, wire' \subseteq wire,
             UNCHANGED <<form, cache, stored>>
      PROVE  FitInv(set)'
  <2>1. \A k \in Known' : rows'[k] # None => k \in Known /\ rows'[k] = rows[k]
    BY <1>5, GoneTypes
  <2>2. QED BY <1>2, <1>5, <2>1
<1>6. ASSUME NEW n \in Known, OtherDeletes(n)
      PROVE  FitInv(set)'
  BY <1>5, <1>6 DEF OtherDeletes, net, draft
<1>7. ASSUME NEW c \in wire, Delete(c)
      PROVE  FitInv(set)'
  <2>1. PICK n \in Known : n = c.id
    BY <1>0, <1>7 DEF Delete, Aimed
  <2>2. rows' = [rows EXCEPT ![n] = None] /\ lastPart' = lastPart /\ wire' \subseteq wire /\ UNCHANGED <<form, cache, stored>>
    BY <1>7, <2>1 DEF Delete, draft
  <2>3. QED BY <1>5, <2>2
\* Otherwise the compositions stay.
<1>8. ASSUME rows' = rows, Fits(set, form'), cache' \in Lists \cup {Contents, Listing, None, cache},
             stored' # None => Fits(set, stored'), \A c \in wire' : Fits(set, c.body)
      PROVE  FitInv(set)'
  <2>1. cache' # None => \A n \in DOMAIN cache' : cache'[n] # None => Fits(set, cache'[n])
    BY <1>8, ShownFits
  <2>2. \A n \in Known' : rows'[n] # None => Fits(set, rows'[n].content)
    BY <1>8 DEF FitInv, Known
  <2>3. QED BY <1>8, <2>1, <2>2 DEF FitInv, Fits
<1>9. ASSUME rows' = rows, cache' \in Lists \cup {Contents, Listing, None, cache}, form' = form, stored' \in {stored, None},
             wire' \subseteq wire
      PROVE  FitInv(set)'
  BY <1>8, <1>9 DEF FitInv
<1>10. CASE Moves
  BY <1>9, <1>10 DEF Moves, net, page, draft
<1>11. CASE Stays
  BY <1>9, <1>11 DEF Stays, server, net, draft
<1>12. ASSUME NEW p, Leaves(p)
       PROVE  FitInv(set)'
  <2>1. rows' = rows /\ cache' \in Lists \cup {Contents, Listing, None, cache} /\ stored' \in {stored, None}
    BY <1>12 DEF Leaves, server
  <2>2. Fits(set, form')
    BY <1>12, <2>1, ShownFits DEF Leaves, Navigate
  <2>3. \A c \in wire' : Fits(set, c.body)
    <3>1. wire' = Deserted(wire)
      BY <1>12 DEF Leaves, Navigate
    <3>2. \A c \in Deserted(wire) : \E d \in wire : c.body = d.body
      BY DesertedCall DEF TypeInv
    <3>3. \A d \in wire : Fits(set, d.body)
      BY DEF FitInv
    <3>4. QED BY <3>1, <3>2, <3>3
  <2>4. stored' # None => Fits(set, stored')
    BY <2>1 DEF FitInv
  <2>5. QED BY <1>8, <2>1, <2>2, <2>3, <2>4
<1>13. CASE Reload
  <2> DEFINE p == IF at \in Known /\ ~HasRow(at) THEN Elsewhere ELSE at
  <2>1. rows' = rows /\ cache' \in Lists \cup {Contents, Listing, None, cache} /\ stored' = stored /\ Mount(p, stored)
          /\ wire' = {[c EXCEPT !.gone = TRUE, !.live = FALSE] : c \in wire}
    BY <1>13 DEF Reload
  <2>2. p \in {List, New, Elsewhere} \/ HasRow(p)
    BY DEF TypeInv, PageTypes
  <2> HIDE DEF p
  <2>3. Fits(set, form')
    BY <2>1, <2>2, ShownFits
  <2>4. \A c \in wire' : Fits(set, c.body)
    <3>1. \A c \in wire : [c EXCEPT !.gone = TRUE, !.live = FALSE].body = c.body
      BY <1>0, CallFields
    <3>2. \A d \in wire : Fits(set, d.body)
      BY DEF FitInv
    <3>3. ASSUME NEW c \in wire'
          PROVE  Fits(set, c.body)
      <4>1. PICK d \in wire : c = [d EXCEPT !.gone = TRUE, !.live = FALSE]
        BY <2>1
      <4>2. c.body = d.body
        BY <3>1, <4>1
      <4>3. QED BY <3>2, <4>2
    <3>4. QED BY <3>3
  <2>5. stored' # None => Fits(set, stored')
    BY <2>1 DEF FitInv
  <2>6. QED BY <1>8, <2>1, <2>3, <2>4, <2>5
<1>14. ASSUME NEW next \in Fields(typed + 1), Type(next)
       PROVE  FitInv(set)'
  <2>1. next \in Compositions /\ Revised(form.parts, next.parts)
    BY FieldsTypes DEF TypeInv, PageTypes, CountTypes
  <2>2. Fits(set, next)
    BY <1>0, <2>1, RevisedFits DEF FitInv, Fits
  <2>3. rows' = rows /\ cache' = cache /\ form' = next /\ stored' \in {next, stored} /\ wire' = wire
    BY <1>14 DEF Type, server, net
  <2>4. QED BY <1>8, <2>2, <2>3 DEF FitInv
<1>15. ASSUME NEW kind, NEW id, NEW body, Asks(kind, id, body)
       PROVE  FitInv(set)'
  <2>1. Fits(set, body)
    <3>1. \A content \in Compositions : CreateBomClone(content).parts = content.parts
      BY DEF CreateBomClone, Compositions
    <3>2. cache # None => \A n \in DOMAIN cache : cache[n] # None => cache[n] \in Compositions /\ Fits(set, cache[n])
      BY DEF TypeInv, ListTypes, FitInv
    <3>3. QED BY <1>15, <3>1, <3>2, BlankFits DEF Asks, FitInv, Fits
  <2>2. Call(kind, id, body)
    BY <1>15 DEF Asks
  <2> DEFINE c == [kind |-> kind, id |-> id, body |-> body, draft |-> IF kind = "create" THEN drafting ELSE 0,
                   nth |-> calls, live |-> TRUE, gone |-> FALSE]
  <2>3. wire' = wire \cup {c} /\ rows' = rows /\ UNCHANGED <<form, cache, stored>>
    BY <2>2 DEF Call, server, draft
  <2>4. c.body = body
    OBVIOUS
  <2> HIDE DEF c
  <2>5. \A e \in wire' : Fits(set, e.body)
    BY <2>1, <2>3, <2>4 DEF FitInv
  <2>6. QED BY <1>8, <2>3, <2>5 DEF FitInv
<1>16. CASE OtherTab
  <2>1. rows' = rows /\ cache' = cache /\ form' = form /\ wire' = wire /\ stored' \in {None, Others(<<>>)}
    BY <1>16 DEF OtherTab, server, net, page
  <2>2. QED BY <1>8, <2>1, BlankFits DEF FitInv
<1>17. ASSUME NEW a \in answers, Created(a) \/ Replaced(a) \/ Cloned(a) \/ Deleted(a) \/ Refused(a)
       PROVE  FitInv(set)'
  <2>1. rows' = rows /\ cache' \in {Listing, cache} /\ form' = form /\ wire' = wire /\ stored' \in {stored, None}
    BY <1>17, AnswerSteps DEF server
  <2>2. QED BY <1>9, <2>1
<1>18. CASE Lose
  <2>1. rows' = rows /\ cache' = cache /\ form' = form /\ stored' = stored
    BY <1>18 DEF Lose, server
  <2>2. \A e \in wire' : Fits(set, e.body)
    <3>1. \A c \in wire : [c EXCEPT !.gone = TRUE].body = c.body
      BY <1>0, CallFields
    <3>2. wire' = wire \/ \E c \in wire : wire' \in {wire \ {c}, (wire \ {c}) \cup {[c EXCEPT !.gone = TRUE]}}
      BY <1>18, LoseSteps
    <3>3. QED BY <3>1, <3>2 DEF FitInv, Fits
  <2>3. QED BY <1>8, <2>1, <2>2 DEF FitInv
<1>19. QED
  BY <1>3, <1>4, <1>6, <1>7, <1>10, <1>11, <1>12, <1>13, <1>14, <1>15, <1>16, <1>17, <1>18, StepKinds

LEMMA InitFits == Init => FitInv(past)
<1> SUFFICES ASSUME Init PROVE FitInv(past)
  OBVIOUS
<1>1. /\ \A o \in Offers : FitParts(past, <<Priced(o)>>)
      /\ \A r \in Resources : FitParts(past, <<Part(0, r, material.units[r], None)>>)
  BY Started DEF FitParts, Priced, Part
<1>2. FitParts(past, <<>>)
  BY DEF FitParts
<1>3. \A n \in Known : Fits(past, rows[n].content)
  BY <1>1, <1>2, Started DEF Fits
<1>4. stored # None => Fits(past, stored)
  <2>1. \A parts : Fits(past, Whole(parts)) <=> FitParts(past, parts)
    BY DEF Fits, Whole, Content
  <2>2. Fits(past, Others(<<>>))
    BY <1>2 DEF Fits, Others, Content
  <2>3. QED BY <1>1, <2>1, <2>2, Started
<1>5. form = Blank /\ cache = Contents /\ wire = {}
  BY DEF Init
<1>6. \A n \in DOMAIN Contents : Contents[n] # None => Fits(past, Contents[n])
  BY <1>3 DEF Contents
<1>7. Fits(past, Blank)
  BY <1>2 DEF Fits, Blank, Content
<1>8. QED BY <1>3, <1>4, <1>5, <1>6, <1>7 DEF FitInv

\* What fits stays fitting as the material moves on.
LEMMA StepFitsPast ==
  ASSUME TypeInv, FitInv(past), [Next]_vars
  PROVE  FitInv(past)'
<1>1. PICK set : set = past
  OBVIOUS
<1>2. seen \in set /\ FitInv(set)
  BY <1>1 DEF TypeInv, ServerTypes
<1>3. FitInv(set)'
  BY <1>2, StepFits
<1>4. set \subseteq past'
  BY <1>1, PastStays
<1>5. QED BY <1>3, <1>4 DEF FitInv, Fits, FitParts

(* The offer selected for a component, on the form and in every composition, has
   been associated with the resource of the component, whatever is typed, saved,
   copied or kept, and whenever the page read the offers: choosing another resource
   lets the offer go.  Only a later association can give a component the offer of
   another resource. *)
THEOREM OffersBelong == Spec => []OfferFits
<1>1. Init => TypeInv /\ FitInv(past)
  BY InitTypes, InitFits
<1>2. TypeInv /\ FitInv(past) /\ [Next]_vars => TypeInv' /\ FitInv(past)'
  BY StepTypes, StepFitsPast
<1>3. TypeInv /\ FitInv(past) => OfferFits
  BY DEF FitInv, Fits, FitParts, OfferFits, Belongs, Parts
<1>4. QED BY <1>1, <1>2, <1>3, PTL DEF Spec

-----------------------------------------------------------------------------
(* The draft of a new composition *)

LEMMA StepStored ==
  ASSUME TypeInv, DraftStored, [Next]_vars
  PROVE  DraftStored'
<1>1. ASSUME UNCHANGED <<at, dirty, meddled, stored, form>>
      PROVE  DraftStored'
  BY <1>1 DEF DraftStored
<1>2. ASSUME dirty' = FALSE
      PROVE  DraftStored'
  BY <1>2 DEF DraftStored
<1>3. ASSUME NEW c \in wire, Save(c) \/ Delete(c)
      PROVE  DraftStored'
  BY <1>1, <1>3 DEF Save, Delete, draft
<1>4. ASSUME NEW n \in Known, OtherSaves(n) \/ OtherDeletes(n)
      PROVE  DraftStored'
  BY <1>1, <1>4 DEF OtherSaves, OtherDeletes, draft
<1>5. CASE Moves
  BY <1>1, <1>5 DEF Moves, page, draft
<1>6. CASE Stays
  BY <1>1, <1>6 DEF Stays, draft
<1>7. ASSUME NEW p, Leaves(p)
      PROVE  DraftStored'
  BY <1>2, <1>7 DEF Leaves, Navigate, Mount
<1>8. CASE Reload
  BY <1>2, <1>8 DEF Reload, Mount
<1>9. ASSUME NEW next \in Fields(typed + 1), Type(next)
      PROVE  DraftStored'
  BY <1>9 DEF Type, DraftStored
<1>10. ASSUME NEW kind, NEW id, NEW body, Asks(kind, id, body)
       PROVE  DraftStored'
  BY <1>1, <1>10 DEF Asks, Call, draft
<1>11. CASE OtherTab
  BY <1>11 DEF OtherTab, DraftStored
<1>12. ASSUME NEW a \in answers, Created(a) \/ Replaced(a) \/ Cloned(a) \/ Deleted(a) \/ Refused(a)
       PROVE  DraftStored'
  <2>1. CASE Created(a)
    <3>1. CASE a.call.live
      BY <1>2, <2>1, <3>1 DEF Created
    <3>2. CASE ~a.call.live
      BY <2>1, <3>2 DEF Created, DraftStored
    <3>3. QED BY <3>1, <3>2
  <2>2. CASE Replaced(a)
    BY <2>2 DEF Replaced, DraftStored, draft
  <2>3. CASE Cloned(a) \/ Deleted(a) \/ Refused(a)
    BY <1>1, <2>3 DEF Cloned, Deleted, Refused, draft
  <2>4. QED BY <1>12, <2>1, <2>2, <2>3
<1>13. CASE Lose
  BY <1>1, <1>13 DEF Lose
<1>14. QED
  BY <1>3, <1>4, <1>5, <1>6, <1>7, <1>8, <1>9, <1>10, <1>11, <1>12, <1>13, StepKinds

(* What is typed of a new composition is in localStorage, ready for a reload or a
   later visit, unless another tab or a page left earlier wrote it since. *)
THEOREM TypedIsKept == Spec => []DraftStored
<1>1. Init => TypeInv /\ DraftStored
  BY InitTypes DEF Init, DraftStored
<1>2. TypeInv /\ DraftStored /\ [Next]_vars => TypeInv' /\ DraftStored'
  BY StepTypes, StepStored
<1>3. QED BY <1>1, <1>2, PTL DEF Spec

-----------------------------------------------------------------------------
(* One composition for a draft *)

\* The calls that make a composition and whose answer the page still awaits.
LiveCreates == {c \in wire : c.kind = "create" /\ c.live /\ ~c.gone}
LiveTold == {a \in answers : a.call.kind = "create" /\ a.call.live}
Made(d) == \E n \in Known : rows[n] # None /\ rows[n].draft = d

\* A draft is told by a number of its own; it is unsure unless its call is awaited.
WireNumbers ==
  \A c \in wire : IF c.kind = "create" THEN c.draft \in 1..calls /\ (c \in LiveCreates \/ c.draft \in unsure)
                  ELSE c.draft = 0
DraftNumbers ==
  /\ WireNumbers
  /\ drafting \in 1..calls + 1
  /\ \A n \in Known : rows[n] # None => rows[n].draft <= calls
  /\ \A a \in answers : a.call.kind = "create" => /\ a.call.draft \in 1..calls
                                                  /\ (a.call.live \/ a.call.draft \in unsure)

\* One at most is awaited, by the page of a new composition.
OneAwaited ==
  /\ \A c, d \in LiveCreates : c = d
  /\ \A a, b \in LiveTold : a = b
  /\ LiveCreates = {} \/ LiveTold = {}
  /\ LiveCreates # {} \/ LiveTold # {} => at = New /\ "create" \in busy

\* Its draft has no composition before the server made one.
NotMade ==
  /\ \A c \in LiveCreates : c.draft \in unsure \/ ~Made(c.draft)
  /\ \A a \in LiveTold : a.ok \/ a.call.draft \in unsure \/ ~Made(a.call.draft)

\* Once made, the draft is not sent again: its page still awaits the answer, or the
\* new composition that it opens, and then the draft is gone from localStorage.
Answering == \E a \in LiveTold : a.ok /\ a.call.draft = drafting
Opening == stored = None /\ going # None /\ LiveCreates = {} /\ LiveTold = {}
Finished ==
  Made(drafting) /\ drafting \notin unsure =>
    IF at = New THEN "create" \in busy /\ (Answering \/ Opening) ELSE stored = None

DraftInv == DraftNumbers /\ OneAwaited /\ NotMade /\ OneBomPerDraft /\ Finished

\* The drafts of the compositions after a step are those before it.
SameDrafts == \A n \in Known' : rows'[n] # None => n \in Known /\ rows[n] # None /\ rows'[n].draft = rows[n].draft

LEMMA DraftsStay ==
  ASSUME SameDrafts, OneBomPerDraft, unsure \subseteq unsure'
  PROVE  /\ \A d : Made(d)' => Made(d)
         /\ OneBomPerDraft'
<1>1. \A d : Made(d)' => Made(d)
  BY DEF SameDrafts, Made
<1>2. OneBomPerDraft'
  BY DEF SameDrafts, OneBomPerDraft
<1>3. QED BY <1>1, <1>2

LEMMA WireStays ==
  ASSUME DraftInv, wire' \subseteq wire, calls' = calls, unsure \subseteq unsure'
  PROVE  LiveCreates' \subseteq LiveCreates /\ WireNumbers'
<1>1. LiveCreates' = LiveCreates \cap wire'
  BY DEF LiveCreates
<1>2. QED BY <1>1 DEF DraftInv, DraftNumbers, WireNumbers

\* Steps that leave what the page awaits of a new composition.
LEMMA QuietDrafts ==
  ASSUME TypeInv, DraftInv, SameDrafts, LiveCreates' \subseteq LiveCreates, WireNumbers', answers' \subseteq answers,
         \A a \in LiveTold : a \in answers' \/ a.call.draft \in unsure',
         UNCHANGED <<at, drafting, calls>>, unsure \subseteq unsure', "create" \in busy => "create" \in busy',
         stored' \in {stored, None}, at = New /\ going # None => going' # None
  PROVE  DraftInv'
<1>1. LiveTold' \subseteq LiveTold /\ \A a \in LiveTold : a \in LiveTold' \/ a.call.draft \in unsure'
  BY DEF LiveTold
<1>2. (\A d : Made(d)' => Made(d)) /\ OneBomPerDraft'
  BY DraftsStay DEF DraftInv
<1>3. DraftNumbers'
  <2>1. drafting' \in 1..calls' + 1
    BY DEF DraftInv, DraftNumbers
  <2>2. \A n \in Known' : rows'[n] # None => rows'[n].draft <= calls'
    BY DEF DraftInv, DraftNumbers, SameDrafts
  <2>4. \A a \in answers' : a.call.kind = "create" => /\ a.call.draft \in 1..calls'
                                                     /\ (a.call.live \/ a.call.draft \in unsure')
    BY DEF DraftInv, DraftNumbers
  <2>5. QED BY <2>1, <2>2, <2>4 DEF DraftNumbers
<1>4. OneAwaited'
  BY <1>1 DEF DraftInv, OneAwaited
<1>5. NotMade'
  BY <1>1, <1>2 DEF DraftInv, NotMade
<1>6. Finished'
  <2>1. SUFFICES ASSUME Made(drafting)', drafting \notin unsure'
                 PROVE  IF at = New THEN "create" \in busy' /\ (Answering' \/ Opening') ELSE stored' = None
    BY DEF Finished
  <2>2. Made(drafting) /\ drafting \notin unsure
    BY <1>2, <2>1
  <2>3. Answering => Answering'
    BY <1>1, <2>1 DEF Answering
  <2>4. Opening /\ at = New => Opening'
    BY <1>1 DEF Opening
  <2>5. QED BY <2>2, <2>3, <2>4 DEF DraftInv, Finished
<1>7. QED BY <1>2, <1>3, <1>4, <1>5, <1>6 DEF DraftInv

\* A page that is left, or read again, awaits nothing.
LEMMA LeftDrafts ==
  ASSUME TypeInv, DraftInv, rows' = rows, calls' = calls, unsure \subseteq unsure', Unanswered \subseteq unsure',
         NEW p, Mount(p, stored'), stored' \in {stored, None},
         \A c \in wire' : ~c.live /\ \E d \in wire : c.kind = d.kind /\ c.draft = d.draft,
         \A a \in answers' : ~a.call.live /\ \E b \in answers : a.call.kind = b.call.kind /\ a.call.draft = b.call.draft
  PROVE  DraftInv'
<1>1. SameDrafts
  BY DEF SameDrafts, Known
<1>2. (\A d : Made(d)' => Made(d)) /\ OneBomPerDraft'
  BY <1>1, DraftsStay DEF DraftInv
<1>3. LiveCreates' = {} /\ LiveTold' = {}
  BY DEF LiveCreates, LiveTold
<1>4. /\ \A d \in wire : d.kind = "create" => d.draft \in unsure'
      /\ \A b \in answers : b.call.kind = "create" => b.call.draft \in unsure'
  BY DEF Unanswered
<1>5. calls \in Nat /\ drafting' \in {calls + 1, drafting} /\ at' = p
        /\ (p = New /\ stored' = None => drafting' = calls + 1)
  BY DEF TypeInv, CountTypes, Mount
<1>6. DraftNumbers'
  <2>1. drafting' \in 1..calls' + 1
    BY <1>5 DEF DraftInv, DraftNumbers
  <2>2. \A n \in Known' : rows'[n] # None => rows'[n].draft <= calls'
    BY <1>1 DEF DraftInv, DraftNumbers, SameDrafts
  <2>3. WireNumbers'
    <3>1. \A c \in wire' : IF c.kind = "create" THEN c.draft \in 1..calls' /\ (c \in LiveCreates' \/ c.draft \in unsure')
                           ELSE c.draft = 0
      BY <1>4 DEF DraftInv, DraftNumbers, WireNumbers
    <3>2. QED BY <3>1 DEF WireNumbers
  <2>4. \A a \in answers' : a.call.kind = "create" => /\ a.call.draft \in 1..calls'
                                                     /\ (a.call.live \/ a.call.draft \in unsure')
    BY <1>4 DEF DraftInv, DraftNumbers
  <2>5. QED BY <2>1, <2>2, <2>3, <2>4 DEF DraftNumbers
<1>7. OneAwaited' /\ NotMade'
  BY <1>3 DEF OneAwaited, NotMade
<1>8. Finished'
  <2>1. SUFFICES ASSUME Made(drafting)', drafting' \notin unsure'
                 PROVE  at' # New /\ stored' = None
    BY DEF Finished
  <2>2. Made(drafting') /\ drafting' \notin unsure
    <3>1. PICK n \in Known' : rows'[n] # None /\ rows'[n].draft = drafting'
      BY <2>1 DEF Made
    <3>2. Made(drafting')
      BY <3>1, <1>1 DEF Made, SameDrafts
    <3>3. QED BY <2>1, <3>2
  <2>3. drafting' # calls + 1
    <3>1. \A n \in Known : rows[n] # None => rows[n].draft \in Nat /\ rows[n].draft <= calls
      BY Rows DEF TypeInv, DraftInv, DraftNumbers
    <3>2. QED BY <1>5, <2>2, <3>1 DEF Made
  <2>4. drafting' = drafting
    BY <1>5, <2>3
  <2>5. ~Answering
    <3>1. \A a \in LiveTold : a.call.draft \in unsure'
      BY <1>4 DEF LiveTold
    <3>2. QED BY <2>1, <2>4, <3>1 DEF Answering
  <2>6. stored = None
    BY <2>2, <2>4, <2>5 DEF DraftInv, Finished, Opening
  <2>7. QED BY <1>5, <2>3, <2>6
<1>9. QED BY <1>2, <1>6, <1>7, <1>8 DEF DraftInv

\* A composition is made of a draft, or one that is there keeps its own.
LEMMA SaveDrafts ==
  ASSUME TypeInv, DraftInv, NEW c \in wire, Save(c)
  PROVE  DraftInv'
<1>1. PICK n, d, body :
        /\ n = (IF c.id = 0 THEN Len(rows) + 1 ELSE c.id) /\ d = (IF HasRow(n) THEN rows[n].draft ELSE c.draft) /\ body = c.body
        /\ wire' = wire \ {c}
        /\ \/ SaveBom(n, body, d) /\ answers' = answers \cup Answered(c, TRUE, n)
           \/ rows' = rows /\ answers' = answers \cup Answered(c, FALSE, n)
        /\ UNCHANGED <<at, going, busy, stored, drafting, unsure, meddled, calls>>
  BY DEF Save, draft
<1>2. c \in CallRows /\ Aimed(c) /\ c.kind # "delete"
  BY DEF TypeInv, NetTypes, Save
<1>3. n \in Nat /\ (n \in Known \/ n = Len(rows) + 1) /\ body \in Compositions /\ c.draft \in Nat
  BY <1>1, <1>2, Rows DEF Aimed, TypeInv, CallRows
<1>4. d \in Nat /\ (HasRow(n) => d = rows[n].draft) /\ (~HasRow(n) => d = c.draft)
  BY <1>1, <1>3, Rows DEF TypeInv, HasRow
<1>5. c.kind = "create" => ~HasRow(n)
  BY <1>1, <1>2, Rows DEF Aimed, TypeInv, HasRow, Known
<1>6. CASE c.kind # "create"
  <2>1. SameDrafts \/ (d = 0 /\ \A k \in Known' : rows'[k] # None =>
                         \/ (k \in Known /\ rows[k] # None /\ rows'[k].draft = rows[k].draft)
                         \/ rows'[k].draft = 0)
    <3>1. CASE rows' = rows
      BY <3>1 DEF SameDrafts, Known
    <3>2. CASE SaveBom(n, body, d)
      <4>1. /\ Known' = Known \cup {n} /\ rows'[n].draft = d
            /\ \A k \in Known \ {n} : rows'[k] = rows[k]
        BY <1>3, <1>4, <3>2, SavedRow DEF TypeInv
      <4>2. CASE HasRow(n)
        BY <1>4, <4>1, <4>2 DEF SameDrafts, HasRow
      <4>3. CASE ~HasRow(n)
        BY <1>4, <1>6, <4>1, <4>3 DEF DraftInv, DraftNumbers, WireNumbers
      <4>4. QED BY <4>2, <4>3
    <3>3. QED BY <1>1, <3>1, <3>2
  <2>2. \A e \in Nat : e # 0 /\ Made(e)' => Made(e)
    BY <2>1 DEF SameDrafts, Made
  <2>3. OneBomPerDraft'
    BY <2>1, <1>1 DEF DraftInv, OneBomPerDraft, SameDrafts
  <2>4. LiveCreates' = LiveCreates /\ LiveTold' = LiveTold
    BY <1>1, <1>2, <1>6, AnswerRow DEF LiveCreates, LiveTold, Answered
  <2>5. \A e \in LiveCreates : e.draft \in Nat /\ e.draft # 0
    BY DEF LiveCreates, DraftInv, DraftNumbers, WireNumbers
  <2>6. DraftNumbers'
    <3>1. \A k \in Known' : rows'[k] # None => rows'[k].draft <= calls'
      BY <1>1, <2>1 DEF DraftInv, DraftNumbers, WireNumbers, SameDrafts, TypeInv, CountTypes
    <3>2. \A a \in answers' : a.call.kind = "create" => a \in answers
      BY <1>1, <1>6 DEF Answered
    <3>3. QED BY <1>1, <2>4, <3>1, <3>2 DEF DraftInv, DraftNumbers, WireNumbers
  <2>7. \A a \in LiveTold : a.call.draft \in Nat /\ a.call.draft # 0
    BY DEF LiveTold, DraftInv, DraftNumbers, WireNumbers
  <2>8. NotMade'
    BY <1>1, <2>2, <2>4, <2>5, <2>7 DEF DraftInv, NotMade
  <2>9. OneAwaited'
    BY <1>1, <2>4 DEF DraftInv, OneAwaited
  <2>10. drafting \in Nat /\ drafting # 0
    BY DEF DraftInv, DraftNumbers, WireNumbers, TypeInv, DraftTypes
  <2>11. Finished'
    <3>1. Made(drafting)' => Made(drafting)
      BY <1>1, <2>2, <2>10 DEF Made
    <3>2. (Answering <=> Answering') /\ (Opening <=> Opening')
      BY <1>1, <2>4 DEF Answering, Opening
    <3>3. QED BY <1>1, <3>1, <3>2 DEF DraftInv, Finished
  <2>12. QED BY <2>3, <2>6, <2>8, <2>9, <2>11 DEF DraftInv
<1>7. CASE c.kind = "create"
  <2>1. d = c.draft /\ d \in 1..calls /\ (c \in LiveCreates \/ d \in unsure)
    BY <1>4, <1>5, <1>7 DEF DraftInv, DraftNumbers, WireNumbers
  <2>2. /\ LiveCreates' \subseteq LiveCreates /\ c \notin LiveCreates'
        /\ \A e \in LiveCreates : e = c \/ e \in LiveCreates'
    BY <1>1 DEF LiveCreates
  <2>3. \A k \in Known' : rows'[k] # None => \/ (k \in Known /\ rows[k] # None /\ rows'[k].draft = rows[k].draft)
                                            \/ (k = n /\ rows'[k].draft = d)
    <3>1. CASE rows' = rows
      BY <3>1 DEF Known
    <3>2. CASE SaveBom(n, body, d)
      <4>1. /\ Known' = Known \cup {n} /\ rows'[n].draft = d
            /\ \A k \in Known \ {n} : rows'[k] = rows[k]
        BY <1>3, <1>4, <3>2, SavedRow DEF TypeInv
      <4>2. QED BY <4>1
    <3>3. QED BY <1>1, <3>1, <3>2
  <2>4. \A e : Made(e)' => Made(e) \/ e = d
    BY <2>3 DEF Made
  <2>5. \A k \in Known' : rows'[k] # None => rows'[k].draft <= calls'
    BY <1>1, <2>1, <2>3 DEF DraftInv, DraftNumbers, WireNumbers, TypeInv, CountTypes
  \* The draft is unsure, and nothing is promised of it.
  <2>6. CASE d \in unsure
    <3>1. OneBomPerDraft'
      BY <1>1, <2>3, <2>6 DEF DraftInv, OneBomPerDraft
    <3>2. /\ LiveTold \subseteq LiveTold'
          /\ \A a \in LiveTold' \ LiveTold : a.call = c /\ c \in LiveCreates
      BY <1>1, <1>2, <1>7 DEF LiveTold, LiveCreates, Answered
    <3>3. DraftNumbers'
      <4>1. \A a \in answers' : a.call.kind = "create" => a.call.draft \in 1..calls /\ (a.call.live \/ a.call.draft \in unsure)
        BY <1>1, <2>1, <2>6 DEF Answered, DraftInv, DraftNumbers, WireNumbers
      <4>2. \A e \in wire' : e \in wire /\ (e \in LiveCreates => e \in LiveCreates')
        BY <1>1, <2>2
      <4>3. QED BY <1>1, <2>5, <4>1, <4>2 DEF DraftInv, DraftNumbers, WireNumbers
    <3>4. OneAwaited'
      <4>1. CASE c \in LiveCreates
        <5>1. LiveCreates' = {} /\ LiveTold = {} /\ at = New /\ "create" \in busy
          BY <2>2, <4>1 DEF DraftInv, OneAwaited
        <5>2. \A a, b \in LiveTold' : a = b
          <6>1. \E ok \in BOOLEAN : LiveTold' \subseteq Answered(c, ok, n)
            BY <1>1, <5>1 DEF LiveTold
          <6>2. QED BY <6>1 DEF Answered
        <5>3. QED BY <1>1, <5>1, <5>2 DEF OneAwaited
      <4>2. CASE c \notin LiveCreates
        <5>1. LiveCreates' = LiveCreates /\ LiveTold' = LiveTold
          BY <2>2, <3>2, <4>2
        <5>2. QED BY <1>1, <5>1 DEF DraftInv, OneAwaited
      <4>3. QED BY <4>1, <4>2
    <3>5. NotMade'
      BY <1>1, <2>1, <2>2, <2>4, <2>6, <3>2 DEF DraftInv, NotMade
    <3>6. Finished'
      <4>1. SUFFICES ASSUME Made(drafting)', drafting \notin unsure
                     PROVE  IF at = New THEN "create" \in busy /\ (Answering' \/ Opening') ELSE stored = None
        BY <1>1 DEF Finished
      <4>2. Made(drafting)
        BY <1>1, <2>4, <2>6, <4>1 DEF Made
      <4>3. Answering => Answering'
        BY <1>1, <3>2 DEF Answering
      <4>4. Opening => Opening'
        BY <1>1, <2>2, <3>2 DEF Opening
      <4>5. QED BY <4>1, <4>2, <4>3, <4>4 DEF DraftInv, Finished
    <3>7. QED BY <3>1, <3>3, <3>4, <3>5, <3>6 DEF DraftInv
  \* The page awaits the answer; its draft had no composition before.
  <2>7. CASE d \notin unsure
    <3>1. c \in LiveCreates /\ ~Made(d)
      BY <2>1, <2>7 DEF DraftInv, NotMade
    <3>2. LiveCreates' = {} /\ LiveTold = {} /\ at = New /\ "create" \in busy /\ c.live /\ ~c.gone
      BY <2>2, <3>1 DEF DraftInv, OneAwaited, LiveCreates
    <3>3. OneBomPerDraft'
      BY <1>1, <2>3, <3>1 DEF Made, DraftInv, OneBomPerDraft
    <3> DEFINE told(ok) == [call |-> c, ok |-> ok, id |-> n]
    <3>4. PICK ok \in BOOLEAN : /\ answers' = answers \cup {told(ok)} /\ (ok \/ rows' = rows)
      BY <1>1, <3>2 DEF Answered
    <3>5. LiveTold' = {told(ok)}
      BY <1>7, <3>2, <3>4 DEF LiveTold
    <3>6. DraftNumbers'
      <4>1. \A a \in answers' : a.call.kind = "create" => a.call.draft \in 1..calls /\ (a.call.live \/ a.call.draft \in unsure)
        BY <2>1, <3>2, <3>4 DEF DraftInv, DraftNumbers, WireNumbers
      <4>2. \A e \in wire' : e \in wire /\ (e \in LiveCreates => e \in LiveCreates')
        BY <1>1, <2>2
      <4>3. QED BY <1>1, <2>5, <4>1, <4>2 DEF DraftInv, DraftNumbers, WireNumbers
    <3>7. OneAwaited'
      BY <1>1, <3>2, <3>5 DEF OneAwaited
    <3>8. NotMade'
      <4>1. ok \/ ~Made(d)'
        BY <3>1, <3>4 DEF Made, Known
      <4>2. told(ok).call.draft = d /\ told(ok).ok = ok
        BY <2>1
      <4>3. QED BY <3>2, <3>5, <4>1, <4>2 DEF NotMade
    <3>9. Finished'
      <4>1. CASE drafting = d /\ ok
        <5>1. Answering'
          BY <1>1, <2>1, <3>5, <4>1 DEF Answering
        <5>2. QED BY <1>1, <3>2, <5>1 DEF Finished
      <4>2. CASE ~(drafting = d /\ ok)
        <5>1. SUFFICES ASSUME Made(drafting)', drafting \notin unsure PROVE FALSE
          BY <1>1 DEF Finished
        <5>2. Made(drafting)
          <6>1. CASE ok
            BY <1>1, <2>4, <4>2, <5>1, <6>1 DEF Made
          <6>2. CASE ~ok
            BY <1>1, <3>4, <5>1, <6>2 DEF Made, Known
          <6>3. QED BY <6>1, <6>2
        <5>3. Answering \/ Opening
          BY <3>2, <5>1, <5>2 DEF DraftInv, Finished
        <5>4. QED BY <3>1, <3>2, <5>3 DEF Answering, Opening
      <4>3. QED BY <4>1, <4>2
    <3>10. QED BY <3>3, <3>6, <3>7, <3>8, <3>9 DEF DraftInv
  <2>8. QED BY <2>6, <2>7
<1>8. QED BY <1>6, <1>7

LEMMA CallDrafts ==
  ASSUME TypeInv, DraftInv, NEW kind, NEW id, NEW body, Asks(kind, id, body)
  PROVE  DraftInv'
<1>1. PICK c : /\ c = [kind |-> kind, id |-> id, body |-> body, draft |-> IF kind = "create" THEN drafting ELSE 0,
                       nth |-> calls, live |-> TRUE, gone |-> FALSE]
               /\ wire' = wire \cup {c} /\ busy' = busy \cup {kind} /\ kind \notin busy /\ calls' = calls + 1
               /\ UNCHANGED <<server, answers, at, going, draft>>
  BY DEF Asks, Call
<1>2. c.kind = kind /\ c.live /\ ~c.gone /\ c.draft = IF kind = "create" THEN drafting ELSE 0
  BY <1>1
<1>3. /\ UNCHANGED <<rows, answers, at, going, stored, drafting, unsure>> /\ calls \in Nat /\ drafting \in Nat
      /\ (\A d : Made(d)' <=> Made(d)) /\ Known' = Known
  BY <1>1 DEF server, draft, Made, Known, TypeInv, CountTypes, DraftTypes
<1>4. OneBomPerDraft'
  BY <1>3 DEF DraftInv, OneBomPerDraft
<1>5. LiveTold' = LiveTold /\ LiveCreates' = LiveCreates \cup (IF kind = "create" THEN {c} ELSE {})
  BY <1>1, <1>2, <1>3 DEF LiveTold, LiveCreates
<1>6. DraftNumbers'
  <2>1. \A n \in Known : rows[n] # None => rows[n].draft \in Nat
    BY Rows DEF TypeInv
  <2>2. drafting' \in 1..calls' + 1 /\ \A n \in Known' : rows'[n] # None => rows'[n].draft <= calls'
    BY <1>1, <1>3, <2>1 DEF DraftInv, DraftNumbers, WireNumbers
  <2>3. IF c.kind = "create" THEN c.draft \in 1..calls' /\ (c \in LiveCreates' \/ c.draft \in unsure') ELSE c.draft = 0
    BY <1>1, <1>2, <1>3, <1>5 DEF DraftInv, DraftNumbers, WireNumbers
  <2>4. \A e \in wire : IF e.kind = "create" THEN e.draft \in 1..calls' /\ (e \in LiveCreates' \/ e.draft \in unsure')
                        ELSE e.draft = 0
    BY <1>1, <1>3, <1>5 DEF DraftInv, DraftNumbers, WireNumbers
  <2>5. \A a \in answers' : a.call.kind = "create" => /\ a.call.draft \in 1..calls'
                                                     /\ (a.call.live \/ a.call.draft \in unsure')
    BY <1>1, <1>3 DEF DraftInv, DraftNumbers, WireNumbers
  <2>6. QED BY <1>1, <2>2, <2>3, <2>4, <2>5 DEF DraftNumbers, WireNumbers
<1>7. CASE kind # "create"
  <2>1. OneAwaited' /\ NotMade'
    BY <1>1, <1>3, <1>5, <1>7 DEF DraftInv, OneAwaited, NotMade
  <2>2. (Answering' <=> Answering) /\ (Opening' <=> Opening)
    BY <1>3, <1>5, <1>7 DEF Answering, Opening
  <2>3. Made(drafting)' <=> Made(drafting)
    BY <1>3 DEF Made
  <2>4. Finished'
    BY <1>1, <1>3, <2>2, <2>3 DEF DraftInv, Finished
  <2>5. QED BY <1>4, <1>6, <2>1, <2>4 DEF DraftInv
<1>8. CASE kind = "create"
  <2>1. at = New /\ "create" \notin busy
    BY <1>1, <1>8 DEF Asks
  <2>2. LiveCreates' = {c} /\ LiveTold' = {}
    BY <1>5, <1>8, <2>1 DEF DraftInv, OneAwaited
  <2>3. drafting \in unsure \/ ~Made(drafting)
    BY <2>1 DEF DraftInv, Finished
  <2>4. OneAwaited'
    BY <1>1, <1>3, <1>8, <2>1, <2>2 DEF OneAwaited
  <2>5. NotMade'
    BY <1>2, <1>3, <1>8, <2>2, <2>3 DEF NotMade
  <2>6. Finished'
    BY <1>3, <2>3 DEF Finished, Made
  <2>7. QED BY <1>4, <1>6, <2>4, <2>5, <2>6 DEF DraftInv
<1>9. QED BY <1>7, <1>8

LEMMA TypeDrafts ==
  ASSUME TypeInv, DraftInv, NEW next, Type(next)
  PROVE  DraftInv'
<1>1. /\ UNCHANGED <<server, net, at, going, busy, drafting, calls>>
      /\ stored' = (IF at = New THEN next ELSE stored)
      /\ unsure' = IF at = New /\ going # None THEN unsure \cup {drafting} ELSE unsure
  BY DEF Type
<1>2. UNCHANGED <<rows, wire, answers, at, going, busy, drafting, calls>> /\ unsure \subseteq unsure' /\ SameDrafts
  BY <1>1 DEF server, net, SameDrafts, Known
<1>3. (\A d : Made(d)' => Made(d)) /\ OneBomPerDraft'
  BY <1>2, DraftsStay DEF DraftInv
<1>4. LiveCreates' = LiveCreates /\ LiveTold' = LiveTold
  BY <1>2 DEF LiveCreates, LiveTold
<1>5. DraftNumbers' /\ OneAwaited'
  BY <1>2, <1>4 DEF DraftInv, DraftNumbers, WireNumbers, OneAwaited, Known
<1>6. NotMade'
  BY <1>2, <1>3, <1>4 DEF DraftInv, NotMade
<1>7. Finished'
  <2>1. SUFFICES ASSUME Made(drafting)', drafting \notin unsure'
                 PROVE  IF at = New THEN "create" \in busy /\ Answering' ELSE stored' = None
    BY <1>2 DEF Finished
  <2>2. Made(drafting) /\ drafting \notin unsure
    BY <1>2, <2>1 DEF Made, Known
  <2>3. at = New => ~Opening
    BY <1>1, <2>1 DEF Opening
  <2>4. Answering => Answering'
    BY <1>2, <1>4 DEF Answering
  <2>5. QED BY <1>1, <2>2, <2>3, <2>4 DEF DraftInv, Finished
<1>8. QED BY <1>3, <1>5, <1>6, <1>7 DEF DraftInv

\* What was awaited is answered, or lost.
LEMMA ClosedDrafts ==
  ASSUME TypeInv, DraftInv, UNCHANGED <<server, at, drafting, calls>>, WireNumbers',
         answers' \subseteq answers, unsure \subseteq unsure', LiveCreates' = {}, LiveTold' = {},
         stored' = stored, Made(drafting) => drafting \in unsure'
  PROVE  DraftInv'
<1>1. SameDrafts /\ rows' = rows
  BY DEF SameDrafts, server, Known
<1>2. OneBomPerDraft'
  BY <1>1, DraftsStay DEF DraftInv
<1>3. DraftNumbers'
  BY <1>1 DEF DraftInv, DraftNumbers, WireNumbers, SameDrafts
<1>4. OneAwaited' /\ NotMade'
  BY DEF OneAwaited, NotMade
<1>5. Finished'
  BY <1>1 DEF Finished, Made, Known
<1>6. QED BY <1>2, <1>3, <1>4, <1>5 DEF DraftInv

LEMMA LoseDrafts ==
  ASSUME TypeInv, DraftInv, Lose
  PROVE  DraftInv'
<1>1. UNCHANGED <<server, at, going, stored, drafting, calls>> /\ SameDrafts /\ answers' \subseteq answers
  <2>1. UNCHANGED <<server, at, going, stored, drafting, calls>> /\ answers' \subseteq answers
    BY LoseSteps
  <2>2. QED BY <2>1 DEF server, SameDrafts, Known
<1>2. ASSUME NEW c \in wire, ~c.gone, c \in CallRows, answers' = answers, busy' = Released(c),
             unsure' = unsure \cup {c.draft},
             wire' \in {wire \ {c}, (wire \ {c}) \cup {[c EXCEPT !.gone = TRUE]}}
      PROVE  DraftInv'
  <2>1. /\ [c EXCEPT !.gone = TRUE].kind = c.kind /\ [c EXCEPT !.gone = TRUE].draft = c.draft
        /\ [c EXCEPT !.gone = TRUE].gone
    BY <1>2, CallFields
  <2>2. LiveCreates' = LiveCreates \ {c} /\ LiveTold' = LiveTold
    BY <1>2, <2>1 DEF LiveCreates, LiveTold
  <2>3. WireNumbers'
    <3>1. ASSUME NEW e \in wire'
          PROVE  IF e.kind = "create" THEN e.draft \in 1..calls /\ (e \in LiveCreates' \/ e.draft \in unsure') ELSE e.draft = 0
      <4>1. e \in wire \/ (e.kind = c.kind /\ e.draft = c.draft)
        BY <1>2, <2>1, <3>1
      <4>2. CASE e \in wire
        BY <1>2, <2>2, <4>2 DEF DraftInv, DraftNumbers, WireNumbers
      <4>3. CASE e.kind = c.kind /\ e.draft = c.draft
        BY <1>2, <4>3 DEF DraftInv, DraftNumbers, WireNumbers
      <4>4. QED BY <4>1, <4>2, <4>3
    <3>2. QED BY <1>1, <3>1 DEF WireNumbers
  <2>4. CASE c \in LiveCreates
    <3>1. LiveCreates' = {} /\ LiveTold' = {} /\ LiveTold = {}
      BY <2>2, <2>4 DEF DraftInv, OneAwaited
    <3>2. Made(drafting) => drafting \in unsure
      BY <2>4, <3>1 DEF DraftInv, Finished, Answering, Opening, OneAwaited
    <3>3. QED BY <1>1, <1>2, <2>3, <3>1, <3>2, ClosedDrafts
  <2>5. CASE c \notin LiveCreates
    <3>1. "create" \in busy => "create" \in busy'
      BY <1>2, <2>5 DEF Released, LiveCreates
    <3>2. \A a \in LiveTold : a \in answers' \/ a.call.draft \in unsure'
      BY <1>2 DEF LiveTold
    <3>3. QED BY <1>1, <1>2, <2>2, <2>3, <3>1, <3>2, QuietDrafts
  <2>6. QED BY <2>4, <2>5
<1>3. ASSUME NEW a \in answers, wire' = wire, answers' = answers \ {a}, busy' = Released(a.call),
             unsure' = unsure \cup {a.call.draft}
      PROVE  DraftInv'
  <2>1. LiveCreates' \subseteq LiveCreates /\ WireNumbers' /\ unsure \subseteq unsure'
    BY <1>1, <1>3, WireStays
  <2>2. CASE a \in LiveTold
    <3>1. LiveCreates' = {} /\ LiveTold' = {}
      BY <1>3, <2>1, <2>2 DEF DraftInv, OneAwaited, LiveTold
    <3>2. Made(drafting) => drafting \in unsure'
      <4>1. \A b \in LiveTold : b = a
        BY <2>2 DEF DraftInv, OneAwaited
      <4>2. Answering => drafting \in unsure'
        BY <1>3, <4>1 DEF Answering
      <4>3. QED BY <1>3, <2>2, <4>2 DEF DraftInv, Finished, Opening, OneAwaited
    <3>3. QED BY <1>1, <2>1, <3>1, <3>2, ClosedDrafts
  <2>3. CASE a \notin LiveTold
    <3>1. "create" \in busy => "create" \in busy'
      BY <1>3, <2>3 DEF Released, LiveTold
    <3>2. \A b \in LiveTold : b \in answers' \/ b.call.draft \in unsure'
      BY <1>3, <2>3 DEF LiveTold
    <3>3. QED BY <1>1, <2>1, <3>1, <3>2, QuietDrafts
  <2>4. QED BY <2>2, <2>3
<1>4. QED BY <1>2, <1>3, LoseSteps

LEMMA AnswerDrafts ==
  ASSUME TypeInv, DraftInv, NEW a \in answers, Created(a) \/ Replaced(a) \/ Cloned(a) \/ Deleted(a) \/ Refused(a)
  PROVE  DraftInv'
<1>1. /\ UNCHANGED <<server, wire, at, drafting, unsure, calls>> /\ answers' = answers \ {a}
      /\ going' \in {a.id, going} /\ stored' \in {None, stored} /\ busy' \in {busy, Released(a.call)}
  BY AnswerSteps
<1>2. SameDrafts /\ rows' = rows /\ LiveCreates' = LiveCreates /\ WireNumbers' /\ LiveTold' = LiveTold \ {a}
  <2>1. SameDrafts /\ rows' = rows
    BY <1>1 DEF server, SameDrafts, Known
  <2>2. LiveCreates' = LiveCreates /\ LiveTold' = LiveTold \ {a}
    BY <1>1 DEF LiveCreates, LiveTold
  <2>3. WireNumbers'
    BY <1>1, WireStays
  <2>4. QED BY <2>1, <2>2, <2>3
<1>3. a.id # None
  BY MarksAssumption DEF TypeInv, NetTypes, AnswerRows
<1>4. CASE a \notin LiveTold
  <2>1. "create" \in busy => "create" \in busy'
    BY <1>1, <1>4 DEF Released, LiveTold
  <2>2. \A b \in LiveTold : b \in answers' \/ b.call.draft \in unsure'
    BY <1>1, <1>4 DEF LiveTold
  <2>3. QED BY <1>1, <1>2, <1>3, <2>1, <2>2, QuietDrafts
<1>5. CASE a \in LiveTold
  <2>1. LiveCreates' = {} /\ LiveTold' = {} /\ LiveCreates = {} /\ at = New /\ "create" \in busy
    BY <1>2, <1>5 DEF DraftInv, OneAwaited
  <2>2. CASE Created(a)
    <3>1. stored' = None /\ busy' = busy /\ going' = a.id
      BY <2>2 DEF Created
    <3>2. Opening'
      BY <1>3, <2>1, <3>1 DEF Opening
    <3>3. Finished'
      BY <1>1, <2>1, <3>1, <3>2 DEF Finished
    <3>4. OneBomPerDraft'
      BY <1>1, <1>2, DraftsStay DEF DraftInv
    <3>5. DraftNumbers'
      BY <1>1, <1>2 DEF DraftInv, DraftNumbers, SameDrafts
    <3>6. OneAwaited' /\ NotMade'
      BY <2>1 DEF OneAwaited, NotMade
    <3>7. QED BY <3>3, <3>4, <3>5, <3>6 DEF DraftInv
  <2>3. CASE Refused(a)
    <3>1. stored' = stored /\ ~a.ok
      BY <2>3 DEF Refused, draft
    <3>2. Made(drafting) => drafting \in unsure'
      <4>1. \A b \in LiveTold : b = a
        BY <1>5 DEF DraftInv, OneAwaited
      <4>2. ~Answering /\ ~Opening
        BY <1>5, <3>1, <4>1 DEF Answering, Opening
      <4>3. QED BY <1>1, <2>1, <4>2 DEF DraftInv, Finished
    <3>3. QED BY <1>1, <1>2, <2>1, <3>1, <3>2, ClosedDrafts
  <2>4. QED BY <1>5, <2>2, <2>3 DEF LiveTold, Replaced, Cloned, Deleted
<1>6. QED BY <1>4, <1>5

LEMMA StepDrafts ==
  ASSUME TypeInv, DraftInv, [Next]_vars
  PROVE  DraftInv'
<1>1. ASSUME SameDrafts, wire' \subseteq wire, answers' = answers, UNCHANGED <<at, drafting, calls, unsure, busy, stored>>,
             at = New /\ going # None => going' # None
      PROVE  DraftInv'
  <2>1. LiveCreates' \subseteq LiveCreates /\ WireNumbers'
    BY <1>1, WireStays
  <2>2. \A a \in LiveTold : a \in answers' \/ a.call.draft \in unsure'
    BY <1>1 DEF LiveTold
  <2>3. QED BY <1>1, <2>1, <2>2, QuietDrafts
<1>2. ASSUME NEW n \in Known, rows' = [rows EXCEPT ![n] = None], lastPart' = lastPart
      PROVE  SameDrafts
  <2>1. Known' = Known /\ rows'[n] = None /\ \A k \in Known \ {n} : rows'[k] = rows[k]
    BY <1>2, GoneTypes
  <2>2. QED BY <2>1 DEF SameDrafts
<1>3. ASSUME NEW n \in Known, OtherDeletes(n)
      PROVE  DraftInv'
  <2>1. SameDrafts
    BY <1>2, <1>3 DEF OtherDeletes
  <2>2. QED BY <1>1, <1>3, <2>1 DEF OtherDeletes, net, draft
<1>4. ASSUME NEW c \in wire, Delete(c)
      PROVE  DraftInv'
  <2>1. PICK n \in Known : n = c.id
    BY <1>4, DeleteTypes
  <2>2. rows' = [rows EXCEPT ![n] = None] /\ lastPart' = lastPart
    BY <1>4, <2>1 DEF Delete
  <2>3. SameDrafts
    BY <1>2, <2>2
  <2>4. /\ wire' \subseteq wire /\ answers \subseteq answers' /\ UNCHANGED <<at, going, drafting, calls, unsure, busy, stored>>
        /\ \A a \in answers' : a \in answers \/ a.call = c
    BY <1>4 DEF Delete, draft, Answered
  <2>5. LiveTold' = LiveTold /\ LiveCreates' \subseteq LiveCreates /\ WireNumbers'
    BY <1>4, <2>4, WireStays DEF LiveTold, Delete
  <2>6. (\A d : Made(d)' => Made(d)) /\ OneBomPerDraft'
    BY <2>3, <2>4, DraftsStay DEF DraftInv
  <2>7. DraftNumbers'
    <3>1. \A a \in answers' : a.call.kind = "create" => a \in answers
      BY <1>4, <2>4 DEF Delete
    <3>2. QED BY <2>3, <2>4, <2>5, <3>1 DEF DraftInv, DraftNumbers, SameDrafts
  <2>8. OneAwaited' /\ NotMade'
    BY <2>4, <2>5, <2>6 DEF DraftInv, OneAwaited, NotMade
  <2>9. Finished'
    <3>1. SUFFICES ASSUME Made(drafting)', drafting \notin unsure
                   PROVE  IF at = New THEN "create" \in busy /\ (Answering' \/ Opening') ELSE stored = None
      BY <2>4 DEF Finished
    <3>2. Made(drafting)
      BY <2>4, <2>6, <3>1 DEF Made
    <3>3. (Answering => Answering') /\ (Opening => Opening')
      BY <2>4, <2>5 DEF Answering, Opening
    <3>4. QED BY <3>1, <3>2, <3>3 DEF DraftInv, Finished
  <2>10. QED BY <2>6, <2>7, <2>8, <2>9 DEF DraftInv
<1>5. ASSUME NEW n \in Known, OtherSaves(n)
      PROVE  DraftInv'
  <2>1. PICK parts \in Seq(PartRows) : SaveBom(n, Others(parts), rows[n].draft)
    BY <1>5, OthersTypes
  <2>2. PICK body, d : body = Others(parts) /\ d = rows[n].draft
    OBVIOUS
  <2>3. body \in Compositions /\ d \in Nat /\ rows[n] # None /\ SaveBom(n, body, d)
    BY <1>5, <2>1, <2>2, ContentTypes, Rows DEF TypeInv, OtherSaves, HasRow
  <2>4. Known' = Known \cup {n} /\ rows'[n].draft = d /\ \A k \in Known \ {n} : rows'[k] = rows[k]
    BY <2>3, SavedRow DEF TypeInv
  <2>5. SameDrafts
    BY <2>2, <2>3, <2>4 DEF SameDrafts
  <2>6. QED BY <1>1, <1>5, <2>5 DEF OtherSaves, net, draft
<1>6. CASE Moves
  <2>1. SameDrafts
    BY <1>6 DEF Moves, SameDrafts, Known
  <2>2. QED BY <1>1, <1>6, <2>1 DEF Moves, net, page, draft
<1>7. CASE Stays
  <2>1. SameDrafts
    BY <1>7 DEF Stays, server, SameDrafts, Known
  <2>2. QED BY <1>1, <1>7, <2>1 DEF Stays, net, draft
<1>8. ASSUME NEW p, Leaves(p)
      PROVE  DraftInv'
  <2>1. /\ rows' = rows /\ calls' = calls /\ Mount(p, stored') /\ stored' \in {stored, None}
        /\ wire' = Deserted(wire) /\ answers' = DesertedAnswers(answers)
        /\ unsure' = unsure \cup Unanswered
    BY <1>8 DEF Leaves, Navigate, server
  <2>5. NetTypes
    BY DEF TypeInv
  <2>2. \A c \in wire' : ~c.live /\ \E d \in wire : c.kind = d.kind /\ c.draft = d.draft
    <3>1. \A c \in Deserted(wire) : ~c.live /\ \E d \in wire : c.kind = d.kind /\ c.draft = d.draft
      BY <2>5, DesertedCall
    <3>2. QED BY <2>1, <3>1
  <2>3. \A a \in answers' : ~a.call.live /\ \E b \in answers : a.call.kind = b.call.kind /\ a.call.draft = b.call.draft
    <3>1. \A a \in DesertedAnswers(answers) : ~a.call.live /\ \E b \in answers :
                                                   a.call.kind = b.call.kind /\ a.call.draft = b.call.draft
      BY <2>5, DesertedCall
    <3>2. QED BY <2>1, <3>1
  <2>4. QED BY <2>1, <2>2, <2>3, LeftDrafts
<1>9. CASE Reload
  <2>1. PICK p : /\ rows' = rows /\ calls' = calls /\ Mount(p, stored') /\ stored' \in {stored, None}
                 /\ wire' = {[c EXCEPT !.gone = TRUE, !.live = FALSE] : c \in wire} /\ answers' = {}
                 /\ unsure' = unsure \cup Unanswered
    BY <1>9 DEF Reload
  <2>2. ASSUME NEW c \in wire'
        PROVE  ~c.live /\ \E d \in wire : c.kind = d.kind /\ c.draft = d.draft
    <3>1. PICK d \in wire : c = [d EXCEPT !.gone = TRUE, !.live = FALSE]
      BY <2>1
    <3>2. d \in CallRows
      BY DEF TypeInv, NetTypes
    <3>3. ~c.live /\ c.kind = d.kind /\ c.draft = d.draft
      BY <3>1, <3>2 DEF CallRows
    <3>4. QED BY <3>3
  <2>3. QED BY <2>1, <2>2, LeftDrafts
<1>10. CASE OtherTab
  <2>1. /\ UNCHANGED <<server, net, page, unsure, calls>> /\ drafting' = calls + 1 /\ calls \in Nat
    BY <1>10 DEF OtherTab, TypeInv, CountTypes
  <2>2. UNCHANGED <<rows, wire, answers, at, busy, unsure, calls>> /\ SameDrafts
    BY <2>1 DEF server, net, page, SameDrafts, Known
  <2>3. LiveCreates' = LiveCreates /\ LiveTold' = LiveTold /\ (\A d : Made(d)' => Made(d)) /\ OneBomPerDraft'
    BY <2>2, DraftsStay DEF LiveCreates, LiveTold, DraftInv
  <2>4. DraftNumbers' /\ OneAwaited' /\ NotMade'
    BY <2>1, <2>2, <2>3 DEF DraftInv, DraftNumbers, WireNumbers, OneAwaited, NotMade, Known
  <2>5. ~(Made(drafting)')
    <3>1. \A n \in Known : rows[n] # None => rows[n].draft \in Nat /\ rows[n].draft <= calls
      BY Rows DEF TypeInv, DraftInv, DraftNumbers
    <3>2. QED BY <2>1, <2>2, <3>1 DEF Made, Known
  <2>6. QED BY <2>3, <2>4, <2>5 DEF DraftInv, Finished
<1>11. QED
  BY <1>3, <1>4, <1>5, <1>6, <1>7, <1>8, <1>9, <1>10, SaveDrafts, CallDrafts, TypeDrafts, AnswerDrafts, LoseDrafts,
     StepKinds

LEMMA InitDrafts == Init => DraftInv
<1> SUFFICES ASSUME Init PROVE DraftInv
  OBVIOUS
<1>1. /\ wire = {} /\ answers = {} /\ drafting = 1 /\ unsure = {} /\ calls = 0
      /\ \A n \in Known : n = 1 /\ rows[n].draft = 0
  BY Started DEF Init
<1>2. LiveCreates = {} /\ LiveTold = {} /\ ~Made(drafting)
  BY <1>1 DEF LiveCreates, LiveTold, Made
<1>3. QED
  BY <1>1, <1>2 DEF DraftInv, DraftNumbers, WireNumbers, OneAwaited, NotMade, OneBomPerDraft, Finished

(* A draft becomes two compositions only when the first could not be known: its
   page was left, reloaded or typed on while the composition was made, or the call
   or its answer was lost. *)
THEOREM OneBom == Spec => []OneBomPerDraft
<1>1. Init => TypeInv /\ DraftInv
  BY InitTypes, InitDrafts
<1>2. TypeInv /\ DraftInv /\ [Next]_vars => TypeInv' /\ DraftInv'
  BY StepTypes, StepDrafts
<1>3. DraftInv => OneBomPerDraft
  BY DEF DraftInv
<1>4. QED BY <1>1, <1>2, <1>3, PTL DEF Spec

-----------------------------------------------------------------------------
(* Saving again what the page shows *)

\* The rows that the first components name are among the second ones, in their order.
Embedding(f, parts, into) ==
  /\ \A i \in DOMAIN parts : parts[i].id # 0 => f[i] \in DOMAIN into /\ into[f[i]].id = parts[i].id
  /\ \A i, j \in DOMAIN parts : i < j /\ parts[i].id # 0 /\ parts[j].id # 0 => f[i] < f[j]
Embeds(parts, into) == \E f : Embedding(f, parts, into)

NamesDiffer ==
  \A j, k \in Known : rows[j] # None /\ rows[k] # None /\ rows[j].content.name = rows[k].content.name => j = k

\* A component that was saved had a unit that suited its resource at that time.
Measured(set, part) ==
  /\ part.resource \in Resources /\ part.unit \in Units
  /\ \E m \in set : m \in Materials /\ m.units[part.resource] \in {None, part.unit}
ResourcesGiven(set) == \A n \in Known : \A i \in DOMAIN Parts(n) : Measured(set, Parts(n)[i])

LEMMA AcceptedMeasured ==
  ASSUME ServerTypes, NEW set, material \in set, NEW part \in PartRows, NEW n, Acceptable(part, n)
  PROVE  Measured(set, part)
<1>1. part.resource \in Resources
  BY DEF Acceptable, PartRows
<1>2. material.units[part.resource] \in Units \cup {None}
  BY <1>1 DEF ServerTypes, Materials
<1>3. QED BY <1>1, <1>2 DEF Acceptable, Suiting, Measured, ServerTypes

\* Unless it was written from elsewhere, the composition of the page still has the
\* rows that the page knows, and so it will after the saves of the page.
RowsKnown ==
  /\ \A c \in wire : c.kind = "replace" /\ c.live => at = c.id
  /\ at \in Known /\ ~touched =>
       /\ HasRow(at) /\ Embeds(form.parts, Parts(at))
       /\ \A c \in wire : c.kind = "replace" /\ c.live => Embeds(form.parts, c.body.parts)

SavedInv(set) == NamesDiffer /\ ResourcesGiven(set) /\ RowsKnown

LEMMA EmbedsItself ==
  ASSUME NEW parts \in Seq(PartRows)
  PROVE  Embeds(parts, parts)
<1>1. Embedding([i \in DOMAIN parts |-> i], parts, parts)
  BY DEF Embedding
<1>2. QED BY <1>1 DEF Embeds

\* What is done to the components of the form leaves the order of the rows.
LEMMA RevisedEmbeds ==
  ASSUME NEW parts \in Seq(PartRows), NEW next, Revised(parts, next), NEW into, Embeds(parts, into)
  PROVE  Embeds(next, into)
<1>1. PICK f : Embedding(f, parts, into)
  BY DEF Embeds
<1>2. DOMAIN parts = 1..Len(parts) /\ Len(parts) \in Nat
  OBVIOUS
<1>3. CASE next = parts
  BY <1>3
<1>4. CASE next = Append(parts, Part(0, None, None, None))
  <2>1. \A i \in DOMAIN next : i \in Nat /\ ((i \in DOMAIN parts /\ next[i] = parts[i]) \/ next[i].id = 0)
    BY <1>4 DEF Part
  <2>2. Embedding(f, next, into)
    BY <1>1, <2>1 DEF Embedding
  <2>3. QED BY <2>2 DEF Embeds
<1>5. CASE \E i \in DOMAIN parts : next = Without(parts, i)
  <2>1. PICK i \in DOMAIN parts : next = Without(parts, i)
    BY <1>5
  <2> DEFINE s(j) == IF j < i THEN j ELSE j + 1
             g == [j \in DOMAIN next |-> f[s(j)]]
  <2>2. \A j \in DOMAIN next : j \in Nat /\ s(j) \in DOMAIN parts /\ next[j] = parts[s(j)]
    BY <2>1, WithoutPart
  <2>3. \A j, k \in DOMAIN next : j < k => s(j) < s(k)
    BY <1>2, <2>2
  <2>4. \A j \in DOMAIN next : g[j] = f[s(j)]
    OBVIOUS
  <2> HIDE DEF s, g
  <2>5. Embedding(g, next, into)
    BY <1>1, <2>2, <2>3, <2>4 DEF Embedding
  <2>6. QED BY <2>5 DEF Embeds
<1>6. CASE \E i \in DOMAIN parts, p \in PartRows :
             p.id = parts[i].id /\ Suited(p, parts[i]) /\ next = [parts EXCEPT ![i] = p]
  <2>1. PICK i \in DOMAIN parts, p \in PartRows : p.id = parts[i].id /\ next = [parts EXCEPT ![i] = p]
    BY <1>6
  <2>2. DOMAIN next = DOMAIN parts /\ \A j \in DOMAIN parts : next[j].id = parts[j].id
    BY <2>1
  <2>3. Embedding(f, next, into)
    BY <1>1, <2>2 DEF Embedding
  <2>4. QED BY <2>3 DEF Embeds
<1>7. QED BY <1>3, <1>4, <1>5, <1>6 DEF Revised

\* A save keeps the rows that are there already.
LEMMA SavedEmbeds ==
  ASSUME ServerTypes, NEW n, NEW parts \in Seq(PartRows), NEW body \in Seq(PartRows),
         Embeds(parts, body), Embeds(parts, Parts(n))
  PROVE  Embeds(parts, Numbered(body, n))
<1>1. PICK f : Embedding(f, parts, body)
  BY DEF Embeds
<1>2. PICK g : Embedding(g, parts, Parts(n))
  BY DEF Embeds
<1>3. DOMAIN Numbered(body, n) = DOMAIN body
        /\ \A i \in DOMAIN body : Found(body[i], n) => Numbered(body, n)[i] = body[i]
  BY NumberedTypes
<1>4. ASSUME NEW i \in DOMAIN parts, parts[i].id # 0
      PROVE  f[i] \in DOMAIN Numbered(body, n) /\ Numbered(body, n)[f[i]].id = parts[i].id
  <2>1. f[i] \in DOMAIN body /\ body[f[i]].id = parts[i].id
    BY <1>1, <1>4 DEF Embedding
  <2>2. Found(body[f[i]], n)
    BY <1>2, <1>4, <2>1 DEF Embedding, Found
  <2>3. QED BY <1>3, <2>1, <2>2
<1>5. Embedding(f, parts, Numbered(body, n))
  BY <1>1, <1>4 DEF Embedding
<1>6. QED BY <1>5 DEF Embeds

\* A set of numbers has a least element: the intervals from 0 are finite sets, which
\* are well founded.
LEMMA Least ==
  ASSUME NEW set \in SUBSET Nat, set # {}
  PROVE  \E n \in set : \A m \in set : n <= m
<1> DEFINE Below(n) == 0..n
           Intervals == {Below(n) : n \in set}
           R == StrictSubsetOrdering(Nat)
<1>1. Intervals \subseteq FiniteSubsetsOf(Nat) /\ Intervals # {}
  <2>1. \A n \in set : Below(n) \in FiniteSubsetsOf(Nat)
    BY FS_Interval DEF FiniteSubsetsOf
  <2>2. QED BY <2>1
<1>2. IsWellFoundedOn(R, FiniteSubsetsOf(Nat))
  BY FS_StrictSubsetOrderingWellFounded
<1>3. \E x \in Intervals : \A y \in Intervals : ~(<<y, x>> \in R)
  <2> HIDE DEF Intervals, R
  <2>1. QED BY <1>1, <1>2, WFMin
<1>4. PICK n \in set : \A m \in set : ~(<<Below(m), Below(n)>> \in R)
  BY <1>3
<1>5. \A m \in set : n <= m
  <2>1. SUFFICES ASSUME NEW m \in set, m < n PROVE FALSE
    OBVIOUS
  <2>2. Below(m) \subseteq Below(n) /\ n \in Below(n) /\ n \notin Below(m)
          /\ Below(m) \in SUBSET Nat /\ Below(n) \in SUBSET Nat
    BY <2>1
  <2>3. <<Below(m), Below(n)>> \in R
    BY <2>2 DEF StrictSubsetOrdering
  <2>4. QED BY <1>4, <2>3
<1>6. QED BY <1>5

\* Within a list of the same length, an order of rows leaves each at its place.
LEMMA InPlace ==
  ASSUME NEW n \in Nat, NEW f, \A i \in 1..n : f[i] \in 1..n, \A i, j \in 1..n : i < j => f[i] < f[j]
  PROVE  \A i \in 1..n : f[i] = i
<1>1. \A i \in 1..n : f[i] >= i
  <2> DEFINE wrong == {i \in 1..n : f[i] < i}
  <2>1. SUFFICES wrong = {}
    OBVIOUS
  <2>2. SUFFICES ASSUME wrong # {} PROVE FALSE
    OBVIOUS
  <2>0. wrong \in SUBSET Nat
    OBVIOUS
  <2>3. PICK i \in wrong : \A m \in wrong : i <= m
    <3> HIDE DEF wrong
    <3>1. QED BY <2>0, <2>2, Least
  <2>4. i \in 1..n /\ f[i] < i /\ f[i] \in 1..n
    OBVIOUS
  <2>5. i - 1 \in 1..n /\ i - 1 \notin wrong
    BY <2>3, <2>4
  <2>6. f[i - 1] >= i - 1 /\ f[i - 1] < f[i] /\ f[i - 1] \in 1..n
    BY <2>4, <2>5
  <2>7. QED BY <2>4, <2>6
<1>2. \A i \in 1..n : f[i] <= i
  <2> DEFINE wrong == {k \in 0..n : n - k \in 1..n /\ f[n - k] > n - k}
  <2>1. SUFFICES wrong = {}
    <3>1. ASSUME wrong = {}, NEW i \in 1..n PROVE f[i] <= i
      <4>1. n - i \in 0..n /\ n - (n - i) = i /\ f[i] \in 1..n
        OBVIOUS
      <4>5. \A k \in 0..n : ~(n - k \in 1..n /\ f[n - k] > n - k)
        BY <3>1
      <4>2. ~(f[n - (n - i)] > n - (n - i))
        BY <4>1, <4>5
      <4>3. ~(f[i] > i)
        BY <4>1, <4>2
      <4>4. QED BY <4>1, <4>3
    <3>2. QED BY <3>1
  <2>2. SUFFICES ASSUME wrong # {} PROVE FALSE
    OBVIOUS
  <2>3. wrong \in SUBSET Nat
    OBVIOUS
  <2>4. PICK k \in wrong : \A m \in wrong : k <= m
    <3> HIDE DEF wrong
    <3>1. QED BY <2>2, <2>3, Least
  <2>5. k \in 0..n /\ n - k \in 1..n /\ f[n - k] > n - k /\ f[n - k] \in 1..n
    OBVIOUS
  <2>6. k # 0
    BY <2>5
  <2>7. k - 1 \in 0..n /\ k - 1 \notin wrong /\ n - (k - 1) = n - k + 1 /\ n - k + 1 \in 1..n
    BY <2>4, <2>5, <2>6
  <2>8. f[n - k + 1] \in 1..n /\ f[n - k + 1] <= n - k + 1 /\ f[n - k] < f[n - k + 1]
    BY <2>5, <2>7
  <2>9. QED BY <2>5, <2>8
<1>3. QED BY <1>1, <1>2

LEMMA Saveable ==
  ASSUME TypeInv, SavedInv(past)
  PROVE  SavedAgain
<1>1. SUFFICES ASSUME at \in Known, ~touched, Agree(at),
                      \A i \in DOMAIN form.parts : /\ ~Remeasured(form.parts[i].resource)
                                                   /\ form.parts[i].resource \in active \/ ~Unplaced(i)
               PROVE  Allowed(at, form)
  BY DEF SavedAgain
<1>2. HasRow(at) /\ rows[at] # None /\ Parts(at) = rows[at].content.parts
  BY <1>1 DEF SavedInv, RowsKnown, HasRow, Parts
<1>3. PICK f : Embedding(f, form.parts, Parts(at))
  BY <1>1 DEF SavedInv, RowsKnown, Embeds
<1>4. PICK n \in Nat : n = Len(form.parts) /\ n = Len(Parts(at)) /\ DOMAIN form.parts = 1..n /\ DOMAIN Parts(at) = 1..n
  <2>1. form.parts \in Seq(PartRows) /\ Parts(at) \in Seq(PartRows)
    BY Rows DEF TypeInv, PageTypes, Compositions
  <2>2. QED BY <1>1, <2>1 DEF Agree
\* A row that the page knows is at its place, or nowhere else.
<1>5. ASSUME NEW i \in 1..n, ~Unplaced(i)
      PROVE  form.parts[i].id # 0 /\ Parts(at)[i].id = form.parts[i].id
  <2>1. CASE \E k \in 1..n : form.parts[k].id = 0
    <3>1. form.parts[i].id # 0 /\ \A j \in 1..n \ {i} : Parts(at)[j].id # form.parts[i].id
      BY <1>4, <1>5, <2>1 DEF Unplaced
    <3>2. f[i] \in 1..n /\ Parts(at)[f[i]].id = form.parts[i].id
      BY <1>3, <1>4, <3>1 DEF Embedding
    <3>3. QED BY <3>1, <3>2
  <2>2. CASE \A k \in 1..n : form.parts[k].id # 0
    <3>1. (\A k \in 1..n : f[k] \in 1..n) /\ \A j, k \in 1..n : j < k => f[j] < f[k]
      BY <1>3, <1>4, <2>2 DEF Embedding
    <3>2. f[i] = i
      BY <3>1, InPlace
    <3>3. QED BY <1>3, <1>4, <2>2, <3>2 DEF Embedding
  <2>3. QED BY <2>1, <2>2
<1>6. \A i \in DOMAIN form.parts : Acceptable(form.parts[i], at)
  <2>1. TAKE i \in DOMAIN form.parts
  <2>2. i \in 1..n /\ form.parts[i].resource = Parts(at)[i].resource /\ form.parts[i].unit = Parts(at)[i].unit
    BY <1>1, <1>4 DEF Agree
  <2>3. Measured(past, form.parts[i])
    BY <1>1, <1>4, <2>2 DEF SavedInv, ResourcesGiven, Measured
  <2>4. form.parts[i].unit \in Suiting(form.parts[i].resource)
    <3>1. material \in past
      BY DEF TypeInv, ServerTypes
    <3>2. material.units[form.parts[i].resource] \in {None, form.parts[i].unit}
      BY <1>1, <2>3, <3>1 DEF Measured, Remeasured
    <3>3. QED BY <2>3, <3>2 DEF Measured, Suiting
  <2>5. form.parts[i].resource # None
    BY <2>3, MarksAssumption DEF Measured
  <2>6. form.parts[i].resource \in active \/ Kept(form.parts[i], at)
    <3>1. CASE ~Unplaced(i)
      BY <1>4, <1>5, <2>2, <3>1 DEF Kept
    <3>2. QED BY <1>1, <3>1
  <2>7. QED BY <2>4, <2>5, <2>6 DEF Acceptable
<1>7. NameFree(form, at)
  BY <1>1, <1>2 DEF NameFree, SavedInv, NamesDiffer, Agree
<1>8. QED BY <1>2, <1>6, <1>7 DEF Allowed

\* What SavedInv(set) says of the compositions, after a save of one of them.
LEMMA SavedRows ==
  ASSUME TypeInv, NEW set, SavedInv(set), NEW n, n \in Known \/ n = Len(rows) + 1, NEW content \in Compositions, NEW d \in Nat,
         SaveBom(n, content, d), NameFree(content, n), \A i \in DOMAIN content.parts : Measured(set, content.parts[i])
  PROVE  /\ NamesDiffer' /\ ResourcesGiven(set)'
         /\ HasRow(n)' /\ \A k \in Known \ {n} : HasRow(k) => HasRow(k)'
         /\ Parts(n)' = Numbered(content.parts, n) /\ \A k \in Known \ {n} : Parts(k)' = Parts(k)
<1>1. content.parts \in Seq(PartRows)
  BY DEF Compositions
<1>2. /\ Known' = Known \cup {n} /\ rows'[n] # None
      /\ rows'[n].content.name = content.name /\ rows'[n].content.parts = Numbered(content.parts, n)
      /\ \A k \in Known \ {n} : rows'[k] = rows[k]
  BY SavedRow DEF TypeInv
<1>3. NamesDiffer'
  BY <1>2 DEF SavedInv, NamesDiffer, NameFree
<1>4. HasRow(n)' /\ \A k \in Known \ {n} : HasRow(k) => HasRow(k)'
  BY <1>2 DEF HasRow
<1>5. Parts(n)' = Numbered(content.parts, n) /\ \A k \in Known \ {n} : Parts(k)' = Parts(k)
  BY <1>2 DEF Parts
<1>6. \A i \in DOMAIN Numbered(content.parts, n) : Measured(set, Numbered(content.parts, n)[i])
  BY <1>1, NumberedTypes DEF TypeInv, Measured
<1>7. ResourcesGiven(set)'
  BY <1>2, <1>5, <1>6 DEF ResourcesGiven, SavedInv
<1>8. QED BY <1>3, <1>4, <1>5, <1>7

\* Steps that leave the compositions, or take one away.
LEMMA FewerRows ==
  ASSUME TypeInv, NEW set, SavedInv(set), Known' = Known, \A k \in Known : rows'[k] \in {rows[k], None}
  PROVE  NamesDiffer' /\ ResourcesGiven(set)'
<1>1. NamesDiffer'
  BY DEF SavedInv, NamesDiffer
<1>2. \A k \in Known : Parts(k)' \in {Parts(k), <<>>}
  BY DEF Parts
<1>3. ResourcesGiven(set)'
  BY <1>2 DEF SavedInv, ResourcesGiven
<1>4. QED BY <1>1, <1>3

\* Steps that leave the page, what it shows, and the compositions.
LEMMA QuietSaved ==
  ASSUME TypeInv, NEW set, SavedInv(set), rows' = rows, wire' \subseteq wire, UNCHANGED <<at, form, touched>>
  PROVE  SavedInv(set)'
<1>1. Known' = Known /\ (HasRow(at)' <=> HasRow(at)) /\ Parts(at)' = Parts(at)
  BY DEF Known, HasRow, Parts
<1>2. NamesDiffer' /\ ResourcesGiven(set)'
  BY <1>1, FewerRows
<1>3. RowsKnown'
  BY <1>1 DEF SavedInv, RowsKnown
<1>4. QED BY <1>2, <1>3 DEF SavedInv

\* A page that opens shows the composition as it is, and awaits nothing.
LEMMA OpenedSaved ==
  ASSUME TypeInv, NEW set, SavedInv(set), rows' = rows, NEW p, NEW kept, p \in {List, New, Elsewhere} \/ HasRow(p), Mount(p, kept),
         \A c \in wire' : ~c.live
  PROVE  SavedInv(set)'
<1>1. Known' = Known /\ NamesDiffer' /\ ResourcesGiven(set)'
  BY FewerRows DEF Known
<1>2. at' = p /\ form' = Fill(p, kept)
  BY DEF Mount
<1>3. CASE HasRow(p)
  <2>1. p # New
    BY <1>3, Rows, MarksAssumption DEF TypeInv, HasRow
  <2>2. Fill(p, kept) = rows[p].content /\ Parts(p) = rows[p].content.parts /\ Parts(p) \in Seq(PartRows)
    BY <1>3, <2>1, Rows DEF Fill, HasRow, Parts, TypeInv
  <2>3. HasRow(at)' /\ Parts(at)' = Parts(p) /\ form'.parts = Parts(p)
    BY <1>1, <1>2, <1>3, <2>2 DEF HasRow, Parts
  <2>4. RowsKnown'
    BY <2>2, <2>3, EmbedsItself DEF RowsKnown
  <2>5. QED BY <1>1, <2>4 DEF SavedInv
<1>4. CASE ~HasRow(p)
  <2>1. p \notin Known
    BY <1>4, Rows, MarksAssumption DEF TypeInv
  <2>2. RowsKnown'
    BY <1>1, <1>2, <2>1 DEF RowsKnown
  <2>3. QED BY <1>1, <2>2 DEF SavedInv
<1>5. QED BY <1>3, <1>4

LEMMA SaveSaved ==
  ASSUME TypeInv, NEW set, material \in set, SavedInv(set), NEW c \in wire, Save(c)
  PROVE  SavedInv(set)'
<1>1. PICK n, d, body :
        /\ n = (IF c.id = 0 THEN Len(rows) + 1 ELSE c.id) /\ d = (IF HasRow(n) THEN rows[n].draft ELSE c.draft) /\ body = c.body
        /\ wire' = wire \ {c}
        /\ \/ SaveBom(n, body, d) /\ Allowed(n, body)
           \/ rows' = rows
        /\ touched' = (touched \/ (c.id # 0 /\ c.id = at /\ ~c.live))
        /\ UNCHANGED <<at, form>> /\ c.kind # "delete"
  BY DEF Save
<1>2. c \in CallRows /\ Aimed(c) /\ touched \in BOOLEAN
  BY DEF TypeInv, NetTypes, PageTypes
<1>3. n \in Nat /\ (n \in Known \/ n = Len(rows) + 1) /\ body \in Compositions /\ body.parts \in Seq(PartRows)
  BY <1>1, <1>2, Rows DEF Aimed, TypeInv, CallRows, Compositions
<1>4. d \in Nat
  BY <1>1, <1>2, Rows DEF TypeInv, HasRow, CallRows
<1>5. CASE rows' = rows
  <2>1. Known' = Known /\ (HasRow(at)' <=> HasRow(at)) /\ Parts(at)' = Parts(at)
    BY <1>1, <1>5 DEF Known, HasRow, Parts
  <2>2. NamesDiffer' /\ ResourcesGiven(set)'
    BY <1>5, <2>1, FewerRows
  <2>3. RowsKnown'
    BY <1>1, <1>2, <2>1 DEF SavedInv, RowsKnown
  <2>4. QED BY <2>2, <2>3 DEF SavedInv
<1>6. CASE SaveBom(n, body, d) /\ Allowed(n, body)
  <2>1. NameFree(body, n) /\ \A i \in DOMAIN body.parts : Acceptable(body.parts[i], n)
    BY <1>6 DEF Allowed
  <2>8. \A i \in DOMAIN body.parts : Measured(set, body.parts[i])
    <3>1. \A i \in DOMAIN body.parts : body.parts[i] \in PartRows
      BY <1>3
    <3>2. QED BY <2>1, <3>1, AcceptedMeasured DEF TypeInv
  <2>2. /\ NamesDiffer' /\ ResourcesGiven(set)'
        /\ HasRow(n)' /\ \A k \in Known \ {n} : HasRow(k) => HasRow(k)'
        /\ Parts(n)' = Numbered(body.parts, n) /\ \A k \in Known \ {n} : Parts(k)' = Parts(k)
    BY <1>3, <1>4, <1>6, <2>1, <2>8, SavedRows
  <2>3. Known' = Known \cup {n}
    BY <1>3, <1>4, <1>6, SavedRow DEF TypeInv
  <2>4. at \in Known' => at \in Known
    <3>1. CASE n \in Known
      BY <2>3, <3>1
    <3>2. CASE n \notin Known
      <4>1. n # at
        BY <1>3, <3>2, MarksAssumption DEF TypeInv, PageTypes
      <4>2. QED BY <2>3, <4>1
    <3>3. QED BY <3>1, <3>2
  <2>5. ASSUME at \in Known, ~touched'
        PROVE  /\ HasRow(at)' /\ Embeds(form.parts, Parts(at)')
               /\ \A e \in wire : e.kind = "replace" /\ e.live => Embeds(form.parts, e.body.parts)
    <3>1. /\ HasRow(at) /\ Embeds(form.parts, Parts(at)) /\ ~touched
          /\ \A e \in wire : e.kind = "replace" /\ e.live => Embeds(form.parts, e.body.parts)
      BY <1>1, <1>2, <2>5 DEF SavedInv, RowsKnown
    <3>2. CASE n # at
      <4>1. at \in Known \ {n}
        BY <2>5, <3>2
      <4>2. HasRow(at)' /\ Parts(at)' = Parts(at)
        BY <1>1, <2>2, <4>1, <3>1 DEF HasRow, Parts
      <4>3. QED BY <3>1, <4>2
    <3>3. CASE n = at
      <4>1. c.kind = "replace" /\ c.live /\ c.id = at
        <5>1. c.id # 0
          BY <1>1, <2>5, <3>3, Rows DEF TypeInv, Known
        <5>2. c.id = at
          BY <1>1, <3>3, <5>1
        <5>3. c.kind = "replace"
          BY <1>1, <1>2, <5>1 DEF Aimed
        <5>4. c.live
          BY <1>1, <2>5, <5>1, <5>2
        <5>5. QED BY <5>2, <5>3, <5>4
      <4>2. Embeds(form.parts, body.parts)
        BY <1>1, <3>1, <4>1
      <4>3. form.parts \in Seq(PartRows)
        BY DEF TypeInv, PageTypes, Compositions
      <4>4. Embeds(form.parts, Numbered(body.parts, at))
        BY <1>3, <3>1, <4>2, <4>3, SavedEmbeds DEF TypeInv
      <4>5. HasRow(at)' /\ Parts(at)' = Numbered(body.parts, at)
        BY <1>1, <2>2, <3>3 DEF HasRow, Parts
      <4>6. QED BY <3>1, <4>4, <4>5
    <3>4. QED BY <3>2, <3>3
  <2>6. RowsKnown'
    BY <1>1, <2>4, <2>5 DEF SavedInv, RowsKnown
  <2>7. QED BY <2>2, <2>6 DEF SavedInv
<1>7. QED BY <1>1, <1>5, <1>6

LEMMA StepSaved ==
  ASSUME TypeInv, NEW set, material \in set, SavedInv(set), [Next]_vars
  PROVE  SavedInv(set)'
<1>0. touched \in BOOLEAN /\ form.parts \in Seq(PartRows) /\ \A c \in wire : c \in CallRows /\ Aimed(c)
  BY DEF TypeInv, PageTypes, NetTypes, Compositions
\* A composition that another administrator, or another page, deletes
<1>1. ASSUME NEW n \in Known, rows' = [rows EXCEPT ![n] = None], lastPart' = lastPart, wire' \subseteq wire,
             at' = at, form' = form, touched' = (touched \/ n = at)
      PROVE  SavedInv(set)'
  <2>1. Known' = Known /\ rows'[n] = None /\ \A k \in Known \ {n} : rows'[k] = rows[k]
    BY <1>1, GoneTypes
  <2>2. NamesDiffer' /\ ResourcesGiven(set)'
    BY <2>1, FewerRows
  <2>3. at # n /\ at \in Known => (HasRow(at)' <=> HasRow(at)) /\ Parts(at)' = Parts(at)
    BY <1>1, <2>1 DEF HasRow, Parts
  <2>4. RowsKnown'
    BY <1>0, <1>1, <2>1, <2>3 DEF SavedInv, RowsKnown
  <2>5. QED BY <2>2, <2>4 DEF SavedInv
<1>2. ASSUME NEW n \in Known, OtherDeletes(n)
      PROVE  SavedInv(set)'
  BY <1>1, <1>2 DEF OtherDeletes, net
<1>3. ASSUME NEW c \in wire, Delete(c)
      PROVE  SavedInv(set)'
  <2>1. PICK n \in Known : n = c.id
    BY <1>3, DeleteTypes
  <2>2. QED BY <1>1, <1>3, <2>1 DEF Delete
<1>4. ASSUME NEW n \in Known, OtherSaves(n)
      PROVE  SavedInv(set)'
  <2>1. PICK parts \in Seq(PartRows) :
          /\ SaveBom(n, Others(parts), rows[n].draft) /\ NameFree(Others(parts), n)
          /\ \A i \in DOMAIN parts : Acceptable(parts[i], n)
    BY <1>4, OthersTypes
  <2>2. PICK body, d : body = Others(parts) /\ d = rows[n].draft
    OBVIOUS
  <2>3. body \in Compositions /\ d \in Nat /\ body.parts = parts
    BY <1>4, <2>1, <2>2, ContentTypes, Rows DEF TypeInv, OtherSaves, HasRow, Others, Content
  <2>12. \A i \in DOMAIN parts : Measured(set, parts[i])
    <3>1. \A i \in DOMAIN parts : parts[i] \in PartRows
      OBVIOUS
    <3>2. QED BY <2>1, <3>1, AcceptedMeasured DEF TypeInv
  <2>8. SaveBom(n, body, d) /\ NameFree(body, n) /\ \A i \in DOMAIN body.parts : Measured(set, body.parts[i])
    BY <2>1, <2>2, <2>3, <2>12
  <2>4. /\ NamesDiffer' /\ ResourcesGiven(set)'
        /\ HasRow(n)' /\ \A k \in Known \ {n} : HasRow(k) => HasRow(k)'
        /\ Parts(n)' = Numbered(body.parts, n) /\ \A k \in Known \ {n} : Parts(k)' = Parts(k)
    BY <2>3, <2>8, SavedRows
  <2>11. ServerTypes /\ (n \in Known \/ n = Len(rows) + 1) /\ SaveBom(n, body, d)
    BY <2>8 DEF TypeInv
  <2>5. Known' = Known
    <3>1. Known' = Known \cup {n}
      BY <2>3, <2>11, SavedRow
    <3>2. QED BY <3>1
  <2>6. /\ wire' = wire /\ at' = at /\ form' = form /\ touched' = (touched \/ n = at)
    BY <1>4 DEF OtherSaves, net
  <2>9. at # n /\ at \in Known => (HasRow(at) => HasRow(at)') /\ Parts(at)' = Parts(at)
    BY <2>4, <2>6 DEF HasRow, Parts
  <2>7. RowsKnown'
    BY <1>0, <2>5, <2>6, <2>9 DEF SavedInv, RowsKnown
  <2>10. QED BY <2>4, <2>7 DEF SavedInv
<1>5. CASE Moves
  BY <1>5, QuietSaved DEF Moves, net, page
<1>6. CASE Stays
  BY <1>6, QuietSaved DEF Stays, server, net
<1>7. ASSUME NEW p, Leaves(p)
      PROVE  SavedInv(set)'
  <2>1. rows' = rows /\ (p \in {List, New, Elsewhere} \/ HasRow(p)) /\ Mount(p, stored') /\ wire' = Deserted(wire)
    BY <1>7 DEF Leaves, Navigate, server
  <2>2. \A c \in wire' : ~c.live
    <3>1. \A c \in Deserted(wire) : ~c.live
      BY DesertedCall DEF TypeInv
    <3>2. QED BY <2>1, <3>1
  <2>3. QED BY <2>1, <2>2, OpenedSaved
<1>8. CASE Reload
  <2>1. PICK p : p = (IF at \in Known /\ ~HasRow(at) THEN Elsewhere ELSE at)
    OBVIOUS
  <2>2. rows' = rows /\ Mount(p, stored) /\ wire' = {[c EXCEPT !.gone = TRUE, !.live = FALSE] : c \in wire}
    BY <1>8, <2>1 DEF Reload
  <2>3. p \in {List, New, Elsewhere} \/ HasRow(p)
    BY <2>1 DEF TypeInv, PageTypes
  <2>4. ASSUME NEW c \in wire'
        PROVE  ~c.live
    <3>1. PICK d \in wire : c = [d EXCEPT !.gone = TRUE, !.live = FALSE]
      BY <2>2
    <3>2. QED BY <1>0, <3>1 DEF CallRows
  <2>5. QED BY <2>2, <2>3, <2>4, OpenedSaved
<1>9. ASSUME NEW next \in Fields(typed + 1), Type(next)
      PROVE  SavedInv(set)'
  <2>1. Revised(form.parts, next.parts)
    BY FieldsTypes DEF TypeInv, PageTypes, CountTypes
  <2>2. rows' = rows /\ wire' = wire /\ form' = next /\ UNCHANGED <<at, touched>>
    BY <1>9 DEF Type, server, net
  <2>3. \A into : Embeds(form.parts, into) => Embeds(next.parts, into)
    BY <1>0, <2>1, RevisedEmbeds
  <2>4. Known' = Known /\ (HasRow(at)' <=> HasRow(at)) /\ Parts(at)' = Parts(at) /\ NamesDiffer' /\ ResourcesGiven(set)'
    BY <2>2, FewerRows DEF Known, HasRow, Parts
  <2>5. RowsKnown'
    BY <2>2, <2>3, <2>4 DEF SavedInv, RowsKnown
  <2>6. QED BY <2>4, <2>5 DEF SavedInv
<1>10. ASSUME NEW kind, NEW id, NEW body, Asks(kind, id, body)
       PROVE  SavedInv(set)'
  <2>1. PICK c : /\ c = [kind |-> kind, id |-> id, body |-> body, draft |-> IF kind = "create" THEN drafting ELSE 0,
                         nth |-> calls, live |-> TRUE, gone |-> FALSE]
                 /\ wire' = wire \cup {c} /\ UNCHANGED <<server, at, form, touched>>
    BY <1>10 DEF Asks, Call
  <2>2. c.kind = kind /\ c.id = id /\ c.body = body
    BY <2>1
  <2>3. Known' = Known /\ (HasRow(at)' <=> HasRow(at)) /\ Parts(at)' = Parts(at) /\ NamesDiffer' /\ ResourcesGiven(set)'
    BY <2>1, FewerRows DEF server, Known, HasRow, Parts
  <2>4. c.kind = "replace" => at = c.id /\ Embeds(form.parts, c.body.parts)
    BY <1>0, <1>10, <2>2, EmbedsItself DEF Asks
  <2>5. RowsKnown'
    BY <2>1, <2>3, <2>4 DEF SavedInv, RowsKnown
  <2>6. QED BY <2>3, <2>5 DEF SavedInv
<1>11. CASE OtherTab
  BY <1>11, QuietSaved DEF OtherTab, server, net, page
<1>12. ASSUME NEW a \in answers, Created(a) \/ Replaced(a) \/ Cloned(a) \/ Deleted(a) \/ Refused(a)
       PROVE  SavedInv(set)'
  <2>1. UNCHANGED <<server, wire, at, form, touched>>
    BY <1>12, AnswerSteps
  <2>2. QED BY <2>1, QuietSaved DEF server
<1>13. CASE Lose
  <2>1. UNCHANGED <<server, at, form, touched>>
    BY <1>13 DEF Lose
  <2>2. CASE wire' \subseteq wire
    BY <2>1, <2>2, QuietSaved DEF server
  <2>3. CASE \E c \in wire : wire' = (wire \ {c}) \cup {[c EXCEPT !.gone = TRUE]}
    <3>1. PICK c \in wire : wire' = (wire \ {c}) \cup {[c EXCEPT !.gone = TRUE]}
      BY <2>3
    <3>2. PICK e : e = [c EXCEPT !.gone = TRUE]
      OBVIOUS
    <3>3. e.kind = c.kind /\ e.id = c.id /\ e.body = c.body /\ (e.live <=> c.live)
      BY <1>0, <3>2 DEF CallRows
    <3>4. \A g \in wire' : g \in wire \/ g = e
      BY <3>1, <3>2
    <3>5. Known' = Known /\ (HasRow(at)' <=> HasRow(at)) /\ Parts(at)' = Parts(at) /\ NamesDiffer' /\ ResourcesGiven(set)'
      BY <2>1, FewerRows DEF server, Known, HasRow, Parts
    <3>6. RowsKnown'
      BY <2>1, <3>3, <3>4, <3>5 DEF SavedInv, RowsKnown
    <3>7. QED BY <3>5, <3>6 DEF SavedInv
  <2>4. QED BY <1>13, <2>2, <2>3, LoseSteps
<1>14. QED
  BY <1>2, <1>3, <1>4, <1>5, <1>6, <1>7, <1>8, <1>9, <1>10, <1>11, <1>12, <1>13, SaveSaved, StepKinds

LEMMA InitSaved == Init => SavedInv(past)
<1> SUFFICES ASSUME Init PROVE SavedInv(past)
  OBVIOUS
<1>1. \A n \in Known : n = 1 /\ rows[n] # None
        /\ rows[n].content.parts \in {<<>>} \cup {<<Priced(o)>> : o \in Offers}
  BY Started
<1>2. NamesDiffer
  BY <1>1 DEF NamesDiffer
<1>3. \A o \in Offers : \A i \in DOMAIN <<Priced(o)>> : Measured(past, <<Priced(o)>>[i])
  <2>1. TAKE o \in Offers
  <2>2. material.owner[o] \in Resources /\ material.units[material.owner[o]] \in Units /\ material \in Materials
          /\ material \in past
    BY Started
  <2>3. Measured(past, Priced(o))
    BY <2>2 DEF Measured, Priced, Part
  <2>4. QED BY <2>3
<1>4. ResourcesGiven(past)
  BY <1>1, <1>3 DEF ResourcesGiven, Parts
<1>5. at = List /\ wire = {} /\ List \notin Known
  <2>1. at = List /\ wire = {}
    BY DEF Init
  <2>2. QED BY <2>1, InitTypes, Rows, MarksAssumption DEF TypeInv
<1>6. QED BY <1>2, <1>4, <1>5 DEF SavedInv, RowsKnown

\* A component that was measured stays so as the material moves on.
LEMMA StepSavedPast ==
  ASSUME TypeInv, SavedInv(past), [Next]_vars
  PROVE  SavedInv(past)'
<1>1. PICK set : set = past
  OBVIOUS
<1>2. material \in set /\ SavedInv(set)
  BY <1>1 DEF TypeInv, ServerTypes
<1>3. SavedInv(set)'
  BY <1>2, StepSaved
<1>4. set \subseteq past'
  BY <1>1, PastStays
<1>5. QED BY <1>3, <1>4 DEF SavedInv, ResourcesGiven, Measured

(* What the page of a composition shows, as it is on the server, can be saved
   again, also after one of its resources was deactivated, unless the composition
   was written from elsewhere since the page was opened, or a component is of a
   resource whose unit was edited, or of one no longer active while the page does
   not know the row at its place. *)
THEOREM ShownIsSaved == Spec => []SavedAgain
<1>1. Init => TypeInv /\ SavedInv(past)
  BY InitTypes, InitSaved
<1>2. TypeInv /\ SavedInv(past) /\ [Next]_vars => TypeInv' /\ SavedInv(past)'
  BY StepTypes, StepSavedPast
<1>3. TypeInv /\ SavedInv(past) => SavedAgain
  BY Saveable
<1>4. QED BY <1>1, <1>2, <1>3, PTL DEF Spec
=============================================================================
