-------------------------- MODULE CatalogDeskProofs --------------------------
(* What the pages of the catalog and the publication of products promise for any
   number of products, texts, calls and events. *)
EXTENDS CatalogDesk, SequenceTheorems, TLAPS

-----------------------------------------------------------------------------
(* Types *)

CallKinds == {"create", "update", "delete", "publish", "unpublish"}
Slots == {"save", "publish", "delete"}
CallRows ==
  [kind : CallKinds, slot : Slots, id : {New} \cup Nat, body : Contents, mark : BOOLEAN, draft : Nat,
   snapshot : Views \cup {None}, pushed : BOOLEAN, alone : BOOLEAN, nth : Nat, live : BOOLEAN, gone : BOOLEAN]
AnswerRows == [call : CallRows, ok : BOOLEAN]

\* A new product has a draft and is not published; any other call is about a product
\* that was made.  A publication goes step by step.
Aimed(c) ==
  /\ c.kind \in {"create", "update"} <=> c.slot = "save"
  /\ IF c.kind = "create" THEN c.mark = FALSE ELSE c.id \in Known /\ c.draft = 0
  /\ c.snapshot # None => c.kind \in Publication
  /\ c.pushed => c.snapshot # None

IsList(list) == \A n \in DOMAIN list : list[n] \in Views \cup {None}

ServerTypes ==
  /\ rows \in Seq(Products \cup {None}) /\ storefront \in Seq(Contents \cup {None})
  /\ Len(storefront) = Len(rows) /\ crossed \subseteq Known
NetTypes ==
  /\ wire \subseteq CallRows /\ answers \subseteq AnswerRows /\ settling \subseteq AnswerRows
  /\ \A c \in wire : Aimed(c)
  /\ \A a \in answers \cup settling : Aimed(a.call)
ListTypes ==
  /\ cache # None => IsList(cache)
  /\ fetch \notin {None, Sent} => IsList(fetch)
PageTypes ==
  /\ at \in {List, New} \cup Known
  /\ form \in Contents /\ mark \in BOOLEAN /\ follows \in BOOLEAN /\ dirty \in BOOLEAN /\ alert \in BOOLEAN
  /\ busy \subseteq Slots
  /\ at = New => ~mark
DraftTypes ==
  /\ stored \in Contents \cup {None} /\ drafting \in Nat /\ unsure \subseteq Nat /\ meddled \in BOOLEAN
CountTypes == typed \in Nat /\ calls \in Nat /\ events \in Nat

TypeInv == ServerTypes /\ NetTypes /\ ListTypes /\ PageTypes /\ DraftTypes /\ CountTypes

LEMMA ContentTypes == Empty \in Contents /\ Whole \in Contents /\ Others \in Contents
BY BoundsAssumption DEF Empty, Whole, Others, Filled, Contents

LEMMA Rows ==
  ASSUME ServerTypes
  PROVE  /\ Len(rows) \in Nat /\ Known = DOMAIN rows /\ Known = DOMAIN storefront
         /\ \A n \in Known : n \in Nat /\ n # 0 /\ rows[n] \in Products \cup {None}
         /\ \A n \in Known : storefront[n] \in Contents \cup {None}
         /\ \A n \in Known : rows[n] # None =>
              rows[n].content \in Contents /\ rows[n].published \in BOOLEAN /\ rows[n].draft \in Nat
<1>1. /\ Len(rows) \in Nat /\ Known = DOMAIN rows /\ Known = DOMAIN storefront
      /\ \A n \in Known : n \in Nat /\ n # 0 /\ rows[n] \in Products \cup {None}
      /\ \A n \in Known : storefront[n] \in Contents \cup {None}
  BY DEF ServerTypes, Known
<1>2. QED BY <1>1 DEF Products

LEMMA CopyTypes ==
  ASSUME ServerTypes, NEW n \in Known
  PROVE  /\ Copy(rows[n]) \in Views \cup {None}
         /\ rows[n] # None => Copy(rows[n]) \in Views /\ Copy(rows[n]) # None
              /\ Copy(rows[n]).published = rows[n].published
BY Rows, NoneAssumption DEF Copy, Views

\* One row changes.
LEMMA Changed ==
  ASSUME ServerTypes, NEW n \in Known, NEW row \in Products \cup {None}, rows' = [rows EXCEPT ![n] = row]
  PROVE  /\ rows' \in Seq(Products \cup {None}) /\ Len(rows') = Len(rows) /\ Known' = Known
         /\ rows'[n] = row /\ \A k \in Known \ {n} : rows'[k] = rows[k]
BY DEF ServerTypes, Known

LEMMA Projected ==
  ASSUME ServerTypes, NEW n \in Known, NEW content \in Contents \cup {None},
         storefront' = [storefront EXCEPT ![n] = content]
  PROVE  /\ storefront' \in Seq(Contents \cup {None}) /\ Len(storefront') = Len(storefront)
         /\ storefront'[n] = content /\ \A k \in Known \ {n} : storefront'[k] = storefront[k]
BY DEF ServerTypes, Known

LEMMA FieldsTypes ==
  ASSUME form \in Contents, NEW k \in Nat, NEW next \in Fields(k)
  PROVE  next \in Contents
<1>1. CASE next \in InformationFields(k)
  <2>1. form.code \in Nat
    BY DEF Contents
  <2>2. \/ \E code \in Nat : next = [form EXCEPT !.name = k, !.code = code]
        \/ \E code \in Nat : next = [form EXCEPT !.code = code]
    <3>1. CASE follows
      BY <1>1, <2>1, <3>1 DEF InformationFields
    <3>2. CASE ~follows
      BY <1>1, <2>1, <3>2 DEF InformationFields
    <3>3. QED BY <3>1, <3>2
  <2>3. QED BY <2>2 DEF Contents
<1>2. CASE next \in ClassificationFields(k)
  BY <1>2 DEF ClassificationFields, Contents
<1>3. CASE next \in CompositionFields(k) \cup ModeFields(k) \cup AvailabilityFields(k)
  BY <1>3 DEF CompositionFields, ModeFields, AvailabilityFields, Contents
<1>4. CASE next \in OptionFields(k)
  BY <1>4 DEF OptionFields, Contents
<1>5. QED BY <1>1, <1>2, <1>3, <1>4 DEF Fields

\* What is noted of a call leaves the call.
Same(d, c) ==
  /\ d \in CallRows /\ d.kind = c.kind /\ d.slot = c.slot /\ d.id = c.id /\ d.body = c.body /\ d.mark = c.mark
  /\ d.draft = c.draft /\ d.snapshot = c.snapshot /\ d.pushed = c.pushed /\ d.alone = c.alone

LEMMA CallFields ==
  ASSUME NEW c \in CallRows
  PROVE  /\ LET d == [c EXCEPT !.live = FALSE] IN Same(d, c) /\ d.gone = c.gone /\ d.live = FALSE
         /\ LET d == [c EXCEPT !.gone = TRUE] IN Same(d, c) /\ d.live = c.live /\ d.gone = TRUE
BY DEF CallRows, Same

LEMMA AnswerFields ==
  ASSUME NEW a \in AnswerRows
  PROVE  LET b == [a EXCEPT !.call.live = FALSE] IN
         /\ b \in AnswerRows /\ b.ok = a.ok /\ Same(b.call, a.call)
         /\ b.call.gone = a.call.gone /\ b.call.live = FALSE
<1>1. a.call \in CallRows
  BY DEF AnswerRows
<1>2. Same([a.call EXCEPT !.live = FALSE], a.call) /\ [a.call EXCEPT !.live = FALSE].gone = a.call.gone
        /\ [a.call EXCEPT !.live = FALSE].live = FALSE /\ [a.call EXCEPT !.live = FALSE] \in CallRows
  BY <1>1, CallFields DEF Same
<1>3. [a EXCEPT !.call.live = FALSE] = [a EXCEPT !.call = [a.call EXCEPT !.live = FALSE]]
  OBVIOUS
<1>4. [a EXCEPT !.call.live = FALSE].call = [a.call EXCEPT !.live = FALSE]
        /\ [a EXCEPT !.call.live = FALSE] \in AnswerRows /\ [a EXCEPT !.call.live = FALSE].ok = a.ok
  BY <1>2, <1>3 DEF AnswerRows
<1>5. QED BY <1>2, <1>4

LEMMA SameAimed ==
  ASSUME NEW c, NEW d, Same(d, c), Aimed(c), Known \subseteq Known'
  PROVE  Aimed(d)'
BY DEF Same, Aimed

LEMMA AimedStays ==
  ASSUME NEW c, Aimed(c), Known \subseteq Known'
  PROVE  Aimed(c)'
BY DEF Aimed

LEMMA AnswerRow ==
  ASSUME NEW c \in CallRows, NEW ok \in BOOLEAN
  PROVE  /\ Answered(c, ok) \subseteq AnswerRows
         /\ \A a \in Answered(c, ok) : a.call = c /\ a.ok = ok /\ ~c.gone
BY DEF Answered, AnswerRows

-----------------------------------------------------------------------------
(* Steps keep the types *)

LEMMA ServerStays ==
  ASSUME TypeInv, UNCHANGED server
  PROVE  ServerTypes' /\ Known' = Known
BY DEF TypeInv, ServerTypes, server, Known

\* Calls and answers go on as they are, or only their notes change.
LEMMA NetStays ==
  ASSUME TypeInv, Known \subseteq Known',
         \A c \in wire' : \E d \in wire : c = d \/ Same(c, d),
         answers' \subseteq AnswerRows, settling' \subseteq AnswerRows,
         \A a \in answers' \cup settling' :
           (\E b \in answers \cup settling : a.call = b.call \/ Same(a.call, b.call)) \/ \E c \in wire : a.call = c
  PROVE  NetTypes'
<1>1. ASSUME NEW c \in wire'
      PROVE  c \in CallRows /\ Aimed(c)'
  <2>1. PICK d \in wire : c = d \/ Same(c, d)
    OBVIOUS
  <2>2. d \in CallRows /\ Aimed(d)
    BY DEF TypeInv, NetTypes
  <2>3. QED BY <2>1, <2>2, SameAimed, AimedStays DEF Same
<1>2. ASSUME NEW a \in answers' \cup settling'
      PROVE  Aimed(a.call)'
  <2>1. CASE \E b \in answers \cup settling : a.call = b.call \/ Same(a.call, b.call)
    <3>1. PICK b \in answers \cup settling : a.call = b.call \/ Same(a.call, b.call)
      BY <2>1
    <3>2. Aimed(b.call)
      BY DEF TypeInv, NetTypes
    <3>3. QED BY <3>1, <3>2, SameAimed, AimedStays
  <2>2. CASE \E c \in wire : a.call = c
    <3>1. PICK c \in wire : a.call = c
      BY <2>2
    <3>2. Aimed(a.call)
      BY <3>1 DEF TypeInv, NetTypes
    <3>3. QED BY <3>2, AimedStays
  <2>3. QED BY <2>1, <2>2
<1>3. QED BY <1>1, <1>2 DEF NetTypes

LEMMA RestStays ==
  ASSUME TypeInv, Known \subseteq Known'
  PROVE  /\ UNCHANGED <<cache, fetch>> => ListTypes'
         /\ UNCHANGED page => PageTypes'
         /\ UNCHANGED draft => DraftTypes'
         /\ UNCHANGED <<typed, calls, events>> => CountTypes'
<1>1. UNCHANGED <<cache, fetch>> => ListTypes'
  BY DEF TypeInv, ListTypes
<1>2. UNCHANGED page => PageTypes'
  BY DEF TypeInv, PageTypes, page, editor
<1>3. UNCHANGED draft => DraftTypes'
  BY DEF TypeInv, DraftTypes, draft
<1>4. UNCHANGED <<typed, calls, events>> => CountTypes'
  BY DEF TypeInv, CountTypes
<1>5. QED BY <1>1, <1>2, <1>3, <1>4

LEMMA ExecuteTypes ==
  ASSUME TypeInv, NEW c \in wire, Execute(c)
  PROVE  TypeInv'
<1>1. c \in CallRows /\ Aimed(c) /\ c.kind \notin Publication
  BY DEF TypeInv, NetTypes, Execute
<1>2. PICK ok \in BOOLEAN :
        /\ answers' = answers \cup Answered(c, ok) /\ (ok => Allowed(c))
        /\ IF ok
           THEN /\ rows' = Result(c)
                /\ storefront' = IF c.kind = "create" THEN Append(storefront, None) ELSE storefront
                /\ crossed' = IF Crossing(c) THEN crossed \cup {c.id} ELSE crossed
           ELSE UNCHANGED server
  <2>1. \A x \in {Allowed(c), FALSE} : x => Allowed(c)
    OBVIOUS
  <2>2. PICK x \in {Allowed(c), FALSE} :
          /\ answers' = answers \cup Answered(c, x)
          /\ IF x
             THEN /\ rows' = Result(c)
                  /\ storefront' = IF c.kind = "create" THEN Append(storefront, None) ELSE storefront
                  /\ crossed' = IF Crossing(c) THEN crossed \cup {c.id} ELSE crossed
             ELSE UNCHANGED server
    BY DEF Execute
  <2>3. Allowed(c) \in BOOLEAN
    BY <1>1 DEF Allowed, CallRows, CallKinds, Publication, CodeFree
  <2>4. QED BY <2>1, <2>2, <2>3
<1>3. /\ wire' = wire \ {c}
      /\ UNCHANGED <<settling, cache, fetch, page, draft, typed, calls, events>>
  BY DEF Execute
<1>4. CASE ~ok
  <2>1. ServerTypes' /\ Known' = Known
    BY <1>2, <1>4, ServerStays
  <2>2. NetTypes'
    BY <1>1, <1>2, <1>3, <2>1, AnswerRow, NetStays DEF TypeInv, NetTypes
  <2>3. QED BY <1>3, <2>1, <2>2, RestStays DEF TypeInv
<1>5. CASE ok
  <2>1. Known \subseteq Known' /\ ServerTypes'
    <3>1. CASE c.kind = "create"
      <4>1. Product(c.body, c.mark, c.draft) \in Products
        BY <1>1 DEF CallRows, Product, Products
      <4>2. rows' = Append(rows, Product(c.body, c.mark, c.draft)) /\ storefront' = Append(storefront, None)
              /\ crossed' = crossed
        BY <1>2, <1>5, <3>1 DEF Result, Crossing
      <4>3. rows' \in Seq(Products \cup {None}) /\ Len(rows') = Len(rows) + 1
              /\ storefront' \in Seq(Contents \cup {None}) /\ Len(storefront') = Len(storefront) + 1
        BY <4>1, <4>2, AppendProperties DEF TypeInv, ServerTypes
      <4>4. Known \subseteq Known'
        BY <4>3, Rows DEF TypeInv, Known
      <4>5. QED BY <4>2, <4>3, <4>4 DEF TypeInv, ServerTypes
    <3>2. CASE c.kind = "update"
      <4>1. c.id \in Known /\ rows[c.id] \in Products
        BY <1>1, <1>2, <1>5, <3>2, Rows DEF TypeInv, Aimed, Allowed
      <4>2. rows' = [rows EXCEPT ![c.id] = [rows[c.id] EXCEPT !.content = c.body, !.published = c.mark]]
              /\ storefront' = storefront /\ crossed' \subseteq crossed \cup {c.id}
        <5>1. rows' = [[rows EXCEPT ![c.id].content = c.body] EXCEPT ![c.id].published = c.mark]
          BY <1>2, <1>5, <3>2 DEF Result
        <5>2. c.id \in DOMAIN rows
          BY <4>1, Rows DEF TypeInv
        <5>3. QED BY <1>2, <1>5, <3>2, <5>1, <5>2
      <4>3. [rows[c.id] EXCEPT !.content = c.body, !.published = c.mark] \in Products
        BY <1>1, <4>1 DEF CallRows, Products
      <4>4. PICK row \in Products : rows' = [rows EXCEPT ![c.id] = row]
        BY <4>2, <4>3
      <4>5. rows' \in Seq(Products \cup {None}) /\ Len(rows') = Len(rows) /\ Known' = Known
        BY <4>1, <4>4, Changed DEF TypeInv
      <4>6. QED BY <4>1, <4>2, <4>5 DEF TypeInv, ServerTypes
    <3>3. CASE c.kind = "delete"
      <4>1. c.id \in Known
        BY <1>1, <3>3 DEF Aimed
      <4>2. rows' = [rows EXCEPT ![c.id] = None]
              /\ storefront' = storefront /\ crossed' \subseteq crossed \cup {c.id}
        BY <1>2, <1>5, <3>3 DEF Result
      <4>3. rows' \in Seq(Products \cup {None}) /\ Len(rows') = Len(rows) /\ Known' = Known
        BY <4>1, <4>2, Changed DEF TypeInv
      <4>4. QED BY <4>1, <4>2, <4>3 DEF TypeInv, ServerTypes
    <3>4. QED BY <1>1, <3>1, <3>2, <3>3 DEF CallRows, CallKinds, Publication
  <2>2. NetTypes'
    BY <1>1, <1>2, <1>3, <2>1, AnswerRow, NetStays DEF TypeInv, NetTypes
  <2>3. QED BY <1>3, <2>1, <2>2, RestStays DEF TypeInv
<1>6. QED BY <1>4, <1>5

LEMMA BeginTypes ==
  ASSUME TypeInv, NEW c \in wire, Begin(c)
  PROVE  TypeInv'
<1>1. c \in CallRows /\ Aimed(c) /\ c.kind \in Publication /\ c.id \in Known /\ ~c.pushed
  BY DEF TypeInv, NetTypes, Begin, Aimed, Publication
<1>2. UNCHANGED <<rows, storefront, settling, cache, fetch, page, draft, typed, calls, events>>
  BY DEF Begin
<1>3. Known' = Known
  BY <1>2 DEF Known
<1>4. crossed' \subseteq Known' => ServerTypes'
  BY <1>2, <1>3 DEF TypeInv, ServerTypes
<1>5. CASE rows[c.id] = None
  <2>1. wire' = wire \ {c} /\ answers' = answers \cup Answered(c, FALSE) /\ crossed' = crossed
    BY <1>5 DEF Begin
  <2>2. NetTypes'
    BY <1>1, <1>2, <1>3, <2>1, AnswerRow, NetStays DEF TypeInv, NetTypes
  <2>3. QED BY <1>2, <1>3, <1>4, <2>1, <2>2, RestStays DEF TypeInv, ServerTypes
<1>6. CASE rows[c.id] # None
  <2> DEFINE e(alone) == [c EXCEPT !.snapshot = Copy(rows[c.id]), !.alone = alone]
  <2>1. /\ wire' = (wire \ (Running(c.id) \cup {c})) \cup {[d EXCEPT !.alone = FALSE] : d \in Running(c.id)}
                     \cup {e(Running(c.id) = {})}
        /\ crossed' = (IF Running(c.id) = {} THEN crossed ELSE crossed \cup {c.id}) /\ answers' = answers
    BY <1>6 DEF Begin
  <2>2. Copy(rows[c.id]) \in Views
    BY <1>1, <1>6, CopyTypes DEF TypeInv
  <2>3. ASSUME NEW alone \in BOOLEAN
        PROVE  e(alone) \in CallRows /\ Aimed(e(alone))
    <3>1. e(alone) \in CallRows /\ e(alone).kind = c.kind /\ e(alone).slot = c.slot /\ e(alone).id = c.id
            /\ e(alone).draft = c.draft /\ e(alone).mark = c.mark /\ e(alone).pushed = c.pushed
      BY <1>1, <2>2 DEF CallRows
    <3>2. QED BY <1>1, <3>1 DEF Aimed
  <2>4. ASSUME NEW d \in Running(c.id)
        PROVE  [d EXCEPT !.alone = FALSE] \in CallRows /\ Aimed([d EXCEPT !.alone = FALSE])
    <3>1. d \in CallRows /\ Aimed(d)
      BY <2>4 DEF Running, TypeInv, NetTypes
    <3>2. QED BY <3>1 DEF CallRows, Aimed
  <2>5. (Running(c.id) = {}) \in BOOLEAN
    OBVIOUS
  <2> HIDE DEF e
  <2>6. \A d \in wire' : d \in CallRows /\ Aimed(d)
    BY <2>1, <2>3, <2>4, <2>5 DEF TypeInv, NetTypes
  <2>7. NetTypes'
    BY <1>2, <1>3, <2>1, <2>6, AimedStays DEF TypeInv, NetTypes
  <2>8. crossed' \subseteq Known'
    BY <1>1, <1>3, <2>1 DEF TypeInv, ServerTypes
  <2>9. QED BY <1>2, <1>3, <1>4, <2>7, <2>8, RestStays DEF TypeInv
<1>7. QED BY <1>5, <1>6

LEMMA PushTypes ==
  ASSUME TypeInv, NEW c \in wire, Push(c)
  PROVE  TypeInv'
<1>1. c \in CallRows /\ Aimed(c) /\ c.kind \in Publication /\ c.id \in Known /\ c.snapshot \in Views
  BY DEF TypeInv, NetTypes, Push, Aimed, Publication, CallRows
<1>2. Projection(c) \in Contents \cup {None}
  BY <1>1 DEF Projection, Views
<1>3. /\ storefront' \in {storefront, [storefront EXCEPT ![c.id] = Projection(c)]}
      /\ crossed' \in {crossed, crossed \cup {c.id}} /\ events' \in {events, events + 1}
      /\ \/ wire' = (wire \ {c}) \cup {[c EXCEPT !.pushed = TRUE]} /\ answers' = answers
         \/ wire' = wire \ {c} /\ answers' = answers \cup Answered(c, FALSE)
      /\ UNCHANGED <<rows, settling, cache, fetch, page, draft, typed, calls>>
  BY DEF Push
<1>4. Known' = Known
  BY <1>3 DEF Known
<1>5. storefront' \in Seq(Contents \cup {None}) /\ Len(storefront') = Len(storefront)
  BY <1>1, <1>2, <1>3, Projected DEF TypeInv, ServerTypes
<1>6. ServerTypes'
  BY <1>1, <1>3, <1>4, <1>5 DEF TypeInv, ServerTypes
<1>7. [c EXCEPT !.pushed = TRUE] \in CallRows /\ Aimed([c EXCEPT !.pushed = TRUE])
  <2>1. c.snapshot # None
    BY DEF Push
  <2>2. QED BY <1>1, <2>1 DEF CallRows, Aimed
<1>8. NetTypes'
  <2>1. \A d \in wire' : d \in CallRows /\ Aimed(d)
    BY <1>3, <1>7 DEF TypeInv, NetTypes
  <2>2. \A a \in answers' : a \in AnswerRows /\ Aimed(a.call)
    BY <1>1, <1>3, AnswerRow DEF TypeInv, NetTypes
  <2>3. QED BY <1>3, <1>4, <2>1, <2>2, AimedStays DEF TypeInv, NetTypes
<1>9. CountTypes'
  BY <1>3 DEF TypeInv, CountTypes
<1>10. QED BY <1>3, <1>4, <1>6, <1>8, <1>9, RestStays DEF TypeInv

LEMMA MarkedRow ==
  ASSUME TypeInv, NEW c \in wire, c.kind \in Publication, c.snapshot # None, rows[c.id] # None
  PROVE  \E row \in Products :
           /\ Marked(c) = [rows EXCEPT ![c.id] = row]
           /\ row.published = (c.kind = "publish") /\ row.draft = rows[c.id].draft
<1>1. c \in CallRows /\ c.id \in Known /\ c.snapshot.content \in Contents
  BY DEF TypeInv, NetTypes, Aimed, Publication, CallRows, Views
<1>2. rows[c.id] \in Products /\ rows \in Seq(Products \cup {None}) /\ c.id \in DOMAIN rows
  BY <1>1, Rows DEF TypeInv, ServerTypes
<1> DEFINE content == [c.snapshot.content EXCEPT !.boms = rows[c.id].content.boms,
                                                  !.modes = rows[c.id].content.modes,
                                                  !.options = rows[c.id].content.options]
           row == [rows[c.id] EXCEPT !.published = (c.kind = "publish"), !.content = content]
<1>3. content \in Contents
  BY <1>1, <1>2 DEF Products, Contents
<1>4. Marked(c) = [rows EXCEPT ![c.id] = row]
  BY <1>2 DEF Marked
<1>5. (c.kind = "publish") \in BOOLEAN
  OBVIOUS
<1> HIDE DEF content
<1>6. row \in Products /\ row.published = (c.kind = "publish") /\ row.draft = rows[c.id].draft
  <2>1. ASSUME NEW published \in BOOLEAN
        PROVE  /\ [rows[c.id] EXCEPT !.published = published, !.content = content] \in Products
               /\ [rows[c.id] EXCEPT !.published = published, !.content = content].published = published
               /\ [rows[c.id] EXCEPT !.published = published, !.content = content].draft = rows[c.id].draft
    BY <1>2, <1>3 DEF Products
  <2>2. QED BY <1>5, <2>1, Zenon
<1>7. QED BY <1>4, <1>6

LEMMA CommitTypes ==
  ASSUME TypeInv, NEW c \in wire, Commit(c)
  PROVE  TypeInv'
<1>1. c \in CallRows /\ Aimed(c) /\ c.kind \in Publication /\ c.id \in Known /\ c.snapshot # None
  BY DEF TypeInv, NetTypes, Commit, Aimed, Publication
<1>2. PICK ok \in BOOLEAN :
        /\ wire' = wire \ {c} /\ answers' = answers \cup Answered(c, ok)
        /\ rows' = rows \/ (rows[c.id] # None /\ rows' = Marked(c))
        /\ crossed' \subseteq crossed
        /\ UNCHANGED <<storefront, settling, cache, fetch, page, draft, typed, calls, events>>
  <2> DEFINE changes == c.snapshot.published # (c.kind = "publish")
             ok == ~changes \/ rows[c.id] # None
             now == IF changes /\ ok THEN Marked(c) ELSE rows
  <2>1. ok \in BOOLEAN
    OBVIOUS
  <2>2. /\ wire' = wire \ {c} /\ answers' = answers \cup Answered(c, ok) /\ rows' = now
        /\ crossed' \subseteq crossed
        /\ UNCHANGED <<storefront, settling, cache, fetch, page, draft, typed, calls, events>>
    BY DEF Commit
  <2>3. now = rows \/ (rows[c.id] # None /\ now = Marked(c))
    OBVIOUS
  <2> HIDE DEF ok, now, changes
  <2>4. QED BY <2>1, <2>2, <2>3
<1>3. rows' \in Seq(Products \cup {None}) /\ Len(rows') = Len(rows) /\ Known' = Known
  <2>1. CASE rows' = rows
    BY <2>1 DEF TypeInv, ServerTypes, Known
  <2>2. CASE rows[c.id] # None /\ rows' = Marked(c)
    <3>1. PICK row \in Products : rows' = [rows EXCEPT ![c.id] = row]
      BY <1>1, <2>2, MarkedRow
    <3>2. QED BY <1>1, <3>1, Changed DEF TypeInv
  <2>3. QED BY <1>2, <2>1, <2>2
<1>4. ServerTypes'
  BY <1>2, <1>3 DEF TypeInv, ServerTypes
<1>5. NetTypes'
  BY <1>1, <1>2, <1>3, AnswerRow, NetStays DEF TypeInv, NetTypes
<1>6. QED BY <1>2, <1>3, <1>4, <1>5, RestStays DEF TypeInv

LEMMA OtherTypes ==
  ASSUME TypeInv, NEW n \in Known, OtherWrites(n)
  PROVE  TypeInv'
<1>1. rows[n] \in Products
  BY Rows DEF TypeInv, OtherWrites
<1>2. \E row \in Products \cup {None} : rows' = [rows EXCEPT ![n] = row]
  <2>1. [rows[n] EXCEPT !.content = Others] \in Products
    BY <1>1, ContentTypes DEF Products
  <2>2. \A published \in BOOLEAN : [rows[n] EXCEPT !.published = published] \in Products
    BY <1>1 DEF Products
  <2>3. QED BY <2>1, <2>2 DEF OtherWrites
<1>3. \E content \in Contents \cup {None} : storefront' = [storefront EXCEPT ![n] = content] \/ storefront' = storefront
  BY <1>1 DEF OtherWrites, Products
<1>4. /\ crossed' \subseteq crossed \cup {n} /\ events' = events + 1
      /\ UNCHANGED <<net, cache, fetch, page, draft, typed, calls>>
  BY DEF OtherWrites
<1>5. rows' \in Seq(Products \cup {None}) /\ Len(rows') = Len(rows) /\ Known' = Known
  BY <1>2, Changed DEF TypeInv
<1>6. storefront' \in Seq(Contents \cup {None}) /\ Len(storefront') = Len(storefront)
  BY <1>3, Projected DEF TypeInv, ServerTypes
<1>7. ServerTypes'
  BY <1>4, <1>5, <1>6 DEF TypeInv, ServerTypes
<1>8. NetTypes' /\ CountTypes'
  BY <1>4, <1>5, AimedStays DEF TypeInv, NetTypes, CountTypes, net
<1>9. QED BY <1>4, <1>5, <1>7, <1>8, RestStays DEF TypeInv

LEMMA CopiesTypes ==
  ASSUME ServerTypes
  PROVE  IsList(Copies)
BY CopyTypes DEF Copies, IsList

\* An editor is filled from the list or from the draft.
LEMMA FillTypes ==
  ASSUME NEW p, NEW list, NEW kept \in Contents \cup {None}, Open(p, list), IsList(list), Fill(p, list, kept)
  PROVE  form' \in Contents /\ mark' \in BOOLEAN /\ follows' \in BOOLEAN /\ (p = New => ~mark')
<1>1. p # New => list[p] \in Views
  BY DEF Open, Listed, IsList
<1>2. form' \in Contents
  BY <1>1, ContentTypes DEF Fill, Views
<1>3. mark' \in BOOLEAN /\ follows' \in BOOLEAN /\ (p = New => ~mark')
  BY DEF Fill
<1>4. QED BY <1>2, <1>3

LEMMA ArriveTypes ==
  ASSUME TypeInv, Arrive
  PROVE  TypeInv'
<1>1. cache' = fetch /\ fetch' = None /\ fetch \notin {None, Sent} /\ Arrived(cache')
        /\ UNCHANGED <<server, net, at, alert, busy, draft, typed, calls, events>>
  BY DEF Arrive
<1>2. ServerTypes' /\ Known' = Known
  BY <1>1, ServerStays DEF server
<1>3. ListTypes' /\ IsList(cache')
  BY <1>1 DEF TypeInv, ListTypes
<1>4. form' \in Contents /\ mark' \in BOOLEAN /\ follows' \in BOOLEAN /\ dirty' \in BOOLEAN /\ (at = New => ~mark')
  <2>1. CASE Open(at, cache') /\ ~Open(at, cache)
    <3>1. Fill(at, cache', stored) /\ dirty' = FALSE
      BY <1>1, <2>1 DEF Arrived
    <3>2. stored \in Contents \cup {None}
      BY DEF TypeInv, DraftTypes
    <3>3. QED BY <1>3, <2>1, <3>1, <3>2, FillTypes
  <2>2. CASE ~(Open(at, cache') /\ ~Open(at, cache))
    <3>1. \/ form' = Empty /\ mark' = FALSE /\ follows' = FALSE /\ UNCHANGED dirty
          \/ UNCHANGED <<form, mark, follows, dirty>>
      BY <1>1, <2>2 DEF Arrived, editor
    <3>2. form \in Contents /\ mark \in BOOLEAN /\ follows \in BOOLEAN /\ dirty \in BOOLEAN /\ (at = New => ~mark)
      BY DEF TypeInv, PageTypes
    <3>3. CASE form' = Empty /\ mark' = FALSE /\ follows' = FALSE /\ UNCHANGED dirty
      BY <3>2, <3>3, ContentTypes
    <3>4. CASE UNCHANGED <<form, mark, follows, dirty>>
      BY <3>2, <3>4
    <3>5. QED BY <3>1, <3>3, <3>4
  <2>3. QED BY <2>1, <2>2
<1>5. PageTypes'
  BY <1>1, <1>2, <1>4 DEF TypeInv, PageTypes
<1>6. NetTypes' /\ DraftTypes' /\ CountTypes'
  BY <1>1, <1>2, AimedStays DEF TypeInv, NetTypes, DraftTypes, CountTypes, net, draft
<1>7. QED BY <1>2, <1>3, <1>5, <1>6 DEF TypeInv

LEMMA MountTypes ==
  ASSUME TypeInv, NEW p \in {List, New} \cup Known, NEW list, list # None => IsList(list),
         NEW kept \in Contents \cup {None}, Mount(p, list, kept), rows' = rows
  PROVE  PageTypes'
<1>1. /\ at' = p /\ busy' = {} /\ dirty' = FALSE /\ alert' = FALSE
      /\ IF Open(p, list)
         THEN Fill(p, list, kept)
         ELSE form' = Empty /\ mark' = FALSE /\ follows' = FALSE
  BY DEF Mount
<1>2. form' \in Contents /\ mark' \in BOOLEAN /\ follows' \in BOOLEAN /\ (p = New => ~mark')
  <2>1. CASE Open(p, list)
    BY <1>1, <2>1, FillTypes DEF Open
  <2>2. CASE ~Open(p, list)
    BY <1>1, <2>2, ContentTypes
  <2>3. QED BY <2>1, <2>2
<1>3. QED BY <1>1, <1>2 DEF PageTypes, Known

\* Leaving a page only takes its calls out of its hands.
LEMMA DesertedCall ==
  ASSUME NetTypes, NEW done
  PROVE  /\ \A c \in Deserted(wire) : ~c.live /\ \E d \in wire : Same(c, d) /\ c.gone = d.gone
         /\ \A a \in DesertedAnswers(answers \ done) :
              a \in AnswerRows /\ ~a.call.live
                /\ \E b \in answers \ done : Same(a.call, b.call) /\ a.ok = b.ok
         /\ \A a \in DesertedAnswers(settling \ done) :
              a \in AnswerRows /\ ~a.call.live
                /\ \E b \in settling \ done : Same(a.call, b.call) /\ a.ok = b.ok
<1>1. ASSUME NEW c \in Deserted(wire)
      PROVE  ~c.live /\ \E d \in wire : Same(c, d) /\ c.gone = d.gone
  <2>1. PICK d \in wire : c = [d EXCEPT !.live = FALSE]
    BY DEF Deserted
  <2>2. d \in CallRows
    BY DEF NetTypes
  <2>3. QED BY <2>1, <2>2, CallFields
<1>2. ASSUME NEW set, set \subseteq AnswerRows, NEW a \in DesertedAnswers(set)
      PROVE  a \in AnswerRows /\ ~a.call.live /\ \E b \in set : Same(a.call, b.call) /\ a.ok = b.ok
  <2>1. PICK b \in set : a = [b EXCEPT !.call.live = FALSE]
    BY DEF DesertedAnswers
  <2>2. b \in AnswerRows
    BY <1>2
  <2>3. QED BY <2>1, <2>2, AnswerFields
<1>3. answers \ done \subseteq AnswerRows /\ settling \ done \subseteq AnswerRows
  BY DEF NetTypes
<1>4. QED BY <1>1, <1>2, <1>3

LEMMA UnansweredTypes ==
  ASSUME NetTypes
  PROVE  Unanswered \subseteq Nat
BY DEF NetTypes, Unanswered, CallRows, AnswerRows

LEMMA NavigateTypes ==
  ASSUME TypeInv, NEW p \in {List, New} \cup Known, NEW kept \in Contents \cup {None}, NEW done,
         Navigate(p, kept, done), rows' = rows
  PROVE  PageTypes' /\ NetTypes' /\ unsure' \subseteq Nat
<1>1. PageTypes'
  BY MountTypes DEF Navigate, TypeInv, ListTypes
<1>2. unsure' \subseteq Nat
  BY UnansweredTypes DEF Navigate, TypeInv, DraftTypes
<1>3. wire' = Deserted(wire) /\ answers' = DesertedAnswers(answers \ done) /\ settling' = DesertedAnswers(settling \ done)
  BY DEF Navigate
<1>4. Known \subseteq Known'
  BY DEF Known
<1>5. NetTypes
  BY DEF TypeInv
<1>6. \A c \in wire' : \E d \in wire : Same(c, d)
  BY <1>3, <1>5, DesertedCall
<1>7. \A a \in answers' \cup settling' : a \in AnswerRows /\ \E b \in answers \cup settling : Same(a.call, b.call)
  <2>1. ASSUME NEW a \in answers'
        PROVE  a \in AnswerRows /\ \E b \in answers : Same(a.call, b.call)
    BY <1>3, <1>5, DesertedCall
  <2>2. ASSUME NEW a \in settling'
        PROVE  a \in AnswerRows /\ \E b \in settling : Same(a.call, b.call)
    BY <1>3, <1>5, DesertedCall
  <2>3. QED BY <2>1, <2>2
<1>8. NetTypes'
  <2>1. answers' \subseteq AnswerRows /\ settling' \subseteq AnswerRows
    BY <1>7
  <2>2. QED BY <1>4, <1>6, <1>7, <2>1, NetStays
<1>9. QED BY <1>1, <1>2, <1>8

LEMMA CallTypes ==
  ASSUME TypeInv, NEW kind \in CallKinds, NEW slot \in Slots, NEW id \in {New} \cup Nat, Call(slot, kind, id),
         kind \in {"create", "update"} <=> slot = "save",
         IF kind = "create" THEN ~mark ELSE id \in Known
  PROVE  TypeInv'
<1> DEFINE c == [kind |-> kind, slot |-> slot, id |-> id, body |-> form, mark |-> mark,
                 draft |-> IF kind = "create" THEN drafting ELSE 0, snapshot |-> None,
                 pushed |-> FALSE, alone |-> FALSE, nth |-> calls, live |-> TRUE, gone |-> FALSE]
<1>1. c \in CallRows
  <2>1. form \in Contents /\ mark \in BOOLEAN /\ drafting \in Nat /\ calls \in Nat
    BY DEF TypeInv, PageTypes, DraftTypes, CountTypes
  <2>2. QED BY <2>1 DEF CallRows
<1>2. Aimed(c)
  BY DEF Aimed, TypeInv, PageTypes
<1>3. wire' = wire \cup {c} /\ busy' = busy \cup {slot} /\ calls' = calls + 1
        /\ UNCHANGED <<server, answers, settling, cache, fetch, at, editor, dirty, alert, draft, typed, events>>
  BY DEF Call
<1> HIDE DEF c
<1>4. ServerTypes' /\ Known' = Known
  BY <1>3, ServerStays
<1>5. NetTypes'
  <2>1. \A d \in wire' : d \in CallRows /\ Aimed(d)
    BY <1>1, <1>2, <1>3 DEF TypeInv, NetTypes
  <2>2. QED BY <1>3, <1>4, <2>1, AimedStays DEF TypeInv, NetTypes
<1>6. ListTypes' /\ PageTypes'
  BY <1>3, <1>4 DEF TypeInv, ListTypes, PageTypes, editor
<1>7. DraftTypes' /\ CountTypes'
  BY <1>3 DEF TypeInv, DraftTypes, CountTypes, draft
<1>8. QED BY <1>4, <1>5, <1>6, <1>7 DEF TypeInv

\* What the pages ask of the server.
Asks(slot, kind, id) ==
  /\ Call(slot, kind, id)
  /\ kind \in CallKinds /\ slot \in Slots
  /\ kind \in {"create", "update"} <=> slot = "save"
  /\ IF kind = "create" THEN id = New /\ at = New ELSE id \in Known

LEMMA AsksTypes ==
  ASSUME TypeInv, NEW slot, NEW kind, NEW id, Asks(slot, kind, id)
  PROVE  TypeInv'
<1>1. kind # "create" => id \in Nat
  BY Rows DEF Asks, TypeInv
<1>2. kind = "create" => ~mark
  BY DEF Asks, TypeInv, PageTypes
<1>3. id \in {New} \cup Nat /\ (IF kind = "create" THEN ~mark ELSE id \in Known)
  BY <1>1, <1>2 DEF Asks
<1>4. QED BY <1>3, CallTypes DEF Asks

LEMMA SaveAsks ==
  ASSUME TypeInv, Save
  PROVE  \E kind : Asks("save", kind, at) /\ Complete
<1>1. Editing /\ Complete /\ Call("save", IF at = New THEN "create" ELSE "update", at)
  BY DEF Save
<1>2. at # New => at \in Known
  BY <1>1 DEF Editing, Open, TypeInv, PageTypes
<1>3. CASE at = New
  BY <1>1, <1>3 DEF Asks, CallKinds, Slots
<1>4. CASE at # New
  BY <1>1, <1>2, <1>4 DEF Asks, CallKinds, Slots
<1>5. QED BY <1>3, <1>4

\* The steps of the tab and of those around it
LEMMA StepKinds ==
  ASSUME TypeInv, [Next]_vars
  PROVE  \/ \E c \in wire : Execute(c) \/ Begin(c) \/ Push(c) \/ Commit(c)
         \/ \E n \in Known : OtherWrites(n)
         \/ \E slot, kind, id : Asks(slot, kind, id)
         \/ Refetch \/ Read \/ Arrive
         \/ \E p \in {List, New} \cup Known : Visit(p)
         \/ Reload
         \/ \E next \in Fields(typed + 1) : Type(next)
         \/ RequestCancel \/ CloseAlert \/ CloseAndDeleteDraft \/ CloseAndKeepDraft \/ OtherTab
         \/ \E a \in answers : Deliver(a) \/ Refused(a)
         \/ \E a \in settling : Saved(a) \/ Finished(a)
         \/ Lose
         \/ UNCHANGED vars
<1>1. ASSUME NEW n \in Known, Publish(n) \/ Unpublish(n) \/ Delete(n)
      PROVE  \E slot, kind, id : Asks(slot, kind, id)
  <2>1. Call("publish", "publish", n) \/ Call("publish", "unpublish", n) \/ Call("delete", "delete", n)
    BY <1>1 DEF Publish, Unpublish, Delete
  <2>2. Asks("publish", "publish", n) \/ Asks("publish", "unpublish", n) \/ Asks("delete", "delete", n)
    BY <2>1 DEF Asks, CallKinds, Slots
  <2>3. QED BY <2>2
<1>2. CASE Next
  BY <1>1, <1>2, SaveAsks DEF Next
<1>3. QED BY <1>2

LEMMA StepTypes ==
  ASSUME TypeInv, [Next]_vars
  PROVE  TypeInv'
<1>1. ASSUME UNCHANGED server, NetTypes', ListTypes', PageTypes', DraftTypes', CountTypes'
      PROVE  TypeInv'
  BY <1>1, ServerStays DEF TypeInv
<1>2. ASSUME UNCHANGED server
      PROVE  Known \subseteq Known' /\ rows' = rows
  BY <1>2 DEF server, Known
<1>3. ASSUME UNCHANGED server, wire' \subseteq wire, answers' \cup settling' \subseteq answers \cup settling
      PROVE  NetTypes'
  BY <1>2, <1>3, AimedStays DEF TypeInv, NetTypes
<1>4. CASE Refetch \/ Read
  <2>1. /\ UNCHANGED <<server, net, cache, page, draft, typed, calls, events>>
        /\ fetch' = Sent \/ fetch' = Copies
    BY <1>4 DEF Refetch, Read
  <2>2. ListTypes'
    BY <2>1, CopiesTypes DEF TypeInv, ListTypes
  <2>3. NetTypes'
    BY <1>3, <2>1 DEF net
  <2>4. QED BY <1>1, <1>2, <2>1, <2>2, <2>3, RestStays
<1>5. ASSUME NEW p \in {List, New} \cup Known, Visit(p)
      PROVE  TypeInv'
  <2>1. Navigate(p, stored, {}) /\ meddled' = FALSE
          /\ UNCHANGED <<server, cache, fetch, stored, drafting, typed, calls, events>>
    BY <1>5 DEF Visit
  <2>2. PageTypes' /\ NetTypes' /\ unsure' \subseteq Nat
    <3>1. stored \in Contents \cup {None}
      BY DEF TypeInv, DraftTypes
    <3>2. QED BY <1>2, <2>1, <3>1, NavigateTypes
  <2>3. DraftTypes'
    BY <2>1, <2>2 DEF TypeInv, DraftTypes
  <2>4. QED BY <1>1, <1>2, <2>1, <2>2, <2>3, RestStays
<1>6. CASE Reload
  <2>1. /\ events' = events + 1 /\ wire' = {[c EXCEPT !.gone = TRUE] : c \in wire}
        /\ answers' = {} /\ settling' = {} /\ unsure' = unsure \cup Unanswered
        /\ cache' = None /\ fetch' = Sent /\ Mount(at, cache', stored) /\ meddled' = FALSE
        /\ UNCHANGED <<server, stored, drafting, typed, calls>>
    BY <1>6 DEF Reload
  <2>2. \A c \in wire' : \E d \in wire : Same(c, d)
    <3>1. \A d \in wire : Same([d EXCEPT !.gone = TRUE], d)
      BY CallFields DEF TypeInv, NetTypes
    <3>2. QED BY <2>1, <3>1
  <2>3. NetTypes'
    BY <1>2, <2>1, <2>2, NetStays
  <2>4. PageTypes'
    BY <1>2, <2>1, MountTypes DEF TypeInv, PageTypes, DraftTypes
  <2>5. ListTypes'
    BY <2>1 DEF ListTypes
  <2>6. DraftTypes'
    BY <2>1, UnansweredTypes DEF TypeInv, DraftTypes
  <2>7. CountTypes'
    BY <2>1 DEF TypeInv, CountTypes
  <2>8. QED BY <1>1, <2>1, <2>3, <2>4, <2>5, <2>6, <2>7
<1>7. ASSUME NEW next \in Fields(typed + 1), Type(next)
      PROVE  TypeInv'
  <2>1. next \in Contents
    BY FieldsTypes DEF TypeInv, PageTypes, CountTypes
  <2>2. /\ typed' = typed + 1 /\ form' = next
        /\ follows' = (follows /\ (next.code = form.code \/ next.name # form.name))
        /\ dirty' = TRUE /\ stored' = (IF at = New THEN next ELSE stored) /\ meddled' = FALSE
        /\ UNCHANGED <<server, net, cache, fetch, at, mark, alert, busy, drafting, unsure, calls, events>>
    BY <1>7 DEF Type
  <2>3. follows' \in BOOLEAN
    BY <2>2
  <2>4. PageTypes'
    BY <1>2, <2>1, <2>2, <2>3 DEF TypeInv, PageTypes
  <2>5. DraftTypes' /\ CountTypes'
    <3>1. stored' \in Contents \cup {None} /\ meddled' \in BOOLEAN /\ typed' \in Nat
      <4>1. stored \in Contents \cup {None} /\ typed \in Nat
        BY DEF TypeInv, DraftTypes, CountTypes
      <4>2. stored' \in {next, stored} /\ meddled' = FALSE /\ typed' = typed + 1
        BY <1>7 DEF Type
      <4>3. stored' \in Contents \cup {None}
        BY <2>1, <4>1, <4>2
      <4>4. meddled' \in BOOLEAN
        BY <4>2
      <4>5. typed' \in Nat
        BY <4>1, <4>2
      <4>6. QED BY <4>3, <4>4, <4>5
    <3>2. UNCHANGED <<drafting, unsure, calls, events>>
      BY <2>2
    <3>3. QED BY <3>1, <3>2 DEF TypeInv, DraftTypes, CountTypes
  <2>6. NetTypes'
    BY <1>3, <2>2 DEF net
  <2>7. QED BY <1>1, <1>2, <2>2, <2>4, <2>5, <2>6, RestStays
<1>8. CASE RequestCancel
  <2>1. CASE at = New /\ (dirty \/ stored # None)
    <3>1. /\ stored' = (IF dirty THEN form ELSE stored) /\ alert' = TRUE
          /\ UNCHANGED <<server, net, cache, fetch, at, editor, dirty, busy, unsure, drafting, meddled, typed, calls, events>>
      BY <1>8, <2>1 DEF RequestCancel
    <3>2. PageTypes' /\ DraftTypes'
      BY <1>2, <3>1 DEF TypeInv, PageTypes, DraftTypes, editor
    <3>3. NetTypes'
      BY <1>3, <3>1 DEF net
    <3>4. QED BY <1>1, <1>2, <3>1, <3>2, <3>3, RestStays
  <2>2. CASE ~(at = New /\ (dirty \/ stored # None))
    <3>1. Navigate(List, stored, {})
            /\ UNCHANGED <<server, cache, fetch, stored, drafting, meddled, typed, calls, events>>
      BY <1>8, <2>2 DEF RequestCancel
    <3>2. stored \in Contents \cup {None}
      BY DEF TypeInv, DraftTypes
    <3>3. PageTypes' /\ NetTypes' /\ unsure' \subseteq Nat
      BY <1>2, <3>1, <3>2, NavigateTypes
    <3>4. DraftTypes'
      BY <3>1, <3>3 DEF TypeInv, DraftTypes
    <3>5. QED BY <1>1, <1>2, <3>1, <3>3, <3>4, RestStays
  <2>3. QED BY <2>1, <2>2
<1>9. CASE CloseAlert
  <2>1. alert' = FALSE /\ UNCHANGED <<server, net, cache, fetch, at, editor, dirty, busy, draft, typed, calls, events>>
    BY <1>9 DEF CloseAlert
  <2>2. PageTypes'
    BY <1>2, <2>1 DEF TypeInv, PageTypes, editor
  <2>3. NetTypes'
    BY <1>3, <2>1 DEF net
  <2>4. QED BY <1>1, <1>2, <2>1, <2>2, <2>3, RestStays
<1>10. CASE CloseAndDeleteDraft \/ CloseAndKeepDraft
  <2>1. \E kept \in {None, form} :
          /\ stored' = kept /\ Navigate(List, kept, {}) /\ drafting' \in {drafting, calls + 1}
          /\ UNCHANGED <<server, cache, fetch, meddled, typed, calls, events>>
    BY <1>10 DEF CloseAndDeleteDraft, CloseAndKeepDraft
  <2>2. form \in Contents /\ calls \in Nat
    BY DEF TypeInv, PageTypes, CountTypes
  <2>3. PageTypes' /\ NetTypes' /\ unsure' \subseteq Nat
    BY <1>2, <2>1, <2>2, NavigateTypes
  <2>4. DraftTypes'
    BY <2>1, <2>2, <2>3 DEF TypeInv, DraftTypes
  <2>5. QED BY <1>1, <1>2, <2>1, <2>3, <2>4, RestStays
<1>11. CASE OtherTab
  <2>1. /\ events' = events + 1 /\ stored' \in {None, Others} /\ drafting' = calls + 1 /\ meddled' = TRUE
        /\ UNCHANGED <<server, net, cache, fetch, page, unsure, typed, calls>>
    BY <1>11 DEF OtherTab
  <2>2. DraftTypes' /\ CountTypes'
    BY <2>1, ContentTypes DEF TypeInv, DraftTypes, CountTypes
  <2>3. NetTypes'
    BY <1>3, <2>1 DEF net
  <2>4. QED BY <1>1, <1>2, <2>1, <2>2, <2>3, RestStays
<1>12. ASSUME NEW a \in answers, Deliver(a)
       PROVE  TypeInv'
  <2>1. /\ answers' = answers \ {a} /\ settling' = settling \cup {a} /\ fetch' = Sent
        /\ UNCHANGED <<server, wire, cache, page, draft, typed, calls, events>>
    BY <1>12 DEF Deliver
  <2>2. NetTypes'
    BY <1>3, <2>1
  <2>3. ListTypes'
    BY <2>1 DEF TypeInv, ListTypes
  <2>4. QED BY <1>1, <1>2, <2>1, <2>2, <2>3, RestStays
<1>13. ASSUME NEW c, busy' \in {busy, Released(c)}, UNCHANGED <<at, editor, dirty, alert>>, UNCHANGED server
       PROVE  PageTypes'
  BY <1>2, <1>13 DEF TypeInv, PageTypes, Released, editor
<1>14. ASSUME NEW a \in answers \cup settling, Refused(a) \/ Finished(a)
       PROVE  TypeInv'
  <2>1. /\ busy' = Released(a.call)
        /\ answers' \cup settling' \subseteq answers \cup settling
        /\ UNCHANGED <<server, wire, cache, fetch, at, editor, dirty, alert, draft, typed, calls, events>>
    BY <1>14 DEF Refused, Finished
  <2>2. PageTypes' /\ NetTypes'
    BY <1>3, <1>13, <2>1
  <2>3. QED BY <1>1, <1>2, <2>1, <2>2, RestStays
<1>15. ASSUME NEW a \in settling, Saved(a)
       PROVE  TypeInv'
  <2>1. /\ stored' \in {stored, None} /\ drafting' \in {drafting, calls + 1} /\ meddled' \in BOOLEAN
        /\ UNCHANGED <<server, cache, fetch, typed, calls, events>>
    BY <1>15 DEF Saved, TypeInv, DraftTypes
  <2>2. PageTypes' /\ NetTypes' /\ unsure' \subseteq Nat
    <3>1. CASE Navigate(List, stored', {a})
      <4>1. stored' \in Contents \cup {None}
        BY <2>1 DEF TypeInv, DraftTypes
      <4>2. QED BY <1>2, <2>1, <3>1, <4>1, NavigateTypes
    <3>2. CASE settling' = settling \ {a} /\ UNCHANGED <<wire, answers, page, unsure>>
      <4>1. NetTypes'
        BY <1>3, <2>1, <3>2
      <4>2. QED BY <1>2, <2>1, <3>2, <4>1, RestStays DEF TypeInv, DraftTypes
    <3>3. QED BY <1>15, <3>1, <3>2 DEF Saved
  <2>3. DraftTypes'
    BY <2>1, <2>2 DEF TypeInv, DraftTypes, CountTypes
  <2>4. QED BY <1>1, <1>2, <2>1, <2>2, <2>3, RestStays
<1>16. CASE Lose
  <2>1. /\ events' = events + 1
        /\ UNCHANGED <<server, settling, cache, fetch, at, editor, dirty, alert, stored, drafting, meddled, typed, calls>>
    BY <1>16 DEF Lose
  <2>2. \E c : /\ busy' = Released(c) /\ unsure' = unsure \cup {c.draft} /\ c \in CallRows
               /\ \/ c \in wire /\ wire' \in {wire \ {c}, (wire \ {c}) \cup {[c EXCEPT !.gone = TRUE]}} /\ answers' = answers
                  \/ wire' = wire /\ answers' \subseteq answers
    BY <1>16 DEF Lose, TypeInv, NetTypes, AnswerRows
  <2>3. PICK c : /\ busy' = Released(c) /\ unsure' = unsure \cup {c.draft} /\ c \in CallRows
                 /\ \/ c \in wire /\ wire' \in {wire \ {c}, (wire \ {c}) \cup {[c EXCEPT !.gone = TRUE]}} /\ answers' = answers
                    \/ wire' = wire /\ answers' \subseteq answers
    BY <2>2
  <2>4. PageTypes'
    BY <1>13, <2>1, <2>3
  <2>5. NetTypes'
    <3>1. Same([c EXCEPT !.gone = TRUE], c)
      BY <2>3, CallFields
    <3>2. \A d \in wire' : \E e \in wire : d = e \/ Same(d, e)
      BY <2>3, <3>1
    <3>3. answers' \subseteq answers /\ settling' = settling
      BY <2>1, <2>3
    <3>4. QED BY <1>2, <2>1, <3>2, <3>3, NetStays DEF TypeInv, NetTypes
  <2>6. DraftTypes' /\ CountTypes'
    BY <2>1, <2>3 DEF TypeInv, DraftTypes, CountTypes, CallRows
  <2>7. QED BY <1>1, <1>2, <2>1, <2>4, <2>5, <2>6, RestStays
<1>17. CASE UNCHANGED vars
  <2>1. UNCHANGED server /\ UNCHANGED net /\ UNCHANGED <<cache, fetch, page, draft, typed, calls, events>>
    BY <1>17 DEF vars
  <2>2. NetTypes'
    BY <1>3, <2>1 DEF net
  <2>3. QED BY <1>1, <1>2, <2>1, <2>2, RestStays
<1>18. QED
  BY <1>4, <1>5, <1>6, <1>7, <1>8, <1>9, <1>10, <1>11, <1>12, <1>14, <1>15, <1>16, <1>17, ArriveTypes, AsksTypes,
     ExecuteTypes, BeginTypes, PushTypes, CommitTypes, OtherTypes, StepKinds

LEMMA Started ==
  ASSUME Init
  PROVE  /\ TypeInv
         /\ \A n \in Known : n = 1 /\ rows[n] # None /\ rows[n].draft = 0
              /\ (storefront[n] # None) = rows[n].published
<1>1. CASE rows = <<>> /\ storefront = <<>>
  <2>1. ServerTypes /\ Known = {}
    BY <1>1 DEF Init, ServerTypes, Known
  <2>2. stored \in Contents \cup {None}
    <3>1. [Whole EXCEPT !.code = 0] \in Contents
      BY ContentTypes DEF Contents
    <3>2. stored \in {None, Whole, [Whole EXCEPT !.code = 0]} \/ stored = None
      BY DEF Init
    <3>3. QED BY <3>1, <3>2, ContentTypes
  <2>3. QED
    BY <2>1, <2>2, ContentTypes DEF Init, TypeInv, NetTypes, ListTypes, PageTypes, DraftTypes, CountTypes
<1>2. ASSUME NEW published \in BOOLEAN, rows = <<Product(Whole, published, 0)>>,
             storefront = <<IF published THEN Whole ELSE None>>, stored = None
      PROVE  TypeInv /\ \A n \in Known : n = 1 /\ rows[n] # None /\ rows[n].draft = 0
                                           /\ (storefront[n] # None) = rows[n].published
  <2>1. Product(Whole, published, 0) \in Products
    BY ContentTypes DEF Product, Products
  <2>2. /\ rows \in Seq(Products \cup {None}) /\ storefront \in Seq(Contents \cup {None})
        /\ Len(rows) = 1 /\ Len(storefront) = 1
    BY <1>2, <2>1, ContentTypes
  <2>3. Known = {1}
    BY <2>2 DEF Known
  <2>4. rows[1] # None /\ rows[1].draft = 0 /\ (storefront[1] # None) = rows[1].published
    BY <1>2, <2>1, ContentTypes, NoneAssumption DEF Product
  <2>5. ServerTypes
    BY <2>2 DEF Init, ServerTypes
  <2>6. QED
    BY <1>2, <2>3, <2>4, <2>5, ContentTypes DEF Init, TypeInv, NetTypes, ListTypes, PageTypes, DraftTypes, CountTypes
<1>3. QED BY <1>1, <1>2 DEF Init

(* The pages and the server hold products, calls and answers of their kinds, what is
   asked of the server is about a product that was made, and a new product is not
   published. *)
THEOREM TypeCorrect == Spec => []TypeInv
<1>1. Init => TypeInv
  BY Started
<1>2. TypeInv /\ [Next]_vars => TypeInv'
  BY StepTypes
<1>3. QED BY <1>1, <1>2, PTL DEF Spec

-----------------------------------------------------------------------------
(* The draft of a new product *)

LEMMA StepStored ==
  ASSUME TypeInv, DraftStored, [Next]_vars
  PROVE  DraftStored'
<1>1. ASSUME UNCHANGED <<at, dirty, meddled, stored, form>>
      PROVE  DraftStored'
  BY <1>1 DEF DraftStored
<1>2. ASSUME dirty' = FALSE
      PROVE  DraftStored'
  BY <1>2 DEF DraftStored
<1>3. ASSUME NEW c \in wire, Execute(c) \/ Begin(c) \/ Push(c) \/ Commit(c)
      PROVE  DraftStored'
  BY <1>1, <1>3 DEF Execute, Begin, Push, Commit, page, editor, draft
<1>4. ASSUME NEW n \in Known, OtherWrites(n)
      PROVE  DraftStored'
  BY <1>1, <1>4 DEF OtherWrites, page, editor, draft
<1>5. ASSUME NEW slot, NEW kind, NEW id, Asks(slot, kind, id)
      PROVE  DraftStored'
  BY <1>1, <1>5 DEF Asks, Call, editor, draft
<1>6. CASE Refetch \/ Read \/ CloseAlert
  BY <1>1, <1>6 DEF Refetch, Read, CloseAlert, page, editor, draft
<1>7. CASE Arrive
  <2>1. fetch \notin {None, Sent} /\ cache' = fetch /\ Arrived(cache') /\ UNCHANGED <<at, draft>>
    BY <1>7 DEF Arrive
  <2>2. CASE at = New
    <3>1. Open(at, cache')
      BY <2>1, <2>2 DEF Open
    <3>2. dirty' = FALSE \/ UNCHANGED <<editor, dirty>>
      BY <2>1, <3>1 DEF Arrived
    <3>3. QED BY <1>1, <1>2, <2>1, <3>2 DEF editor, draft
  <2>3. CASE at # New
    BY <2>1, <2>3 DEF DraftStored
  <2>4. QED BY <2>2, <2>3
<1>8. ASSUME NEW p, NEW list, NEW kept, Mount(p, list, kept)
      PROVE  DraftStored'
  BY <1>2, <1>8 DEF Mount
<1>9. ASSUME NEW p, NEW kept, NEW done, Navigate(p, kept, done)
      PROVE  DraftStored'
  BY <1>8, <1>9 DEF Navigate
<1>10. ASSUME NEW p, Visit(p)
       PROVE  DraftStored'
  BY <1>9, <1>10 DEF Visit
<1>11. CASE Reload
  BY <1>8, <1>11 DEF Reload
<1>12. ASSUME NEW next \in Fields(typed + 1), Type(next)
       PROVE  DraftStored'
  BY <1>12 DEF Type, DraftStored
<1>13. CASE RequestCancel
  <2>1. CASE at = New /\ (dirty \/ stored # None)
    BY <1>13, <2>1 DEF RequestCancel, DraftStored, editor
  <2>2. CASE ~(at = New /\ (dirty \/ stored # None))
    BY <1>9, <1>13, <2>2 DEF RequestCancel
  <2>3. QED BY <2>1, <2>2
<1>14. CASE CloseAndDeleteDraft \/ CloseAndKeepDraft
  BY <1>9, <1>14 DEF CloseAndDeleteDraft, CloseAndKeepDraft
<1>15. CASE OtherTab
  BY <1>15 DEF OtherTab, DraftStored
<1>16. ASSUME NEW a \in answers, Deliver(a) \/ Refused(a)
       PROVE  DraftStored'
  BY <1>1, <1>16 DEF Deliver, Refused, page, editor, draft
<1>17. ASSUME NEW a \in settling, Saved(a) \/ Finished(a)
       PROVE  DraftStored'
  <2>1. CASE Finished(a)
    BY <1>1, <2>1 DEF Finished, editor, draft
  <2>2. CASE Saved(a)
    <3>1. CASE Navigate(List, stored', {a})
      BY <1>9, <3>1
    <3>2. CASE /\ meddled' = (meddled \/ (at = New /\ a.call.kind = "create"))
               /\ UNCHANGED page
      BY <2>2, <3>2 DEF Saved, DraftStored, page, editor
    <3>3. QED BY <2>2, <3>1, <3>2 DEF Saved
  <2>3. QED BY <1>17, <2>1, <2>2
<1>18. CASE Lose
  BY <1>1, <1>18 DEF Lose, editor
<1>19. CASE UNCHANGED vars
  BY <1>1, <1>19 DEF vars, page, editor, draft
<1>20. QED
  BY <1>3, <1>4, <1>5, <1>6, <1>7, <1>10, <1>11, <1>12, <1>13, <1>14, <1>15, <1>16, <1>17, <1>18, <1>19, StepKinds

(* What is typed of a new product is in localStorage, ready for a reload or a later
   visit, unless another tab or a page left earlier wrote it since. *)
THEOREM TypedIsStored == Spec => []DraftStored
<1>1. Init => TypeInv /\ DraftStored
  BY Started DEF Init, DraftStored
<1>2. TypeInv /\ DraftStored /\ [Next]_vars => TypeInv' /\ DraftStored'
  BY StepTypes, StepStored
<1>3. QED BY <1>1, <1>2, PTL DEF Spec

-----------------------------------------------------------------------------
(* The storefront and the marks of the products *)

Accounted(n) == (storefront[n] # None) = (rows[n] # None /\ rows[n].published)

\* A publication that runs alone is the only one of its product, and the storefront
\* shows what it wrote.
RunsAlone(n) ==
  \A c \in Running(n) : c.alone =>
    /\ \A d \in Running(n) : d = c
    /\ c.pushed => (storefront[n] # None) = (c.kind = "publish")

\* Publications at once set mark and projection apart.
RunsCrossed(n) == \A c \in Running(n) : ~c.alone => n \in crossed

\* Otherwise the row still has the mark that the publication read.
KnowsMark(n) ==
  \A c \in Running(n) : n \notin crossed =>
    /\ rows[n] # None /\ rows[n].published = c.snapshot.published
    /\ ~c.pushed => Accounted(n)

AtRest(n) == Running(n) = {} /\ n \notin crossed => Accounted(n)

PublicationAt(n) == RunsAlone(n) /\ RunsCrossed(n) /\ KnowsMark(n) /\ AtRest(n)
PublicationInv == \A n \in Known : PublicationAt(n)

LEMMA RunningCalls ==
  ASSUME TypeInv, NEW n, NEW c \in Running(n)
  PROVE  /\ c \in wire /\ c \in CallRows /\ c.id = n /\ n \in Known /\ c.kind \in Publication
         /\ c.kind \notin {"create", "update", "delete"} /\ c.snapshot \in Views /\ c.snapshot # None
BY DEF Running, TypeInv, NetTypes, Aimed, Publication, CallRows

\* A product nothing happens to
LEMMA PublicationKept ==
  ASSUME NEW n, PublicationAt(n), Running(n)' = Running(n), rows'[n] = rows[n], storefront'[n] = storefront[n],
         n \in crossed' <=> n \in crossed
  PROVE  PublicationAt(n)'
<1>1. Accounted(n)' <=> Accounted(n)
  BY DEF Accounted
<1>2. RunsAlone(n)' /\ RunsCrossed(n)'
  BY DEF PublicationAt, RunsAlone, RunsCrossed
<1>3. KnowsMark(n)' /\ AtRest(n)'
  BY <1>1 DEF PublicationAt, KnowsMark, AtRest
<1>4. QED BY <1>2, <1>3 DEF PublicationAt

\* The tab alone acts, and at most notes something of the calls.
LEMMA PublicationsQuiet ==
  ASSUME TypeInv, PublicationInv, UNCHANGED server,
         NEW f, \A n \in Known : Running(n)' = {f[c] : c \in Running(n)},
         \A n \in Known : \A c \in Running(n) : Same(f[c], c)
  PROVE  PublicationInv'
<1>1. Known' = Known /\ UNCHANGED <<rows, storefront, crossed>>
  BY DEF server, Known
<1>2. SUFFICES ASSUME NEW n \in Known
               PROVE  PublicationAt(n)'
  BY <1>1 DEF PublicationInv
<1>3. PublicationAt(n) /\ (Accounted(n)' <=> Accounted(n))
  BY <1>1 DEF PublicationInv, Accounted
<1>4. \A c \in Running(n)' : \E d \in Running(n) : c = f[d] /\ Same(c, d)
  OBVIOUS
<1>5. RunsAlone(n)'
  <2>1. SUFFICES ASSUME NEW c \in Running(n)', c.alone
                 PROVE  /\ \A d \in Running(n)' : d = c
                        /\ c.pushed => (storefront'[n] # None) = (c.kind = "publish")
    BY DEF RunsAlone
  <2>2. PICK e \in Running(n) : c = f[e] /\ Same(c, e)
    BY <1>4
  <2>3. e.alone /\ e.pushed = c.pushed /\ e.kind = c.kind
    BY <2>1, <2>2 DEF Same
  <2>4. \A d \in Running(n) : d = e
    BY <1>3, <2>3 DEF PublicationAt, RunsAlone
  <2>5. \A d \in Running(n)' : d = c
    BY <1>4, <2>2, <2>4
  <2>6. c.pushed => (storefront'[n] # None) = (c.kind = "publish")
    BY <1>1, <1>3, <2>3 DEF PublicationAt, RunsAlone
  <2>7. QED BY <2>5, <2>6
<1>6. RunsCrossed(n)' /\ KnowsMark(n)'
  BY <1>1, <1>3, <1>4 DEF PublicationAt, RunsCrossed, KnowsMark, Same
<1>7. AtRest(n)'
  <2>1. Running(n)' = {} => Running(n) = {}
    OBVIOUS
  <2>2. QED BY <1>1, <1>3, <2>1 DEF PublicationAt, AtRest
<1>8. QED BY <1>5, <1>6, <1>7 DEF PublicationAt

LEMMA ExecutePublications ==
  ASSUME TypeInv, PublicationInv, NEW c \in wire, Execute(c)
  PROVE  PublicationInv'
<1>1. c \in CallRows /\ Aimed(c) /\ c.kind \notin Publication /\ wire' = wire \ {c}
  BY DEF TypeInv, NetTypes, Execute
<1>2. \A n : Running(n)' = Running(n)
  BY <1>1 DEF Running
<1>3. \/ UNCHANGED server
      \/ /\ Allowed(c) /\ rows' = Result(c)
         /\ storefront' = IF c.kind = "create" THEN Append(storefront, None) ELSE storefront
         /\ crossed' = IF Crossing(c) THEN crossed \cup {c.id} ELSE crossed
  BY DEF Execute
<1>4. CASE UNCHANGED server
  <2>1. Known' = Known /\ UNCHANGED <<rows, storefront, crossed>>
    BY <1>4 DEF server, Known
  <2>2. \A n \in Known : PublicationAt(n)'
    BY <1>2, <2>1, PublicationKept DEF PublicationInv
  <2>3. QED BY <2>1, <2>2 DEF PublicationInv
<1>5. ASSUME c.kind = "create", rows' = Result(c), storefront' = Append(storefront, None), crossed' = crossed
      PROVE  PublicationInv'
  <2> DEFINE row == Product(c.body, c.mark, c.draft)
  <2>0. PICK n \in Nat : n = Len(rows) + 1
    BY Rows DEF TypeInv
  <2>1. row \in Products
    BY <1>1 DEF CallRows, Product, Products
  <2>2. ~row.published
    BY <1>1, <1>5 DEF Aimed, Product
  <2>3. rows' = Append(rows, row)
    BY <1>5 DEF Result
  <2> HIDE DEF row
  <2>4. /\ Len(rows') = n /\ rows'[n] = row /\ storefront'[n] = None
        /\ \A k \in Known : rows'[k] = rows[k] /\ storefront'[k] = storefront[k]
    BY <1>5, <2>0, <2>1, <2>3, AppendProperties DEF TypeInv, ServerTypes, Known
  <2>5. Known' = Known \cup {n} /\ n \notin Known
    BY <2>0, <2>4, Rows DEF TypeInv, Known
  <2>6. \A k \in Known : PublicationAt(k)'
    BY <1>2, <1>5, <2>4, PublicationKept DEF PublicationInv
  <2>7. PublicationAt(n)'
    <3>1. Running(n)' = {}
      <4>1. \A d \in Running(n) : n \in Known
        BY RunningCalls
      <4>2. QED BY <1>2, <2>5, <4>1
    <3>2. Accounted(n)'
      <4>1. storefront'[n] = None /\ ~rows'[n].published
        BY <2>2, <2>4
      <4>2. QED BY <4>1 DEF Accounted
    <3>3. QED BY <3>1, <3>2 DEF PublicationAt, RunsAlone, RunsCrossed, KnowsMark, AtRest
  <2>8. QED BY <2>5, <2>6, <2>7 DEF PublicationInv
\* An update that keeps the mark, or a deletion of what the storefront does not show
<1>6. ASSUME c.kind \in {"update", "delete"}, Allowed(c), rows' = Result(c), storefront' = storefront,
             crossed' = IF Crossing(c) THEN crossed \cup {c.id} ELSE crossed
      PROVE  PublicationInv'
  <2> DEFINE n == c.id
  <2>1. n \in Known /\ rows[n] \in Products /\ rows[n] # None
    BY <1>1, <1>6, Rows DEF TypeInv, Aimed, Allowed
  <2>2. /\ Known' = Known /\ \A k \in Known \ {n} : rows'[k] = rows[k]
        /\ c.kind = "delete" => rows'[n] = None
        /\ c.kind = "update" => rows'[n] # None /\ rows'[n].published = c.mark
    <3>1. CASE c.kind = "delete"
      <4>1. rows' = [rows EXCEPT ![n] = None]
        BY <1>6, <3>1 DEF Result
      <4>2. QED BY <2>1, <3>1, <4>1, Changed DEF TypeInv
    <3>2. CASE c.kind = "update"
      <4>1. rows' = [[rows EXCEPT ![n].content = c.body] EXCEPT ![n].published = c.mark]
        BY <1>6, <3>2 DEF Result
      <4>2. rows' = [rows EXCEPT ![n] = [rows[n] EXCEPT !.content = c.body, !.published = c.mark]]
        BY <2>1, <4>1, Rows DEF TypeInv
      <4>3. [rows[n] EXCEPT !.content = c.body, !.published = c.mark] \in Products
        BY <1>1, <2>1 DEF CallRows, Products
      <4>4. [rows[n] EXCEPT !.content = c.body, !.published = c.mark].published = c.mark
        BY <2>1 DEF Products
      <4>5. PICK row \in Products : rows' = [rows EXCEPT ![n] = row] /\ row.published = c.mark
        BY <4>2, <4>3, <4>4
      <4>6. row # None
        BY NoneAssumption
      <4>7. QED BY <2>1, <3>2, <4>5, <4>6, Changed DEF TypeInv
    <3>3. QED BY <1>6, <3>1, <3>2
  <2>3. \A k \in Known \ {n} : k \in crossed' <=> k \in crossed
    BY <1>6
  <2>4. \A k \in Known \ {n} : PublicationAt(k)'
    BY <1>2, <1>6, <2>2, <2>3, PublicationKept DEF PublicationInv
  <2>5. PublicationAt(n)'
    <3>1. PublicationAt(n) /\ Running(n)' = Running(n)
      BY <1>2, <2>1 DEF PublicationInv
    <3>2. crossed \subseteq crossed' /\ (Crossing(c) => n \in crossed')
      BY <1>6
    <3>3. RunsAlone(n)' /\ RunsCrossed(n)'
      BY <1>6, <3>1, <3>2 DEF PublicationAt, RunsAlone, RunsCrossed
    <3>4. CASE n \in crossed'
      BY <3>3, <3>4 DEF PublicationAt, KnowsMark, AtRest
    <3>5. CASE n \notin crossed' /\ c.kind = "update"
      <4>1. rows'[n].published = rows[n].published /\ rows'[n] # None /\ n \notin crossed
        BY <2>2, <3>2, <3>5 DEF Crossing
      <4>2. Accounted(n)' <=> Accounted(n)
        BY <1>6, <2>1, <4>1 DEF Accounted
      <4>3. QED BY <3>1, <3>3, <4>1, <4>2 DEF PublicationAt, KnowsMark, AtRest
    <3>6. CASE n \notin crossed' /\ c.kind = "delete"
      <4>1. storefront[n] = None /\ Running(n) = {}
        BY <3>2, <3>6 DEF Crossing
      <4>2. Accounted(n)'
        BY <1>6, <2>2, <3>6, <4>1 DEF Accounted
      <4>3. QED BY <3>1, <3>3, <4>1, <4>2 DEF PublicationAt, KnowsMark, AtRest
    <3>7. QED BY <1>6, <3>4, <3>5, <3>6
  <2>6. QED BY <2>2, <2>4, <2>5 DEF PublicationInv
<1>7. c.kind \in {"create", "update", "delete"}
  BY <1>1 DEF CallRows, CallKinds, Publication
<1>8. c.kind = "create" => ~Crossing(c)
  BY DEF Crossing
<1>9. QED BY <1>3, <1>4, <1>5, <1>6, <1>7, <1>8

LEMMA BeginPublications ==
  ASSUME TypeInv, PublicationInv, NEW c \in wire, Begin(c)
  PROVE  PublicationInv'
<1> DEFINE n == c.id
<1>1. c \in CallRows /\ Aimed(c) /\ c.kind \in Publication /\ n \in Known /\ c.snapshot = None /\ ~c.pushed
  BY DEF TypeInv, NetTypes, Begin, Aimed, Publication
<1>2. UNCHANGED <<rows, storefront>> /\ Known' = Known
  BY DEF Begin, Known
<1>3. CASE rows[n] = None
  <2>1. wire' = wire \ {c} /\ crossed' = crossed
    BY <1>3 DEF Begin
  <2>2. \A k : Running(k)' = Running(k)
    BY <1>1, <2>1 DEF Running
  <2>3. \A k \in Known : PublicationAt(k)'
    BY <1>2, <2>1, <2>2, PublicationKept DEF PublicationInv
  <2>4. QED BY <1>2, <2>3 DEF PublicationInv
<1>4. CASE rows[n] # None
  <2> DEFINE joined == Running(n)
             e == [c EXCEPT !.snapshot = Copy(rows[n]), !.alone = (joined = {})]
             others == {[d EXCEPT !.alone = FALSE] : d \in joined}
  <2>1. /\ wire' = (wire \ (joined \cup {c})) \cup others \cup {e}
        /\ crossed' = IF joined = {} THEN crossed ELSE crossed \cup {n}
    BY <1>4 DEF Begin
  <2>2. Copy(rows[n]) \in Views /\ Copy(rows[n]) # None /\ Copy(rows[n]).published = rows[n].published
    BY <1>1, <1>4, CopyTypes DEF TypeInv
  <2>3. e.kind = c.kind /\ e.id = n /\ e.snapshot = Copy(rows[n]) /\ (e.alone <=> joined = {}) /\ ~e.pushed
    BY <1>1 DEF CallRows
  <2>4. \A d \in others : d.kind \in Publication /\ d.id = n /\ d.snapshot # None /\ ~d.alone
    <3>1. ASSUME NEW d \in joined
          PROVE  LET f == [d EXCEPT !.alone = FALSE]
                 IN f.kind \in Publication /\ f.id = n /\ f.snapshot # None /\ ~f.alone
      <4>1. d \in CallRows /\ d.kind \in Publication /\ d.id = n /\ d.snapshot # None
        BY RunningCalls
      <4>2. QED BY <4>1 DEF CallRows
    <3>2. QED BY <3>1
  <2> HIDE DEF e, others
  <2>5. Running(n)' = others \cup {e}
    BY <1>1, <2>1, <2>2, <2>3, <2>4 DEF Running
  <2>6. \A k \in Known \ {n} : Running(k)' = Running(k)
    <3>1. \A d \in joined \cup {c} : d.id = n
      BY RunningCalls
    <3>2. \A d \in others \cup {e} : d.id = n
      BY <2>3, <2>4
    <3>3. QED BY <2>1, <3>1, <3>2 DEF Running
  <2>7. \A k \in Known \ {n} : PublicationAt(k)'
    BY <1>2, <2>1, <2>6, PublicationKept DEF PublicationInv
  <2>8. PublicationAt(n)'
    <3>1. CASE joined = {}
      <4>1. Running(n)' = {e} /\ crossed' = crossed
        BY <2>1, <2>5, <3>1 DEF others
      <4>2. n \notin crossed => Accounted(n)
        BY <1>1, <3>1 DEF PublicationInv, PublicationAt, AtRest
      <4>3. Accounted(n)' <=> Accounted(n)
        BY <1>2 DEF Accounted
      <4>4. RunsAlone(n)' /\ RunsCrossed(n)' /\ AtRest(n)'
        BY <2>3, <3>1, <4>1 DEF RunsAlone, RunsCrossed, AtRest
      <4>5. KnowsMark(n)'
        BY <1>2, <1>4, <2>2, <2>3, <4>1, <4>2, <4>3 DEF KnowsMark
      <4>6. QED BY <4>4, <4>5 DEF PublicationAt
    <3>2. CASE joined # {}
      <4>1. n \in crossed'
        BY <2>1, <3>2
      <4>2. \A d \in Running(n)' : ~d.alone
        BY <2>3, <2>4, <2>5, <3>2
      <4>3. QED BY <4>1, <4>2 DEF PublicationAt, RunsAlone, RunsCrossed, KnowsMark, AtRest
    <3>3. QED BY <3>1, <3>2
  <2>9. QED BY <1>2, <2>7, <2>8 DEF PublicationInv
<1>5. QED BY <1>3, <1>4

LEMMA PushPublications ==
  ASSUME TypeInv, PublicationInv, NEW c \in wire, Push(c)
  PROVE  PublicationInv'
<1> DEFINE n == c.id
<1>1. c \in Running(n) /\ ~c.pushed /\ rows' = rows /\ Known' = Known
  BY DEF Push, Running, Known
<1>2. c \in CallRows /\ n \in Known /\ c.snapshot.content \in Contents
  BY <1>1, RunningCalls DEF Views
<1>3. Projection(c) \in Contents \cup {None} /\ (Projection(c) # None <=> c.kind = "publish")
  BY <1>2, NoneAssumption DEF Projection
<1>4. RunsAlone(n) /\ RunsCrossed(n) /\ KnowsMark(n)
  BY <1>2 DEF PublicationInv, PublicationAt
<1>5. \A d \in Running(n) \ {c} : ~d.alone
  BY <1>1, <1>4 DEF RunsAlone
<1>6. CASE /\ storefront' = [storefront EXCEPT ![n] = Projection(c)]
           /\ wire' = (wire \ {c}) \cup {[c EXCEPT !.pushed = TRUE]} /\ crossed' = crossed
  <2> DEFINE e == [c EXCEPT !.pushed = TRUE]
  <2>1. e.kind = c.kind /\ e.id = n /\ e.snapshot = c.snapshot /\ e.alone = c.alone /\ e.pushed
    BY <1>2 DEF CallRows
  <2> HIDE DEF e
  <2>2. wire' = (wire \ {c}) \cup {e}
    BY <1>6 DEF e
  <2>3. Running(n)' = (Running(n) \ {c}) \cup {e} /\ \A k \in Known \ {n} : Running(k)' = Running(k)
    BY <1>1, <2>1, <2>2 DEF Running
  <2>4. storefront'[n] = Projection(c) /\ \A k \in Known \ {n} : storefront'[k] = storefront[k]
    BY <1>2, <1>3, <1>6, Projected DEF TypeInv
  <2>5. \A k \in Known \ {n} : PublicationAt(k)'
    BY <1>1, <1>6, <2>3, <2>4, PublicationKept DEF PublicationInv
  <2>6. RunsAlone(n)'
    <3>1. ASSUME NEW d \in Running(n)', d.alone
          PROVE  d = e /\ \A o \in Running(n)' : o = e
      BY <1>1, <1>4, <1>5, <2>1, <2>3, <3>1 DEF RunsAlone
    <3>2. (storefront'[n] # None) = (e.kind = "publish")
      BY <1>3, <2>1, <2>4
    <3>3. QED BY <3>1, <3>2 DEF RunsAlone
  <2>7. RunsCrossed(n)'
    BY <1>1, <1>4, <1>6, <2>1, <2>3 DEF RunsCrossed
  <2>8. KnowsMark(n)'
    <3>1. SUFFICES ASSUME n \notin crossed, NEW d \in Running(n)'
                   PROVE  rows[n] # None /\ rows[n].published = d.snapshot.published /\ d.pushed
      BY <1>1, <1>6 DEF KnowsMark
    <3>2. d = e
      BY <1>4, <1>5, <2>3, <3>1 DEF RunsCrossed
    <3>3. QED BY <1>1, <1>4, <2>1, <3>1, <3>2 DEF KnowsMark
  <2>9. AtRest(n)'
    BY <2>3 DEF AtRest
  <2>10. QED BY <1>1, <2>5, <2>6, <2>7, <2>8, <2>9 DEF PublicationInv, PublicationAt
<1>7. ASSUME NEW written \in BOOLEAN, wire' = wire \ {c},
             storefront' = IF written THEN [storefront EXCEPT ![n] = Projection(c)] ELSE storefront,
             crossed' = IF written THEN crossed \cup {n} ELSE crossed
      PROVE  PublicationInv'
  <2>1. Running(n)' = Running(n) \ {c} /\ \A k \in Known \ {n} : Running(k)' = Running(k)
    BY <1>1, <1>7 DEF Running
  <2>2. \A k \in Known \ {n} : storefront'[k] = storefront[k] /\ (k \in crossed' <=> k \in crossed)
    BY <1>2, <1>3, <1>7, Projected DEF TypeInv
  <2>3. \A k \in Known \ {n} : PublicationAt(k)'
    BY <1>1, <2>1, <2>2, PublicationKept DEF PublicationInv
  <2>4. RunsAlone(n)' /\ RunsCrossed(n)'
    BY <1>4, <1>5, <1>7, <2>1 DEF RunsAlone, RunsCrossed
  <2>5. KnowsMark(n)' /\ AtRest(n)'
    <3>1. CASE written
      BY <1>7, <3>1 DEF KnowsMark, AtRest
    <3>2. CASE ~written
      <4>1. Accounted(n)' <=> Accounted(n)
        BY <1>1, <1>7, <3>2 DEF Accounted
      <4>2. KnowsMark(n)'
        BY <1>1, <1>4, <1>7, <2>1, <3>2, <4>1 DEF KnowsMark
      <4>3. AtRest(n)'
        BY <1>1, <1>4, <1>7, <3>2, <4>1 DEF KnowsMark, AtRest
      <4>4. QED BY <4>2, <4>3
    <3>3. QED BY <3>1, <3>2
  <2>6. QED BY <1>1, <2>3, <2>4, <2>5 DEF PublicationInv, PublicationAt
<1>8. QED BY <1>6, <1>7 DEF Push

LEMMA CommitPublications ==
  ASSUME TypeInv, PublicationInv, NEW c \in wire, Commit(c)
  PROVE  PublicationInv'
<1> DEFINE n == c.id
           changes == c.snapshot.published # (c.kind = "publish")
           ok == ~changes \/ rows[n] # None
<1>1. PICK now :
        /\ now = IF changes /\ ok THEN Marked(c) ELSE rows
        /\ rows' = now
        /\ crossed' = IF c.alone /\ now[n] # None /\ now[n].published = (c.kind = "publish")
                      THEN crossed \ {n} ELSE crossed
  BY DEF Commit
<1>2. c.kind \in Publication /\ c.pushed /\ wire' = wire \ {c} /\ storefront' = storefront
  BY DEF Commit
<1>3. c.snapshot # None
  BY <1>2 DEF TypeInv, NetTypes, Aimed
<1>4. c \in Running(n)
  BY <1>2, <1>3 DEF Running
<1>5. n \in Known
  BY <1>4, RunningCalls
<1>6. Running(n)' = Running(n) \ {c} /\ \A k \in Known \ {n} : Running(k)' = Running(k)
  BY <1>2 DEF Running
<1>7. /\ Known' = Known /\ \A k \in Known \ {n} : rows'[k] = rows[k]
      /\ IF changes /\ ok THEN rows'[n] # None /\ rows'[n].published = (c.kind = "publish") ELSE rows' = rows
  <2>1. CASE changes /\ ok
    <3>1. rows' = Marked(c)
      BY <1>1, <2>1
    <3>2. PICK row \in Products : rows' = [rows EXCEPT ![n] = row] /\ row.published = (c.kind = "publish")
      BY <1>2, <1>3, <2>1, <3>1, MarkedRow
    <3>3. row # None
      BY NoneAssumption
    <3>4. QED BY <1>5, <2>1, <3>2, <3>3, Changed DEF TypeInv
  <2>2. CASE ~(changes /\ ok)
    BY <1>1, <2>2 DEF Known
  <2>3. QED BY <2>1, <2>2
<1>8. RunsAlone(n) /\ RunsCrossed(n) /\ KnowsMark(n)
  BY <1>5 DEF PublicationInv, PublicationAt
<1>9. \A k \in Known \ {n} : k \in crossed' <=> k \in crossed
  BY <1>1
<1>10. \A k \in Known \ {n} : PublicationAt(k)'
  BY <1>2, <1>6, <1>7, <1>9, PublicationKept DEF PublicationInv
<1>11. PublicationAt(n)'
  <2>1. CASE ~c.alone
    <3>1. n \in crossed'
      BY <1>1, <1>4, <1>8, <2>1 DEF RunsCrossed
    <3>2. \A d \in Running(n)' : ~d.alone
      BY <1>4, <1>6, <1>8 DEF RunsAlone
    <3>3. QED BY <3>1, <3>2 DEF PublicationAt, RunsAlone, RunsCrossed, KnowsMark, AtRest
  <2>2. CASE c.alone
    <3>1. Running(n)' = {}
      BY <1>4, <1>6, <1>8, <2>2 DEF RunsAlone
    <3>2. (storefront'[n] # None) = (c.kind = "publish")
      BY <1>2, <1>4, <1>8, <2>2 DEF RunsAlone
    <3>3. n \notin crossed => rows'[n] # None /\ rows'[n].published = (c.kind = "publish")
      <4>1. CASE changes /\ ok
        BY <1>7, <4>1
      <4>2. CASE ~changes
        BY <1>4, <1>7, <1>8, <4>2 DEF KnowsMark
      <4>3. CASE ~ok
        BY <1>4, <1>8, <4>3 DEF KnowsMark
      <4>4. QED BY <4>1, <4>2, <4>3
    <3>4. n \notin crossed' => rows'[n] # None /\ rows'[n].published = (c.kind = "publish")
      BY <1>1, <3>3
    <3>5. AtRest(n)'
      <4>1. CASE n \in crossed'
        BY <4>1 DEF AtRest
      <4>2. CASE n \notin crossed'
        <5>1. rows'[n] # None /\ rows'[n].published = (c.kind = "publish")
          BY <3>4, <4>2
        <5>2. Accounted(n)'
          BY <3>2, <5>1 DEF Accounted
        <5>3. QED BY <5>2 DEF AtRest
      <4>3. QED BY <4>1, <4>2
    <3>6. QED BY <3>1, <3>5 DEF PublicationAt, RunsAlone, RunsCrossed, KnowsMark
  <2>3. QED BY <2>1, <2>2
<1>12. QED BY <1>7, <1>10, <1>11 DEF PublicationInv

LEMMA OtherPublications ==
  ASSUME TypeInv, PublicationInv, NEW n \in Known, OtherWrites(n)
  PROVE  PublicationInv'
<1>1. rows[n] \in Products /\ rows[n] # None /\ Running(n) = {} /\ UNCHANGED wire
  BY Rows DEF TypeInv, OtherWrites, net
<1>2. \A k : Running(k)' = Running(k)
  BY <1>1 DEF Running
<1>3. PICK row \in Products \cup {None} : rows' = [rows EXCEPT ![n] = row]
        /\ \/ /\ row # None /\ row.published = rows[n].published
              /\ UNCHANGED <<storefront, crossed>>
           \/ /\ row # None /\ storefront' = [storefront EXCEPT ![n] = IF row.published THEN rows[n].content ELSE None]
              /\ crossed' = crossed \ {n}
           \/ /\ row = None /\ storefront' = storefront
              /\ crossed' = IF storefront[n] # None THEN crossed \cup {n} ELSE crossed
  <2>1. /\ [rows[n] EXCEPT !.content = Others] \in Products
        /\ [rows[n] EXCEPT !.content = Others].published = rows[n].published
    BY <1>1, ContentTypes DEF Products
  <2>2. ASSUME NEW published \in BOOLEAN
        PROVE  /\ [rows[n] EXCEPT !.published = published] \in Products
               /\ [rows[n] EXCEPT !.published = published].published = published
    BY <1>1 DEF Products
  <2>3. \A row \in Products : row # None
    BY NoneAssumption
  <2>4. CASE rows' = [rows EXCEPT ![n].content = Others] /\ UNCHANGED <<storefront, crossed>>
    <3>1. rows' = [rows EXCEPT ![n] = [rows[n] EXCEPT !.content = Others]]
      BY <2>4
    <3>2. QED BY <2>1, <2>3, <2>4, <3>1
  <2>5. ASSUME NEW published \in BOOLEAN,
               rows' = [rows EXCEPT ![n].published = published],
               storefront' = [storefront EXCEPT ![n] = IF published THEN rows[n].content ELSE None],
               crossed' = crossed \ {n}
        PROVE  \E row \in Products : /\ rows' = [rows EXCEPT ![n] = row] /\ row # None
                  /\ storefront' = [storefront EXCEPT ![n] = IF row.published THEN rows[n].content ELSE None]
    <3>1. rows' = [rows EXCEPT ![n] = [rows[n] EXCEPT !.published = published]]
      BY <2>5
    <3>2. QED BY <2>2, <2>3, <2>5, <3>1
  <2>6. QED BY <2>4, <2>5 DEF OtherWrites
<1>4. Known' = Known /\ rows'[n] = row /\ \A k \in Known \ {n} : rows'[k] = rows[k]
  BY <1>3, Changed DEF TypeInv
<1>5. PICK content \in Contents \cup {None} :
        /\ storefront' = storefront \/ storefront' = [storefront EXCEPT ![n] = content]
        /\ content = IF row # None /\ row.published THEN rows[n].content ELSE None
  BY <1>1, <1>3 DEF Products
<1>6. \A k \in Known \ {n} : storefront'[k] = storefront[k] /\ (k \in crossed' <=> k \in crossed)
  <2>1. \A k \in Known \ {n} : storefront'[k] = storefront[k]
    BY <1>5, Projected DEF TypeInv
  <2>2. QED BY <1>3, <2>1
<1>7. \A k \in Known \ {n} : PublicationAt(k)'
  BY <1>2, <1>4, <1>6, PublicationKept DEF PublicationInv
<1>8. AtRest(n)'
  <2>1. n \notin crossed => Accounted(n)
    BY <1>1 DEF PublicationInv, PublicationAt, AtRest
  <2>2. CASE row # None /\ row.published = rows[n].published /\ UNCHANGED <<storefront, crossed>>
    BY <1>1, <1>4, <2>1, <2>2 DEF Accounted, AtRest
  <2>3. CASE /\ row # None /\ crossed' = crossed \ {n}
             /\ storefront' = [storefront EXCEPT ![n] = IF row.published THEN rows[n].content ELSE None]
    <3>1. rows[n].content \in Contents /\ rows[n].content # None
      BY <1>1, NoneAssumption DEF Products
    <3>2. storefront'[n] = IF row.published THEN rows[n].content ELSE None
      BY <2>3, <3>1, Projected DEF TypeInv
    <3>3. row.published \in BOOLEAN
      BY <2>3 DEF Products
    <3>4. Accounted(n)'
      BY <1>4, <2>3, <3>1, <3>2, <3>3 DEF Accounted
    <3>5. QED BY <3>4 DEF AtRest
  <2>4. CASE /\ row = None /\ storefront' = storefront
             /\ crossed' = IF storefront[n] # None THEN crossed \cup {n} ELSE crossed
    BY <1>4, <2>4 DEF AtRest, Accounted
  <2>5. QED BY <1>3, <2>2, <2>3, <2>4
<1>9. PublicationAt(n)'
  BY <1>1, <1>2, <1>8 DEF PublicationAt, RunsAlone, RunsCrossed, KnowsMark
<1>10. QED BY <1>4, <1>7, <1>9 DEF PublicationInv

LEMMA SameRunning ==
  ASSUME TypeInv, NEW n, NEW c \in wire, NEW d, Same(d, c)
  PROVE  /\ d.kind \in Publication /\ d.id = n /\ d.snapshot # None <=> c \in Running(n)
BY DEF Same, Running

LEMMA RunningStays ==
  ASSUME TypeInv, PublicationInv, UNCHANGED server, \A n \in Known : Running(n)' = Running(n)
  PROVE  PublicationInv'
<1> DEFINE f == [c \in wire |-> c]
<1>1. \A n \in Known : \A c \in Running(n) : f[c] = c /\ Same(f[c], c)
  BY RunningCalls DEF Running, Same
<1> HIDE DEF f
<1>2. \A n \in Known : Running(n)' = {f[c] : c \in Running(n)}
  BY <1>1
<1>3. QED BY <1>1, <1>2, PublicationsQuiet

LEMMA RunningImage ==
  ASSUME TypeInv, NEW f, \A c \in wire : Same(f[c], c), wire' = {f[c] : c \in wire}, NEW n
  PROVE  Running(n)' = {f[c] : c \in Running(n)}
<1>1. \A c \in wire : f[c].kind \in Publication /\ f[c].id = n /\ f[c].snapshot # None <=> c \in Running(n)
  BY SameRunning
<1>2. Running(n) \subseteq wire
  BY DEF Running
<1>3. ASSUME NEW d \in Running(n)'
      PROVE  \E c \in Running(n) : d = f[c]
  BY <1>1 DEF Running
<1>4. ASSUME NEW c \in Running(n)
      PROVE  f[c] \in Running(n)'
  BY <1>1, <1>2 DEF Running
<1>5. QED BY <1>3, <1>4

LEMMA NavigatePublications ==
  ASSUME TypeInv, PublicationInv, UNCHANGED server, wire' = Deserted(wire)
  PROVE  PublicationInv'
<1> DEFINE f == [c \in wire |-> [c EXCEPT !.live = FALSE]]
<1>1. \A c \in wire : f[c] = [c EXCEPT !.live = FALSE] /\ Same(f[c], c)
  BY CallFields DEF TypeInv, NetTypes
<1>2. wire' = {f[c] : c \in wire}
  BY <1>1 DEF Deserted
<1> HIDE DEF f
<1>3. \A n \in Known : Running(n)' = {f[c] : c \in Running(n)}
  BY <1>1, <1>2, RunningImage
<1>4. QED BY <1>1, <1>3, PublicationsQuiet DEF Running

LEMMA ReloadPublications ==
  ASSUME TypeInv, PublicationInv, UNCHANGED server, wire' = {[c EXCEPT !.gone = TRUE] : c \in wire}
  PROVE  PublicationInv'
<1> DEFINE f == [c \in wire |-> [c EXCEPT !.gone = TRUE]]
<1>1. \A c \in wire : f[c] = [c EXCEPT !.gone = TRUE] /\ Same(f[c], c)
  BY CallFields DEF TypeInv, NetTypes
<1>2. wire' = {f[c] : c \in wire}
  BY <1>1
<1> HIDE DEF f
<1>3. \A c \in wire : Same(f[c], c)
  BY <1>1
<1>4. \A n \in Known : Running(n)' = {f[c] : c \in Running(n)}
  BY <1>2, <1>3, RunningImage, Zenon
<1>5. QED BY <1>3, <1>4, PublicationsQuiet DEF Running

LEMMA LosePublications ==
  ASSUME TypeInv, PublicationInv, Lose
  PROVE  PublicationInv'
<1>1. UNCHANGED server
  BY DEF Lose
<1>2. CASE wire' = wire
  BY <1>1, <1>2, RunningStays DEF Running
<1>3. ASSUME NEW c \in wire, c.snapshot = None, wire' = wire \ {c}
      PROVE  PublicationInv'
  <2>1. \A n \in Known : Running(n)' = Running(n)
    BY <1>3 DEF Running
  <2>2. QED BY <1>1, <2>1, RunningStays
<1>4. ASSUME NEW c \in wire, wire' = (wire \ {c}) \cup {[c EXCEPT !.gone = TRUE]}
      PROVE  PublicationInv'
  <2> DEFINE e == [c EXCEPT !.gone = TRUE]
             f == [d \in wire |-> IF d = c THEN e ELSE d]
  <2>1. Same(e, c)
    BY CallFields DEF TypeInv, NetTypes
  <2>2. \A d \in wire : d # c => f[d] = d /\ Same(f[d], d)
    BY DEF Same, TypeInv, NetTypes
  <2>3. f[c] = e
    OBVIOUS
  <2>4. \A d \in wire : Same(f[d], d)
    BY <2>1, <2>2, <2>3
  <2>5. wire' = (wire \ {c}) \cup {e}
    BY <1>4
  <2> HIDE DEF e, f
  <2>6. \A n \in Known : Running(n)' = (Running(n) \ {c}) \cup (IF c \in Running(n) THEN {e} ELSE {})
    BY <2>1, <2>5, SameRunning DEF Running
  <2>7. \A n \in Known : Running(n)' = {f[d] : d \in Running(n)}
    <3>1. \A n : Running(n) \subseteq wire
      BY DEF Running
    <3>2. QED BY <2>2, <2>3, <2>6, <3>1
  <2>8. QED BY <1>1, <2>4, <2>7, PublicationsQuiet DEF Running
<1>5. \/ wire' = wire
      \/ \E c \in wire : /\ wire' \in {(wire \ {c}) \cup {[c EXCEPT !.gone = TRUE]}}
                                        \cup (IF c.snapshot = None THEN {wire \ {c}} ELSE {})
  BY DEF Lose
<1>6. QED BY <1>2, <1>3, <1>4, <1>5

LEMMA StepPublications ==
  ASSUME TypeInv, PublicationInv, [Next]_vars
  PROVE  PublicationInv'
<1>1. ASSUME UNCHANGED server, wire' = wire
      PROVE  PublicationInv'
  BY <1>1, RunningStays DEF Running
<1>2. ASSUME NEW slot, NEW kind, NEW id, Asks(slot, kind, id)
      PROVE  PublicationInv'
  <2>1. UNCHANGED server /\ \E c : c.snapshot = None /\ wire' = wire \cup {c}
    BY <1>2 DEF Asks, Call
  <2>2. \A n \in Known : Running(n)' = Running(n)
    BY <2>1 DEF Running
  <2>3. QED BY <2>1, <2>2, RunningStays
<1>3. CASE Refetch \/ Read \/ Arrive \/ CloseAlert \/ OtherTab \/ UNCHANGED vars
  BY <1>1, <1>3 DEF Refetch, Read, Arrive, CloseAlert, OtherTab, vars, net
<1>4. ASSUME NEW p, NEW kept, NEW done, Navigate(p, kept, done), UNCHANGED server
      PROVE  PublicationInv'
  BY <1>4, NavigatePublications DEF Navigate
<1>5. ASSUME NEW p, Visit(p)
      PROVE  PublicationInv'
  BY <1>4, <1>5 DEF Visit
<1>6. CASE Reload
  BY <1>6, ReloadPublications DEF Reload
<1>7. ASSUME NEW next, Type(next)
      PROVE  PublicationInv'
  BY <1>1, <1>7 DEF Type, net
<1>8. CASE RequestCancel
  BY <1>1, <1>4, <1>8 DEF RequestCancel, net
<1>9. CASE CloseAndDeleteDraft \/ CloseAndKeepDraft
  BY <1>4, <1>9 DEF CloseAndDeleteDraft, CloseAndKeepDraft
<1>10. ASSUME NEW a, Deliver(a) \/ Refused(a) \/ Finished(a)
       PROVE  PublicationInv'
  BY <1>1, <1>10 DEF Deliver, Refused, Finished
<1>11. ASSUME NEW a, Saved(a)
       PROVE  PublicationInv'
  BY <1>1, <1>4, <1>11 DEF Saved
<1>12. QED
  BY <1>2, <1>3, <1>5, <1>6, <1>7, <1>8, <1>9, <1>10, <1>11, StepKinds, ExecutePublications, BeginPublications,
     PushPublications, CommitPublications, OtherPublications, LosePublications

(* The storefront shows a product exactly when its row is marked as published,
   whenever no publication of it runs, unless the two were set apart: by a save of an
   older copy, a deletion, publications at once or an answer of the storefront that was
   lost. *)
THEOREM StorefrontIsAccounted == Spec => []StorefrontAccounted
<1>1. Init => TypeInv /\ PublicationInv
  <2>1. SUFFICES ASSUME Init
                 PROVE  TypeInv /\ PublicationInv
    OBVIOUS
  <2>2. \A n : Running(n) = {}
    <3>1. wire = {}
      BY <2>1 DEF Init
    <3>2. QED BY <3>1 DEF Running
  <2>3. \A n \in Known : Accounted(n)
    <3>1. SUFFICES ASSUME NEW n \in Known
                   PROVE  Accounted(n)
      OBVIOUS
    <3>2. rows[n] # None /\ (storefront[n] # None) = rows[n].published /\ rows[n].published \in BOOLEAN
      BY <2>1, Started, Rows DEF TypeInv
    <3>3. QED BY <3>2 DEF Accounted
  <2>4. QED
    BY <2>1, <2>2, <2>3, Started DEF PublicationInv, PublicationAt, RunsAlone, RunsCrossed, KnowsMark, AtRest
<1>2. TypeInv /\ PublicationInv /\ [Next]_vars => TypeInv' /\ PublicationInv'
  BY StepTypes, StepPublications
<1>3. PublicationInv => StorefrontAccounted
  BY DEF PublicationInv, PublicationAt, AtRest, Accounted, StorefrontAccounted
<1>4. QED BY <1>1, <1>2, <1>3, PTL DEF Spec

-----------------------------------------------------------------------------
(* One product for a draft *)

\* The saves whose answer the page still awaits, and those it was told of
Awaited == {c \in wire : c.slot = "save" /\ c.live /\ ~c.gone}
Told == {a \in answers \cup settling : a.call.slot = "save" /\ a.call.live}
Made(d) == \E n \in Known : rows[n] # None /\ rows[n].draft = d

\* A draft is told by a number of its own; it is unsure unless its call is awaited.
CallNumbers ==
  \A c \in wire : c.kind = "create" => c.draft \in 1..calls /\ (c \in Awaited \/ c.draft \in unsure)
AnswerNumbers ==
  \A a \in answers \cup settling : a.call.kind = "create" =>
    a.call.draft \in 1..calls /\ (a \in Told \/ a.call.draft \in unsure)
DraftNumbers ==
  /\ drafting \in 1..calls + 1
  /\ \A n \in Known : rows[n] # None => rows[n].draft <= calls
  /\ CallNumbers /\ AnswerNumbers

\* One save is awaited at most.
OneAwaited ==
  /\ \A c, d \in Awaited : c = d
  /\ \A a, b \in Told : a = b
  /\ Awaited = {} \/ Told = {}
  /\ Awaited # {} \/ Told # {} => "save" \in busy
  /\ Told \cap answers \cap settling = {}

\* Its draft has no product before the server made one.
NotMade ==
  /\ \A c \in Awaited : c.kind = "create" => c.draft \in unsure \/ ~Made(c.draft)
  /\ \A a \in Told : a.call.kind = "create" => a.ok \/ a.call.draft \in unsure \/ ~Made(a.call.draft)

\* Once made, the draft is not sent again: its page still awaits the answer, or that
\* the list is read.
Ending(a, d) == a.call.kind = "create" /\ a.ok /\ a.call.draft = d
DraftFinished == Made(drafting) /\ drafting \notin unsure => \E a \in Told : Ending(a, drafting)

DraftInv == DraftNumbers /\ OneAwaited /\ NotMade /\ OneProductPerDraft /\ DraftFinished

\* The drafts of the products after a step are those before it.
SameDrafts == \A n \in Known' : rows'[n] # None => n \in Known /\ rows[n] # None /\ rows'[n].draft = rows[n].draft

LEMMA DraftsStay ==
  ASSUME SameDrafts, OneProductPerDraft, unsure \subseteq unsure'
  PROVE  /\ \A d : (\E n \in Known' : rows'[n] # None /\ rows'[n].draft = d) => Made(d)
         /\ OneProductPerDraft'
<1>1. \A d : (\E n \in Known' : rows'[n] # None /\ rows'[n].draft = d) => Made(d)
  BY DEF SameDrafts, Made
<1>2. OneProductPerDraft'
  BY DEF SameDrafts, OneProductPerDraft
<1>3. QED BY <1>1, <1>2

\* Steps that make nothing, after which nothing more is awaited.
LEMMA QuietDrafts ==
  ASSUME TypeInv, DraftInv, SameDrafts, Awaited' \subseteq Awaited, Told' \subseteq Told, CallNumbers', AnswerNumbers',
         Told' \cap answers' \cap settling' = {}, calls' \in {calls, calls + 1}, unsure \subseteq unsure',
         drafting' \in {drafting, calls' + 1},
         "save" \in busy => "save" \in busy' \/ (Awaited' = {} /\ Told' = {}),
         \A a \in Told : \/ a \in Told' \/ a.call.kind # "create" \/ ~a.ok
                         \/ a.call.draft \in unsure' \/ a.call.draft # drafting'
  PROVE  DraftInv'
<1>1. (\A d : (\E n \in Known' : rows'[n] # None /\ rows'[n].draft = d) => Made(d)) /\ OneProductPerDraft'
  BY DraftsStay DEF DraftInv
<1>2. calls \in Nat /\ calls' \in Nat /\ calls <= calls' /\ \A n \in Known : rows[n] # None => rows[n].draft \in Nat
  BY Rows DEF TypeInv, CountTypes
<1>3. DraftNumbers'
  <2>1. drafting' \in 1..calls' + 1
    BY <1>2 DEF DraftInv, DraftNumbers
  <2>2. \A n \in Known' : rows'[n] # None => rows'[n].draft <= calls'
    BY <1>2 DEF DraftInv, DraftNumbers, SameDrafts
  <2>3. QED BY <2>1, <2>2 DEF DraftNumbers
<1>4. OneAwaited'
  BY DEF DraftInv, OneAwaited
<1>5. NotMade'
  <2>1. \A d : Made(d) \/ ~(\E n \in Known' : rows'[n] # None /\ rows'[n].draft = d)
    BY <1>1
  <2>2. QED BY <2>1 DEF DraftInv, NotMade, Made
<1>6. DraftFinished'
  <2>1. SUFFICES ASSUME \E n \in Known' : rows'[n] # None /\ rows'[n].draft = drafting', drafting' \notin unsure'
                 PROVE  \E a \in Told' : Ending(a, drafting')
    BY DEF DraftFinished, Made, Ending
  <2>2. Made(drafting') /\ drafting' \notin unsure
    BY <1>1, <2>1
  <2>3. drafting' = drafting
    <3>1. \A n \in Known : rows[n] # None => rows[n].draft <= calls
      BY DEF DraftInv, DraftNumbers
    <3>2. QED BY <1>2, <2>2, <3>1 DEF Made
  <2>4. PICK a \in Told : Ending(a, drafting)
    BY <2>2, <2>3 DEF DraftInv, DraftFinished
  <2>5. a \in Told'
    BY <2>1, <2>3, <2>4 DEF Ending
  <2>6. QED BY <2>3, <2>4, <2>5
<1>7. QED BY <1>1, <1>3, <1>4, <1>5, <1>6 DEF DraftInv

\* Only the tab acts, and what it awaits stays.
LEMMA RestDrafts ==
  ASSUME TypeInv, DraftInv, SameDrafts, UNCHANGED <<net, busy, unsure, calls>>, drafting' \in {drafting, calls + 1}
  PROVE  DraftInv'
<1>1. Awaited' = Awaited /\ Told' = Told /\ answers' = answers /\ settling' = settling
  BY DEF Awaited, Told, net
<1>2. CallNumbers' /\ AnswerNumbers'
  BY <1>1 DEF DraftInv, DraftNumbers, CallNumbers, AnswerNumbers, net
<1>3. Told' \cap answers' \cap settling' = {}
  BY <1>1 DEF DraftInv, OneAwaited
<1>4. QED BY <1>1, <1>2, <1>3, QuietDrafts

\* A call is answered; a draft is made of it at most.
LEMMA AnsweredDrafts ==
  ASSUME TypeInv, DraftInv, NEW c \in wire, NEW ok \in BOOLEAN,
         wire' = wire \ {c}, answers' = answers \cup Answered(c, ok), UNCHANGED <<settling, busy, drafting, unsure, calls>>,
         \A n \in Known' : rows'[n] # None =>
           \/ n \in Known /\ rows[n] # None /\ rows'[n].draft = rows[n].draft
           \/ n = Len(rows) + 1 /\ ok /\ c.kind = "create" /\ rows'[n].draft = c.draft
  PROVE  DraftInv'
<1>1. c \in CallRows /\ Aimed(c) /\ (c.kind = "create" => c.slot = "save")
  BY DEF TypeInv, NetTypes, Aimed
<1>2. c.kind = "create" => c.draft \in 1..calls /\ (c \in Awaited \/ c.draft \in unsure)
  BY DEF DraftInv, DraftNumbers, CallNumbers
<1>3. \A a \in Answered(c, ok) : a.call = c /\ a.ok = ok /\ ~c.gone
  BY <1>1, AnswerRow
<1>4. Awaited' = Awaited \ {c}
  BY DEF Awaited
<1>5. IF c \in Awaited THEN Told = {} /\ Told' = Answered(c, ok) /\ Awaited' = {} ELSE Told' = Told
  <2>1. CASE c \in Awaited
    <3>1. Told = {} /\ Awaited' = {}
      BY <1>4, <2>1 DEF DraftInv, OneAwaited
    <3>2. Told' = Answered(c, ok)
      BY <1>3, <2>1, <3>1 DEF Awaited, Told
    <3>3. QED BY <2>1, <3>1, <3>2
  <2>2. CASE c \notin Awaited
    <3>1. \A a \in Answered(c, ok) : ~(a.call.slot = "save" /\ a.call.live)
      BY <1>3, <2>2 DEF Awaited
    <3>2. QED BY <2>2, <3>1 DEF Told
  <2>3. QED BY <2>1, <2>2
<1>6. Len(rows) \in Nat /\ calls \in Nat /\ \A n \in Known : rows[n] # None => rows[n].draft \in Nat
  BY Rows DEF TypeInv, CountTypes
<1>7. ASSUME NEW d, d # c.draft \/ ~ok \/ c.kind # "create", \E n \in Known' : rows'[n] # None /\ rows'[n].draft = d
      PROVE  Made(d)
  BY <1>7 DEF Made
<1>8. DraftNumbers'
  <2>1. CallNumbers'
    <3>1. \A e \in wire' : e \in wire /\ e # c
      OBVIOUS
    <3>2. QED BY <1>4, <3>1 DEF DraftInv, DraftNumbers, CallNumbers
  <2>2. AnswerNumbers'
    <3>1. \A a \in answers \cup settling : a \in Told => a \in Told'
      BY <1>5
    <3>2. \A a \in Answered(c, ok) : c \in Awaited => a \in Told'
      BY <1>5
    <3>3. QED BY <1>2, <1>3, <3>1, <3>2 DEF DraftInv, DraftNumbers, AnswerNumbers
  <2>3. \A n \in Known' : rows'[n] # None => rows'[n].draft <= calls'
    BY <1>2, <1>6 DEF DraftInv, DraftNumbers
  <2>4. QED BY <2>1, <2>2, <2>3 DEF DraftInv, DraftNumbers
<1>9. OneAwaited'
  <2>1. CASE c \in Awaited
    <3>1. \A a, b \in Answered(c, ok) : a = b
      BY DEF Answered
    <3>2. settling \cap Answered(c, ok) = {}
      <4>1. \A a \in Answered(c, ok) : a \in settling => a \in Told
        BY <1>3, <2>1 DEF Awaited, Told
      <4>2. QED BY <1>5, <2>1, <4>1
    <3>3. "save" \in busy
      BY <2>1 DEF DraftInv, OneAwaited
    <3>4. QED BY <1>5, <2>1, <3>1, <3>2, <3>3 DEF OneAwaited
  <2>2. CASE c \notin Awaited
    <3>1. Told' = Told /\ Awaited' = Awaited
      BY <1>4, <1>5, <2>2
    <3>2. \A a \in Answered(c, ok) : a \notin Told
      BY <1>3, <2>2 DEF Awaited, Told
    <3>3. QED BY <3>1, <3>2 DEF DraftInv, OneAwaited
  <2>3. QED BY <2>1, <2>2
<1>10. OneProductPerDraft'
  <2>1. ok /\ c.kind = "create" => c.draft \in unsure \/ ~Made(c.draft)
    BY <1>2 DEF DraftInv, NotMade
  <2>2. SUFFICES ASSUME NEW i \in Known', NEW j \in Known', rows'[i] # None, rows'[j] # None, rows'[i].draft = rows'[j].draft
                 PROVE  i = j \/ rows'[i].draft \in unsure \cup {0}
    BY DEF OneProductPerDraft
  <2>3. CASE rows'[i].draft \in unsure
    BY <2>3
  <2>4. CASE rows'[i].draft \notin unsure
    <3>1. ~(i = Len(rows) + 1 /\ j \in Known /\ rows[j] # None /\ rows'[j].draft = rows[j].draft
              /\ ok /\ c.kind = "create" /\ rows'[i].draft = c.draft)
      BY <2>1, <2>2, <2>4 DEF Made
    <3>2. ~(j = Len(rows) + 1 /\ i \in Known /\ rows[i] # None /\ rows'[i].draft = rows[i].draft
              /\ ok /\ c.kind = "create" /\ rows'[j].draft = c.draft)
      BY <2>1, <2>2, <2>4 DEF Made
    <3>3. i \in Known /\ j \in Known /\ rows[i] # None /\ rows[j] # None
            /\ rows'[i].draft = rows[i].draft /\ rows'[j].draft = rows[j].draft
            => i = j \/ rows'[i].draft \in unsure \cup {0}
      BY <2>2 DEF DraftInv, OneProductPerDraft
    <3>4. QED BY <2>2, <3>1, <3>2, <3>3
  <2>5. QED BY <2>3, <2>4
<1>11. NotMade'
  <2>1. ASSUME NEW e \in Awaited', e.kind = "create", e.draft \notin unsure
        PROVE  ~(\E n \in Known' : rows'[n] # None /\ rows'[n].draft = e.draft)
    <3>1. e \in Awaited /\ e # c /\ c \notin Awaited /\ ~Made(e.draft)
      BY <1>4, <1>5, <2>1 DEF DraftInv, NotMade
    <3>2. c.kind = "create" => c.draft # e.draft
      BY <1>2, <2>1, <3>1
    <3>3. QED BY <1>7, <3>1, <3>2
  <2>2. ASSUME NEW a \in Told', a.call.kind = "create", ~a.ok, a.call.draft \notin unsure
        PROVE  ~(\E n \in Known' : rows'[n] # None /\ rows'[n].draft = a.call.draft)
    <3>1. CASE c \in Awaited
      <4>1. a.call = c /\ ~ok /\ ~Made(c.draft)
        BY <1>3, <1>5, <2>2, <3>1 DEF DraftInv, NotMade
      <4>2. QED BY <1>7, <4>1
    <3>2. CASE c \notin Awaited
      <4>1. ~Made(a.call.draft) /\ (c.kind = "create" => c.draft # a.call.draft)
        BY <1>2, <1>5, <2>2, <3>2 DEF DraftInv, NotMade
      <4>2. QED BY <1>7, <4>1
    <3>3. QED BY <3>1, <3>2
  <2>3. QED BY <2>1, <2>2 DEF NotMade, Made
<1>12. DraftFinished'
  <2>1. SUFFICES ASSUME \E n \in Known' : rows'[n] # None /\ rows'[n].draft = drafting, drafting \notin unsure
                 PROVE  \E a \in Told' : Ending(a, drafting)
    BY DEF DraftFinished, Made, Ending
  <2>2. CASE Made(drafting)
    <3>1. PICK a \in Told : Ending(a, drafting)
      BY <2>1, <2>2 DEF DraftInv, DraftFinished
    <3>2. QED BY <1>5, <3>1
  <2>3. CASE ~Made(drafting)
    <3>1. ok /\ c.kind = "create" /\ c.draft = drafting
      BY <1>7, <2>1, <2>3
    <3>2. c \in Awaited
      BY <1>2, <2>1, <3>1
    <3>3. Answered(c, ok) # {}
      BY <3>2 DEF Answered, Awaited
    <3>4. QED BY <1>3, <1>5, <3>1, <3>2, <3>3 DEF Ending
  <2>4. QED BY <2>2, <2>3
<1>13. QED BY <1>8, <1>9, <1>10, <1>11, <1>12 DEF DraftInv

LEMMA ExecuteDrafts ==
  ASSUME TypeInv, DraftInv, NEW c \in wire, Execute(c)
  PROVE  DraftInv'
<1>1. c \in CallRows /\ Aimed(c) /\ c.kind \notin Publication
  BY DEF TypeInv, NetTypes, Execute
<1>2. Allowed(c) \in BOOLEAN
  BY <1>1 DEF Allowed, CallRows, CallKinds, Publication, CodeFree
<1>3. PICK ok \in BOOLEAN :
        answers' = answers \cup Answered(c, ok) /\ (IF ok THEN Allowed(c) /\ rows' = Result(c) ELSE rows' = rows)
  <2>1. PICK x \in {Allowed(c), FALSE} :
          answers' = answers \cup Answered(c, x) /\ (IF x THEN rows' = Result(c) ELSE rows' = rows)
    BY DEF Execute, server
  <2>2. x => Allowed(c)
    BY <2>1
  <2>3. QED BY <1>2, <2>1, <2>2
<1>4. wire' = wire \ {c} /\ UNCHANGED <<settling, busy, drafting, unsure, calls>>
  BY DEF Execute, page, draft
<1>5. \A n \in Known' : rows'[n] # None =>
        \/ n \in Known /\ rows[n] # None /\ rows'[n].draft = rows[n].draft
        \/ n = Len(rows) + 1 /\ ok /\ c.kind = "create" /\ rows'[n].draft = c.draft
  <2>1. CASE ~ok
    BY <1>3, <2>1 DEF Known
  <2>2. CASE ok /\ c.kind = "create"
    <3> DEFINE row == Product(c.body, c.mark, c.draft)
    <3>1. row \in Products /\ row.draft = c.draft /\ rows' = Append(rows, row)
      BY <1>1, <1>3, <2>2 DEF CallRows, Product, Products, Result
    <3> HIDE DEF row
    <3>2. Len(rows') = Len(rows) + 1 /\ rows'[Len(rows) + 1] = row /\ \A k \in Known : rows'[k] = rows[k]
      BY <3>1, AppendProperties DEF TypeInv, ServerTypes, Known
    <3>3. Known' = Known \cup {Len(rows) + 1}
      BY <3>2, Rows DEF TypeInv, Known
    <3>4. QED BY <2>2, <3>1, <3>2, <3>3
  <2>3. CASE ok /\ c.kind = "update"
    <3>1. c.id \in Known /\ rows[c.id] \in Products /\ rows[c.id] # None
      BY <1>1, <1>3, <2>3, Rows DEF TypeInv, Aimed, Allowed
    <3>2. rows' = [[rows EXCEPT ![c.id].content = c.body] EXCEPT ![c.id].published = c.mark]
      BY <1>3, <2>3 DEF Result
    <3>3. rows' = [rows EXCEPT ![c.id] = [rows[c.id] EXCEPT !.content = c.body, !.published = c.mark]]
      BY <3>1, <3>2, Rows DEF TypeInv
    <3>4. [rows[c.id] EXCEPT !.content = c.body, !.published = c.mark] \in Products
      BY <1>1, <3>1 DEF CallRows, Products
    <3>5. [rows[c.id] EXCEPT !.content = c.body, !.published = c.mark].draft = rows[c.id].draft
      BY <3>1 DEF Products
    <3>6. PICK row \in Products : rows' = [rows EXCEPT ![c.id] = row] /\ row.draft = rows[c.id].draft
      BY <3>3, <3>4, <3>5
    <3>7. Known' = Known /\ rows'[c.id] = row /\ \A k \in Known \ {c.id} : rows'[k] = rows[k]
      BY <3>1, <3>6, Changed DEF TypeInv
    <3>8. QED BY <3>1, <3>6, <3>7
  <2>4. CASE ok /\ c.kind = "delete"
    <3>1. c.id \in Known /\ rows' = [rows EXCEPT ![c.id] = None]
      BY <1>1, <1>3, <2>4 DEF Aimed, Result
    <3>2. QED BY <3>1, Changed DEF TypeInv
  <2>5. QED BY <1>1, <2>1, <2>2, <2>3, <2>4 DEF CallRows, CallKinds, Publication
<1>6. QED BY <1>3, <1>4, <1>5, AnsweredDrafts

\* Publications save no draft.
LEMMA BeginDrafts ==
  ASSUME TypeInv, DraftInv, NEW c \in wire, Begin(c)
  PROVE  DraftInv'
<1>1. c \in CallRows /\ Aimed(c) /\ c.kind \in Publication
  BY DEF TypeInv, NetTypes, Begin
<1>2. rows' = rows /\ UNCHANGED <<settling, busy, drafting, unsure, calls>>
  BY DEF Begin, page, draft
<1>3. CASE rows[c.id] = None
  BY <1>2, <1>3, AnsweredDrafts DEF Begin, Known
<1>4. CASE rows[c.id] # None
  <2> DEFINE e == [c EXCEPT !.snapshot = Copy(rows[c.id]), !.alone = (Running(c.id) = {})]
             others == {[d EXCEPT !.alone = FALSE] : d \in Running(c.id)}
  <2>1. wire' = (wire \ (Running(c.id) \cup {c})) \cup others \cup {e} /\ answers' = answers
    BY <1>4 DEF Begin
  <2>2. e.kind \in Publication /\ e.slot # "save" /\ e.kind # "create"
    BY <1>1 DEF CallRows, Aimed, Publication
  <2>3. \A d \in others : d.slot # "save" /\ d.kind # "create"
    <3>1. ASSUME NEW d \in Running(c.id)
          PROVE  [d EXCEPT !.alone = FALSE].slot # "save" /\ [d EXCEPT !.alone = FALSE].kind # "create"
      <4>1. d \in CallRows /\ Aimed(d) /\ d.kind \notin {"create", "update"}
        BY RunningCalls DEF TypeInv, NetTypes
      <4>2. QED BY <4>1 DEF CallRows, Aimed
    <3>2. QED BY <3>1
  <2>4. \A d \in Running(c.id) \cup {c} : d \notin Awaited
    <3>1. \A d \in Running(c.id) : d \in wire /\ d.kind \notin {"create", "update"}
      BY RunningCalls
    <3>2. QED BY <1>1, <3>1 DEF Awaited, TypeInv, NetTypes, Aimed, Publication
  <2> HIDE DEF e, others
  <2>5. Awaited' = Awaited
    BY <2>1, <2>2, <2>3, <2>4 DEF Awaited
  <2>6. Told' = Told
    BY <1>2, <2>1 DEF Told
  <2>7. CallNumbers'
    BY <1>2, <2>1, <2>2, <2>3, <2>5 DEF DraftInv, DraftNumbers, CallNumbers
  <2>8. AnswerNumbers'
    BY <1>2, <2>1, <2>6 DEF DraftInv, DraftNumbers, AnswerNumbers
  <2>9. Told' \cap answers' \cap settling' = {}
    BY <1>2, <2>1, <2>6 DEF DraftInv, OneAwaited
  <2>10. SameDrafts
    BY <1>2 DEF SameDrafts, Known
  <2>11. QED BY <1>2, <2>5, <2>6, <2>7, <2>8, <2>9, <2>10, QuietDrafts
<1>5. QED BY <1>3, <1>4

LEMMA PushDrafts ==
  ASSUME TypeInv, DraftInv, NEW c \in wire, Push(c)
  PROVE  DraftInv'
<1>1. c \in CallRows /\ Aimed(c) /\ c.kind \in Publication /\ c.slot # "save"
  BY DEF TypeInv, NetTypes, Push, Aimed, Publication
<1>2. rows' = rows /\ UNCHANGED <<settling, busy, drafting, unsure, calls>>
  BY DEF Push, page, draft
<1>3. CASE wire' = wire \ {c} /\ answers' = answers \cup Answered(c, FALSE)
  BY <1>2, <1>3, AnsweredDrafts DEF Known
<1>4. CASE wire' = (wire \ {c}) \cup {[c EXCEPT !.pushed = TRUE]} /\ answers' = answers
  <2>1. [c EXCEPT !.pushed = TRUE].slot # "save" /\ [c EXCEPT !.pushed = TRUE].kind # "create"
    BY <1>1 DEF CallRows, Publication
  <2>2. Awaited' = Awaited
    BY <1>1, <1>4, <2>1 DEF Awaited
  <2>3. Told' = Told
    BY <1>2, <1>4 DEF Told
  <2>4. CallNumbers'
    BY <1>2, <1>4, <2>1, <2>2 DEF DraftInv, DraftNumbers, CallNumbers
  <2>5. AnswerNumbers'
    BY <1>2, <1>4, <2>3 DEF DraftInv, DraftNumbers, AnswerNumbers
  <2>6. Told' \cap answers' \cap settling' = {}
    BY <1>2, <1>4, <2>3 DEF DraftInv, OneAwaited
  <2>7. SameDrafts
    BY <1>2 DEF SameDrafts, Known
  <2>8. QED BY <1>2, <2>2, <2>3, <2>4, <2>5, <2>6, <2>7, QuietDrafts
<1>5. QED BY <1>3, <1>4 DEF Push

LEMMA CommitDrafts ==
  ASSUME TypeInv, DraftInv, NEW c \in wire, Commit(c)
  PROVE  DraftInv'
<1> DEFINE changes == c.snapshot.published # (c.kind = "publish")
           ok == ~changes \/ rows[c.id] # None
<1>1. c \in CallRows /\ Aimed(c) /\ c.kind \in Publication /\ c.id \in Known /\ c.snapshot # None
  BY DEF TypeInv, NetTypes, Commit, Aimed, Publication
<1>2. /\ wire' = wire \ {c} /\ answers' = answers \cup Answered(c, ok)
      /\ rows' = (IF changes /\ ok THEN Marked(c) ELSE rows)
      /\ UNCHANGED <<settling, busy, drafting, unsure, calls>>
  BY DEF Commit, page, draft
<1>3. \A n \in Known' : rows'[n] # None => n \in Known /\ rows[n] # None /\ rows'[n].draft = rows[n].draft
  <2>1. CASE changes /\ ok
    <3>1. PICK row \in Products : rows' = [rows EXCEPT ![c.id] = row] /\ row.draft = rows[c.id].draft
      BY <1>1, <1>2, <2>1, MarkedRow
    <3>2. rows[c.id] # None
      BY <2>1
    <3>3. Known' = Known /\ rows'[c.id] = row /\ \A k \in Known \ {c.id} : rows'[k] = rows[k]
      BY <1>1, <3>1, Changed DEF TypeInv
    <3>4. QED BY <1>1, <3>1, <3>2, <3>3
  <2>2. CASE ~(changes /\ ok)
    BY <1>2, <2>2 DEF Known
  <2>3. QED BY <2>1, <2>2
<1>4. ok \in BOOLEAN
  OBVIOUS
<1> HIDE DEF ok, changes
<1>5. QED BY <1>2, <1>3, <1>4, AnsweredDrafts

LEMMA OtherDrafts ==
  ASSUME TypeInv, DraftInv, NEW n \in Known, OtherWrites(n)
  PROVE  DraftInv'
<1>1. rows[n] \in Products /\ rows[n] # None
  BY Rows DEF TypeInv, OtherWrites
<1>2. PICK row \in Products \cup {None} : rows' = [rows EXCEPT ![n] = row] /\ (row # None => row.draft = rows[n].draft)
  <2>1. [rows[n] EXCEPT !.content = Others] \in Products /\ [rows[n] EXCEPT !.content = Others].draft = rows[n].draft
    BY <1>1, ContentTypes DEF Products
  <2>2. \A published \in BOOLEAN : /\ [rows[n] EXCEPT !.published = published] \in Products
                                  /\ [rows[n] EXCEPT !.published = published].draft = rows[n].draft
    BY <1>1 DEF Products
  <2>3. \/ rows' = [rows EXCEPT ![n] = [rows[n] EXCEPT !.content = Others]]
        \/ \E published \in BOOLEAN : rows' = [rows EXCEPT ![n] = [rows[n] EXCEPT !.published = published]]
        \/ rows' = [rows EXCEPT ![n] = None]
    BY DEF OtherWrites
  <2>4. QED BY <2>1, <2>2, <2>3
<1>3. SameDrafts
  BY <1>1, <1>2, Changed DEF TypeInv, SameDrafts
<1>4. QED BY <1>3, RestDrafts DEF OtherWrites, page, draft

LEMMA AsksDrafts ==
  ASSUME TypeInv, DraftInv, NEW slot, NEW kind, NEW id, Asks(slot, kind, id)
  PROVE  DraftInv'
<1> DEFINE c == [kind |-> kind, slot |-> slot, id |-> id, body |-> form, mark |-> mark,
                 draft |-> IF kind = "create" THEN drafting ELSE 0, snapshot |-> None,
                 pushed |-> FALSE, alone |-> FALSE, nth |-> calls, live |-> TRUE, gone |-> FALSE]
<1>1. /\ wire' = wire \cup {c} /\ slot \notin busy /\ busy' = busy \cup {slot} /\ calls' = calls + 1
      /\ UNCHANGED <<rows, answers, settling, drafting, unsure>>
  BY DEF Asks, Call, server, draft
<1>2. c.kind = kind /\ c.slot = slot /\ c.draft = (IF kind = "create" THEN drafting ELSE 0) /\ c.live /\ ~c.gone
  OBVIOUS
<1> HIDE DEF c
<1>3. (kind = "create" => slot = "save") /\ calls \in Nat
  BY DEF Asks, TypeInv, CountTypes
<1>4. SameDrafts
  BY <1>1 DEF SameDrafts, Known
<1>5. Told' = Told /\ Awaited' = Awaited \cup (IF slot = "save" THEN {c} ELSE {})
  BY <1>1, <1>2 DEF Told, Awaited
<1>6. CallNumbers' /\ AnswerNumbers'
  <2>1. drafting \in 1..calls + 1 /\ CallNumbers /\ AnswerNumbers
    BY DEF DraftInv, DraftNumbers
  <2>2. 1..calls \subseteq 1..calls' /\ 1..calls + 1 = 1..calls'
    BY <1>1, <1>3
  <2>3. CallNumbers'
    BY <1>1, <1>2, <1>3, <1>5, <2>1, <2>2 DEF CallNumbers
  <2>4. AnswerNumbers'
    BY <1>1, <1>5, <2>1, <2>2 DEF AnswerNumbers
  <2>5. QED BY <2>3, <2>4
<1>7. Told' \cap answers' \cap settling' = {}
  BY <1>1, <1>5 DEF DraftInv, OneAwaited
<1>8. CASE slot # "save"
  BY <1>1, <1>4, <1>5, <1>6, <1>7, <1>8, QuietDrafts
<1>9. CASE slot = "save"
  <2>1. Awaited = {} /\ Told = {}
    BY <1>1, <1>9 DEF DraftInv, OneAwaited
  <2>2. Made(drafting) => drafting \in unsure
    BY <2>1 DEF DraftInv, DraftFinished
  <2>3. OneProductPerDraft' /\ (Made(drafting)' => Made(drafting))
    <3>1. Known' = Known
      BY <1>1 DEF Known
    <3>2. OneProductPerDraft'
      BY <1>1, <3>1 DEF DraftInv, OneProductPerDraft
    <3>3. QED BY <1>1, <3>1, <3>2 DEF Made
  <2>4. DraftNumbers'
    <3>1. \A n \in Known : rows[n] # None => rows[n].draft \in Nat /\ rows[n].draft <= calls
      BY Rows DEF TypeInv, DraftInv, DraftNumbers
    <3>2. QED BY <1>1, <1>3, <1>6, <3>1 DEF DraftInv, DraftNumbers, Known
  <2>5. OneAwaited'
    BY <1>1, <1>5, <1>7, <1>9, <2>1 DEF OneAwaited
  <2>6. NotMade'
    BY <1>1, <1>2, <1>5, <1>9, <2>1, <2>2 DEF NotMade, Made, Known
  <2>7. DraftFinished'
    BY <1>1, <2>2, <2>3 DEF DraftFinished
  <2>8. QED BY <2>3, <2>4, <2>5, <2>6, <2>7 DEF DraftInv
<1>10. QED BY <1>8, <1>9

\* A page that is left awaits nothing; the drafts of its calls are unsure, but for a
\* save that is over.
LEMMA NavigateDrafts ==
  ASSUME TypeInv, DraftInv, NEW p, NEW kept, NEW done, Navigate(p, kept, done), done \subseteq settling,
         \A a, b \in done : a = b, UNCHANGED <<rows, calls>>, drafting' \in {drafting, calls + 1},
         \A a \in done : a.call.kind = "create" => a.call.slot = "save" /\ a.call.draft # drafting'
  PROVE  DraftInv'
<1>1. /\ wire' = Deserted(wire) /\ answers' = DesertedAnswers(answers \ done)
      /\ settling' = DesertedAnswers(settling \ done)
      /\ unsure' = unsure \cup (Unanswered \ {a.call.draft : a \in done}) /\ busy' = {}
  BY DEF Navigate, Mount
<1>2. /\ \A c \in wire' : ~c.live /\ \E d \in wire : Same(c, d)
      /\ \A a \in answers' \cup settling' : ~a.call.live /\ \E b \in (answers \cup settling) \ done : Same(a.call, b.call)
  <2>1. /\ \A c \in Deserted(wire) : ~c.live /\ \E d \in wire : Same(c, d)
        /\ \A a \in DesertedAnswers(answers \ done) : ~a.call.live /\ \E b \in answers \ done : Same(a.call, b.call)
        /\ \A a \in DesertedAnswers(settling \ done) : ~a.call.live /\ \E b \in settling \ done : Same(a.call, b.call)
    BY DesertedCall DEF TypeInv
  <2>2. QED BY <1>1, <2>1
<1>3. Awaited' = {} /\ Told' = {}
  BY <1>2 DEF Awaited, Told
<1>4. SameDrafts
  BY DEF SameDrafts, Known
<1>5. /\ \A c \in wire : Aimed(c) /\ (c.kind = "create" => c.slot = "save")
      /\ \A a \in answers \cup settling : Aimed(a.call) /\ (a.call.kind = "create" => a.call.slot = "save")
  BY DEF TypeInv, NetTypes, Aimed
<1>6. ASSUME NEW a \in done, a.call.kind = "create"
      PROVE  /\ \A c \in wire : c.kind = "create" => c.draft # a.call.draft \/ c.draft \in unsure
             /\ \A b \in (answers \cup settling) \ done :
                  b.call.kind = "create" => b.call.draft # a.call.draft \/ b.call.draft \in unsure
  <2>1. a \in settling
    BY <1>6
  <2>2. CASE a \in Told
    BY <2>2 DEF DraftInv, OneAwaited, DraftNumbers, CallNumbers, AnswerNumbers
  <2>3. CASE a \notin Told
    BY <1>6, <2>1, <2>3 DEF DraftInv, DraftNumbers, AnswerNumbers
  <2>4. QED BY <2>2, <2>3
<1>7. ASSUME NEW d, d # 0, d \in Unanswered, \A a \in done : a.call.kind = "create" => d # a.call.draft \/ d \in unsure
      PROVE  d \in unsure'
  <2>1. \A a \in done : a.call.kind # "create" => a.call.draft = 0
    BY <1>5 DEF Aimed
  <2>2. QED BY <1>1, <1>7, <2>1
<1>8. /\ \A c \in wire : c.kind = "create" => c.draft \in 1..calls /\ c.draft \in unsure'
      /\ \A b \in (answers \cup settling) \ done :
           b.call.kind = "create" => b.call.draft \in 1..calls /\ b.call.draft \in unsure'
  <2>1. ASSUME NEW c \in wire, c.kind = "create"
        PROVE  c.draft \in 1..calls /\ c.draft \in unsure'
    <3>1. c.draft \in 1..calls
      BY <2>1 DEF DraftInv, DraftNumbers, CallNumbers
    <3>2. c.draft # 0 /\ c.draft \in Unanswered
      BY <2>1, <3>1 DEF Unanswered
    <3>3. QED BY <1>6, <1>7, <2>1, <3>1, <3>2
  <2>2. ASSUME NEW b \in (answers \cup settling) \ done, b.call.kind = "create"
        PROVE  b.call.draft \in 1..calls /\ b.call.draft \in unsure'
    <3>1. b.call.draft \in 1..calls
      BY <2>2 DEF DraftInv, DraftNumbers, AnswerNumbers
    <3>2. b.call.draft # 0 /\ b.call.draft \in Unanswered
      BY <2>2, <3>1 DEF Unanswered
    <3>3. QED BY <1>6, <1>7, <2>2, <3>1, <3>2
  <2>3. QED BY <2>1, <2>2
<1>9. CallNumbers' /\ AnswerNumbers'
  <2>1. CallNumbers'
    BY <1>2, <1>8 DEF CallNumbers, Same
  <2>2. AnswerNumbers'
    BY <1>2, <1>8 DEF AnswerNumbers, Same
  <2>3. QED BY <2>1, <2>2
<1>10. \A a \in Told : a.call.kind # "create" \/ a.call.draft \in unsure' \/ a.call.draft # drafting'
  BY <1>8 DEF Told
<1>11. unsure \subseteq unsure' /\ Told' \cap answers' \cap settling' = {}
  BY <1>1, <1>3
<1>12. QED BY <1>3, <1>4, <1>9, <1>10, <1>11, QuietDrafts

LEMMA ReloadDrafts ==
  ASSUME TypeInv, DraftInv, Reload
  PROVE  DraftInv'
<1>1. /\ wire' = {[c EXCEPT !.gone = TRUE] : c \in wire} /\ answers' = {} /\ settling' = {}
      /\ unsure' = unsure \cup Unanswered /\ UNCHANGED <<rows, drafting, calls>>
  BY DEF Reload, server
<1>2. \A c \in wire' : c.gone /\ \E d \in wire : Same(c, d)
  <2>1. ASSUME NEW d \in wire
        PROVE  Same([d EXCEPT !.gone = TRUE], d) /\ [d EXCEPT !.gone = TRUE].gone
    BY CallFields DEF TypeInv, NetTypes
  <2>2. QED BY <1>1, <2>1
<1>3. Awaited' = {} /\ Told' = {}
  BY <1>1, <1>2 DEF Awaited, Told
<1>4. SameDrafts
  BY <1>1 DEF SameDrafts, Known
<1>5. /\ \A c \in wire : c.kind = "create" => c.draft \in 1..calls /\ c.draft \in unsure'
      /\ \A b \in answers \cup settling : b.call.kind = "create" => b.call.draft \in unsure'
  BY <1>1 DEF Unanswered, DraftInv, DraftNumbers, CallNumbers
<1>6. CallNumbers' /\ AnswerNumbers'
  BY <1>1, <1>2, <1>5 DEF CallNumbers, AnswerNumbers, Same
<1>7. \A a \in Told : a.call.kind # "create" \/ a.call.draft \in unsure'
  BY <1>5 DEF Told
<1>8. unsure \subseteq unsure' /\ Told' \cap answers' \cap settling' = {}
  BY <1>1
<1>9. QED BY <1>1, <1>3, <1>4, <1>6, <1>7, <1>8, QuietDrafts

LEMMA LoseDrafts ==
  ASSUME TypeInv, DraftInv, Lose
  PROVE  DraftInv'
<1>1. SameDrafts /\ UNCHANGED <<settling, drafting, calls>>
  BY DEF Lose, SameDrafts, server, Known
<1>2. ASSUME NEW c \in wire, ~c.gone, answers' = answers, busy' = Released(c), unsure' = unsure \cup {c.draft},
             \/ wire' = wire \ {c}
             \/ wire' = (wire \ {c}) \cup {[c EXCEPT !.gone = TRUE]}
      PROVE  DraftInv'
  <2> DEFINE e == [c EXCEPT !.gone = TRUE]
  <2>1. Same(e, c) /\ e.gone
    BY CallFields DEF TypeInv, NetTypes
  <2>2. wire' = wire \ {c} \/ wire' = (wire \ {c}) \cup {e}
    BY <1>2
  <2> HIDE DEF e
  <2>3. Awaited' = Awaited \ {c}
    BY <2>1, <2>2 DEF Awaited
  <2>4. Told' = Told
    BY <1>1, <1>2 DEF Told
  <2>5. CallNumbers'
    <3>1. ASSUME NEW d \in wire', d.kind = "create"
          PROVE  d.draft \in 1..calls /\ (d \in Awaited' \/ d.draft \in unsure')
      <4>1. CASE d \in wire /\ d # c
        BY <1>2, <2>3, <3>1, <4>1 DEF DraftInv, DraftNumbers, CallNumbers
      <4>2. CASE d = e
        BY <1>2, <2>1, <3>1, <4>2 DEF DraftInv, DraftNumbers, CallNumbers, Same
      <4>3. QED BY <2>2, <4>1, <4>2
    <3>2. QED BY <1>1, <3>1 DEF CallNumbers
  <2>6. AnswerNumbers'
    BY <1>1, <1>2, <2>4 DEF DraftInv, DraftNumbers, AnswerNumbers
  <2>7. Told' \cap answers' \cap settling' = {}
    BY <1>1, <1>2, <2>4 DEF DraftInv, OneAwaited
  <2>8. "save" \in busy => "save" \in busy' \/ (Awaited' = {} /\ Told' = {})
    <3>1. CASE c \in Awaited
      BY <2>3, <2>4, <3>1 DEF DraftInv, OneAwaited
    <3>2. CASE c \notin Awaited
      BY <1>2, <3>2 DEF Awaited, Released
    <3>3. QED BY <3>1, <3>2
  <2>9. QED BY <1>1, <1>2, <2>3, <2>4, <2>5, <2>6, <2>7, <2>8, QuietDrafts
<1>3. ASSUME NEW a \in answers, wire' = wire, answers' = answers \ {a}, busy' = Released(a.call),
             unsure' = unsure \cup {a.call.draft}
      PROVE  DraftInv'
  <2>1. Awaited' = Awaited /\ Told' \subseteq Told /\ \A b \in Told : b = a \/ b \in Told'
    BY <1>1, <1>3 DEF Awaited, Told
  <2>2. CallNumbers'
    BY <1>1, <1>3, <2>1 DEF DraftInv, DraftNumbers, CallNumbers
  <2>3. AnswerNumbers'
    BY <1>1, <1>3, <2>1 DEF DraftInv, DraftNumbers, AnswerNumbers
  <2>4. Told' \cap answers' \cap settling' = {}
    BY <1>1, <1>3, <2>1 DEF DraftInv, OneAwaited
  <2>5. "save" \in busy => "save" \in busy' \/ (Awaited' = {} /\ Told' = {})
    <3>1. CASE a \in Told
      <4>1. a \notin settling /\ Awaited = {} /\ \A b \in Told : b = a
        BY <1>3, <3>1 DEF DraftInv, OneAwaited
      <4>2. a \notin Told'
        BY <1>1, <1>3, <4>1 DEF Told
      <4>3. QED BY <2>1, <4>1, <4>2
    <3>2. CASE a \notin Told
      BY <1>3, <3>2 DEF Told, Released
    <3>3. QED BY <3>1, <3>2
  <2>6. \A b \in Told : b \in Told' \/ b.call.draft \in unsure'
    BY <1>3, <2>1
  <2>7. QED BY <1>1, <1>3, <2>1, <2>2, <2>3, <2>4, <2>5, <2>6, QuietDrafts
<1>4. QED BY <1>2, <1>3 DEF Lose

\* An answer is delivered, or its page has done with it.
LEMMA AnswerDrafts ==
  ASSUME TypeInv, DraftInv, NEW a, UNCHANGED <<rows, wire, unsure, calls>>,
         \/ a \in answers /\ answers' = answers \ {a} /\ settling' = settling \cup {a} /\ busy' = busy
         \/ a \in answers /\ ~a.ok /\ answers' = answers \ {a} /\ settling' = settling /\ busy' = Released(a.call)
         \/ a \in settling \ Told /\ answers' = answers /\ settling' = settling \ {a} /\ busy' \in {busy, Released(a.call)},
         drafting' \in {drafting, calls + 1}
  PROVE  DraftInv'
<1>1. SameDrafts
  BY DEF SameDrafts, Known
<1>2. Awaited' = Awaited /\ Told' \subseteq Told
  BY DEF Awaited, Told
<1>3. \A b \in Told : b \in Told' \/ (b = a /\ ~a.ok)
  BY DEF Told
<1>4. Told' \cap answers' \cap settling' = {}
  BY <1>2 DEF DraftInv, OneAwaited
<1>5. CallNumbers'
  BY <1>2 DEF DraftInv, DraftNumbers, CallNumbers
<1>6. AnswerNumbers'
  <2>1. \A b \in answers' \cup settling' : b \in answers \cup settling /\ (b \in Told => b \in Told')
    BY DEF Told
  <2>2. QED BY <2>1 DEF DraftInv, DraftNumbers, AnswerNumbers
<1>7. "save" \in busy => "save" \in busy' \/ (Awaited' = {} /\ Told' = {})
  <2>1. CASE a \in Told /\ ~a.ok /\ answers' = answers \ {a} /\ settling' = settling
    <3>1. Awaited = {} /\ \A b \in Told : b = a
      BY <2>1 DEF DraftInv, OneAwaited
    <3>2. a \notin Told'
      BY <1>4, <2>1 DEF DraftInv, OneAwaited, Told
    <3>3. QED BY <1>2, <3>1, <3>2
  <2>2. CASE a \notin Told /\ busy' \in {busy, Released(a.call)} /\ a \in answers \cup settling
    BY <2>2 DEF Told, Released
  <2>3. CASE busy' = busy
    BY <2>3
  <2>4. QED BY <2>1, <2>2, <2>3
<1>8. QED BY <1>1, <1>2, <1>3, <1>4, <1>5, <1>6, <1>7, QuietDrafts

LEMMA SavedDrafts ==
  ASSUME TypeInv, DraftInv, NEW a \in settling, Saved(a)
  PROVE  DraftInv'
<1>1. /\ drafting' = IF a.call.kind = "create" /\ a.call.draft = drafting THEN calls + 1 ELSE drafting
      /\ UNCHANGED <<rows, calls>>
  BY DEF Saved, server
<1>2. a.call.kind = "create" => a.call.slot = "save" /\ a.call.draft \in 1..calls
  BY DEF DraftInv, DraftNumbers, AnswerNumbers, TypeInv, NetTypes, Aimed
<1>3. calls \in Nat
  BY DEF TypeInv, CountTypes
<1>4. a.call.kind = "create" => a.call.draft # drafting'
  BY <1>1, <1>2, <1>3
<1>5. CASE Navigate(List, stored', {a})
  BY <1>1, <1>2, <1>4, <1>5, NavigateDrafts
<1>6. CASE ~a.call.live /\ settling' = settling \ {a} /\ UNCHANGED <<wire, answers, page, unsure>>
  BY <1>1, <1>6, AnswerDrafts DEF Told, page
<1>7. QED BY <1>5, <1>6 DEF Saved

LEMMA StepDrafts ==
  ASSUME TypeInv, DraftInv, [Next]_vars
  PROVE  DraftInv'
<1>1. ASSUME UNCHANGED <<rows, net, busy, unsure, calls>>, drafting' \in {drafting, calls + 1}
      PROVE  DraftInv'
  BY <1>1, RestDrafts DEF SameDrafts, Known
<1>2. CASE Refetch \/ Read \/ CloseAlert \/ OtherTab \/ UNCHANGED vars
  BY <1>1, <1>2 DEF Refetch, Read, CloseAlert, OtherTab, vars, server, page, draft
<1>3. CASE Arrive
  BY <1>1, <1>3 DEF Arrive, server, draft
<1>4. ASSUME NEW p, NEW kept, Navigate(p, kept, {}), UNCHANGED <<rows, calls>>, drafting' \in {drafting, calls + 1}
      PROVE  DraftInv'
  BY <1>4, NavigateDrafts
<1>5. ASSUME NEW p, Visit(p)
      PROVE  DraftInv'
  BY <1>4, <1>5 DEF Visit, server
<1>6. ASSUME NEW next, Type(next)
      PROVE  DraftInv'
  BY <1>1, <1>6 DEF Type, server
<1>7. CASE RequestCancel
  BY <1>1, <1>4, <1>7 DEF RequestCancel, server
<1>8. CASE CloseAndDeleteDraft \/ CloseAndKeepDraft
  BY <1>4, <1>8 DEF CloseAndDeleteDraft, CloseAndKeepDraft, server
<1>9. ASSUME NEW a \in answers, Deliver(a) \/ Refused(a)
      PROVE  DraftInv'
  BY <1>9, AnswerDrafts DEF Deliver, Refused, server, page, draft
<1>10. ASSUME NEW a \in settling, Finished(a)
       PROVE  DraftInv'
  BY <1>10, AnswerDrafts DEF Finished, server, draft, Told
<1>11. QED
  BY <1>2, <1>3, <1>5, <1>6, <1>7, <1>8, <1>9, <1>10, StepKinds, ExecuteDrafts, BeginDrafts, PushDrafts, CommitDrafts,
     OtherDrafts, AsksDrafts, ReloadDrafts, LoseDrafts, SavedDrafts

(* A draft becomes two products only when the first could not be known: when its
   creation was left, reloaded or lost before its answer. *)
THEOREM OneProduct == Spec => []OneProductPerDraft
<1>1. Init => TypeInv /\ DraftInv
  <2>1. SUFFICES ASSUME Init
                 PROVE  TypeInv /\ DraftInv
    OBVIOUS
  <2>2. wire = {} /\ answers = {} /\ settling = {} /\ drafting = 1 /\ calls = 0
    BY <2>1 DEF Init
  <2>3. Awaited = {} /\ Told = {}
    BY <2>2 DEF Awaited, Told
  <2>4. \A n \in Known : n = 1 /\ rows[n] # None /\ rows[n].draft = 0
    BY <2>1, Started
  <2>5. DraftNumbers
    BY <2>2, <2>4 DEF DraftNumbers, CallNumbers, AnswerNumbers
  <2>6. OneAwaited /\ NotMade /\ OneProductPerDraft
    BY <2>3, <2>4 DEF OneAwaited, NotMade, OneProductPerDraft
  <2>7. DraftFinished
    BY <2>2, <2>4 DEF DraftFinished, Made
  <2>8. QED BY <2>1, <2>5, <2>6, <2>7, Started DEF DraftInv
<1>2. TypeInv /\ DraftInv /\ [Next]_vars => TypeInv' /\ DraftInv'
  BY StepTypes, StepDrafts
<1>3. DraftInv => OneProductPerDraft
  BY DEF DraftInv
<1>4. QED BY <1>1, <1>2, <1>3, PTL DEF Spec
=============================================================================
