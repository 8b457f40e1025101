------------------------- MODULE DocumentDeskProofs -------------------------
(* Proofs about DocumentDesk, for any number of documents, texts, calls and events. *)
EXTENDS DocumentDesk, TLAPS

IInv == TypeOK /\ FormIsRight /\ OwnForm /\ StoredDraft

Pages == Known \cup {Elsewhere, New}

-----------------------------------------------------------------------------
(* The documents *)

LEMMA Marks ==
  /\ Ids \subseteq Nat /\ Elsewhere \notin Ids /\ New \notin Ids /\ Elsewhere # New /\ None # Sent
  /\ MaxDocs \in Nat /\ MaxEdits \in Nat
BY MarksAssumption, BoundsAssumption DEF Ids

LEMMA KnownAreIds ==
  ASSUME TypeOK
  PROVE  /\ Known \subseteq Ids /\ Len(docs) \in Nat /\ Known = DOMAIN docs
         /\ \A n \in Known : docs[n] \in Rows
         /\ Elsewhere \notin Known /\ New \notin Known
BY Marks DEF TypeOK, DocsOK, Known, Ids

LEMMA EmptyIsAContent == Empty \in Contents /\ Others \in Contents /\ Empty.contact = 0 /\ Empty.lines = 0
BY Marks DEF Empty, Others, Contents

\* A document keeps its kind, and stays.
Grown ==
  /\ docs' \in Seq(Rows) /\ Len(docs') <= MaxDocs
  /\ Known \subseteq Known' /\ \A n \in Known : docs'[n].kind = docs[n].kind

LEMMA AfterIsAStatus ==
  ASSUME NEW row \in Rows, NEW action, After(action, row) # None
  PROVE  After(action, row) \in Statuses
BY DEF After, QuotationAfter, InvoiceAfter, NextQuotationStatuses, Statuses, Rows

LEMMA ChangedRow ==
  ASSUME TypeOK, NEW n \in Known, NEW row \in Rows, row.kind = docs[n].kind,
         docs' = [docs EXCEPT ![n] = row]
  PROVE  Grown
BY KnownAreIds DEF TypeOK, DocsOK, Grown, Known

LEMMA AddedRow ==
  ASSUME TypeOK, NEW row \in Rows, Len(docs) < MaxDocs, docs' = Append(docs, row)
  PROVE  Grown /\ Len(docs) + 1 \in Known' /\ docs'[Len(docs) + 1] = row
BY KnownAreIds, Marks DEF TypeOK, DocsOK, Grown, Known

LEMMA SameRows ==
  ASSUME TypeOK, docs' = docs
  PROVE  Grown
BY DEF TypeOK, DocsOK, Grown, Known

LEMMA CopyIsACopy == ASSUME NEW row \in Rows PROVE Copy(row) \in Copies
BY DEF Copy, Copies, Rows

-----------------------------------------------------------------------------
(* Calls *)

LEMMA CallShape ==
  ASSUME NEW c \in ServerCall
  PROVE  /\ c.kind \in {"create", "update", "status", "convert", "invoice"}
         /\ c.kind \in {"create", "update"} => c.body \in Contents /\ c.slot = "save"
         /\ c.kind \in {"update", "status", "convert"} => c.doc \in Known
         /\ c.kind = "status" => c.body \in Actions
         /\ c.live \in BOOLEAN /\ c.slot \in {"save", "action"}
BY DEF ServerCall, CallTo

LEMMA OrphanIsACall ==
  ASSUME NEW c \in ServerCall
  PROVE  [c EXCEPT !.live = FALSE] \in ServerCall /\ [c EXCEPT !.gone = TRUE] \in ServerCall
BY DEF ServerCall, CallTo

LEMMA OrphanIsAnAnswer ==
  /\ \A a \in Success : [a EXCEPT !.call.live = FALSE] \in Success
  /\ \A a \in Refusal : [a EXCEPT !.call.live = FALSE] \in Refusal
BY OrphanIsACall DEF Success, Refusal

LEMMA CallsStay ==
  ASSUME Known \subseteq Known'
  PROVE  ServerCall \subseteq ServerCall' /\ Success \subseteq Success' /\ Refusal \subseteq Refusal'
<1>1. ServerCall \subseteq ServerCall'
  BY DEF ServerCall, CallTo
<1> QED BY <1>1 DEF Success, Refusal

LEMMA ExecuteKeeps ==
  ASSUME TypeOK, NEW c \in wire, Execute(c)
  PROVE  Grown /\ answers' \subseteq Success' \cup Refusal'
<1>1. c \in ServerCall  BY DEF TypeOK, NetOK
<1>2. PICK ok \in BOOLEAN :
        /\ ok => Allowed(c)
        /\ docs' = IF ok THEN Result(c) ELSE docs
        /\ answers' = IF c.gone THEN answers
                      ELSE answers \cup {[call |-> c, ok |-> ok, doc |-> Target(c),
                                          copy |-> IF ok THEN Copy(docs'[Target(c)]) ELSE None]}
  <2>1. Allowed(c) \in BOOLEAN
    <3>1. ASSUME c.kind \in {"create", "invoice"} PROVE Allowed(c) \in BOOLEAN
      <4>1. Allowed(c) = (Len(docs) < MaxDocs)  BY <3>1 DEF Allowed
      <4>2. (Len(docs) < MaxDocs) \in BOOLEAN  OBVIOUS
      <4> QED BY <4>1, <4>2
    <3>2. ASSUME c.kind = "update" PROVE Allowed(c) \in BOOLEAN
      <4>1. Allowed(c) = (docs[c.doc].status = "DRAFT")  BY <3>2 DEF Allowed
      <4>2. (docs[c.doc].status = "DRAFT") \in BOOLEAN  OBVIOUS
      <4> QED BY <4>1, <4>2
    <3>3. ASSUME c.kind = "status" PROVE Allowed(c) \in BOOLEAN
      <4>1. Allowed(c) = (After(c.body, docs[c.doc]) # None)  BY <3>3 DEF Allowed
      <4>2. (After(c.body, docs[c.doc]) # None) \in BOOLEAN  OBVIOUS
      <4> QED BY <4>1, <4>2
    <3>4. ASSUME c.kind = "convert" PROVE Allowed(c) \in BOOLEAN
      <4>1. Allowed(c) = (docs[c.doc].status \in {"ACCEPTED", "CONVERTED"})  BY <3>4 DEF Allowed
      <4>2. (docs[c.doc].status \in {"ACCEPTED", "CONVERTED"}) \in BOOLEAN  OBVIOUS
      <4> QED BY <4>1, <4>2
    <3>5. c.kind \in {"create", "invoice"} \/ c.kind = "update" \/ c.kind = "status" \/ c.kind = "convert"
      BY <1>1, CallShape
    <3> QED BY <3>1, <3>2, <3>3, <3>4, <3>5, Zenon
  <2>2. PICK ok \in {Allowed(c)} \cup {FALSE} :
          /\ docs' = IF ok THEN Result(c) ELSE docs
          /\ answers' = IF c.gone THEN answers
                        ELSE answers \cup {[call |-> c, ok |-> ok, doc |-> Target(c),
                                            copy |-> IF ok THEN Copy(docs'[Target(c)]) ELSE None]}
    BY Zenon DEF Execute
  <2>3. ok \in BOOLEAN /\ (ok => Allowed(c))
    BY <2>1, <2>2
  <2> QED BY <2>2, <2>3, Zenon
<1>3. Grown /\ (ok => Target(c) \in Known')
  <2>1. CASE ~ok
    BY <2>1, <1>2, SameRows
  <2>2. CASE ok /\ c.kind \in {"create", "invoice"}
    <3>1. Len(docs) < MaxDocs  BY <1>2, <2>2 DEF Allowed
    <3>2. PICK row \in Rows : docs' = Append(docs, row)
      BY <1>1, <1>2, <2>2, CallShape, EmptyIsAContent DEF Result, Draft, Rows, Statuses
    <3> QED BY <3>1, <3>2, <2>2, AddedRow DEF Target
  <2>3. CASE ok /\ c.kind \in {"update", "status", "convert"}
    <3>1. c.doc \in Known /\ docs[c.doc] \in Rows  BY <1>1, <2>3, CallShape, KnownAreIds
    <3>2. PICK row \in Rows : row.kind = docs[c.doc].kind /\ docs' = [docs EXCEPT ![c.doc] = row]
      <4>1. CASE c.kind = "update"
        <5> DEFINE row == [docs[c.doc] EXCEPT !.content = c.body]
        <5>1. row \in Rows /\ row.kind = docs[c.doc].kind  BY <3>1, <1>1, <4>1, CallShape DEF Rows
        <5>2. docs' = [docs EXCEPT ![c.doc] = row]
          BY <1>2, <2>3, <4>1, <3>1, KnownAreIds DEF Result, TypeOK, DocsOK
        <5> QED BY <5>1, <5>2
      <4>2. CASE c.kind = "status"
        <5> DEFINE row == [docs[c.doc] EXCEPT !.status = After(c.body, docs[c.doc])]
        <5>0. After(c.body, docs[c.doc]) \in Statuses
          BY <1>2, <2>3, <4>2, <3>1, AfterIsAStatus DEF Allowed
        <5>1. row \in Rows /\ row.kind = docs[c.doc].kind  BY <3>1, <5>0 DEF Rows
        <5>2. docs' = [docs EXCEPT ![c.doc] = row]
          BY <1>2, <2>3, <4>2, <3>1, KnownAreIds DEF Result, TypeOK, DocsOK
        <5> QED BY <5>1, <5>2
      <4>3. CASE c.kind = "convert"
        <5> DEFINE row == [docs[c.doc] EXCEPT !.status = "CONVERTED"]
        <5>1. row \in Rows /\ row.kind = docs[c.doc].kind  BY <3>1 DEF Rows, Statuses
        <5>2. docs' = [docs EXCEPT ![c.doc] = row]
          BY <1>2, <2>3, <4>3, <3>1, KnownAreIds DEF Result, TypeOK, DocsOK
        <5> QED BY <5>1, <5>2
      <4> QED BY <2>3, <4>1, <4>2, <4>3
    <3>3. Grown  BY <3>1, <3>2, ChangedRow
    <3> QED BY <3>1, <3>3, <2>3 DEF Target, Grown
  <2> QED BY <1>1, <2>1, <2>2, <2>3, CallShape
<1>4. ok => Copy(docs'[Target(c)]) \in Copies
  BY <1>3, CopyIsACopy DEF Grown, Known
<1>5. Target(c) \in Nat
  BY <1>1, KnownAreIds, CallShape, Marks DEF Target
<1>6. c \in ServerCall' /\ answers \subseteq Success' \cup Refusal'
  BY <1>1, <1>3, CallsStay DEF TypeOK, NetOK, Grown
<1>7. CASE ok
  <2>1. [call |-> c, ok |-> ok, doc |-> Target(c), copy |-> IF ok THEN Copy(docs'[Target(c)]) ELSE None] \in Success'
    BY <1>7, <1>3, <1>4, <1>6 DEF Success
  <2> QED BY <2>1, <1>2, <1>3, <1>6
<1>8. CASE ~ok
  <2>1. [call |-> c, ok |-> ok, doc |-> Target(c), copy |-> IF ok THEN Copy(docs'[Target(c)]) ELSE None] \in Refusal'
    BY <1>8, <1>5, <1>6 DEF Refusal
  <2> QED BY <2>1, <1>2, <1>3, <1>6
<1> QED BY <1>7, <1>8
-----------------------------------------------------------------------------
(* Going from page to page *)

LEMMA SameTypes ==
  ASSUME docs' = docs
  PROVE  /\ Known' = Known /\ ServerCall' = ServerCall /\ Success' = Success /\ Refusal' = Refusal
         /\ \A p : IsInvoice(p)' = IsInvoice(p)
<1>1. Known' = Known  BY DEF Known
<1>2. ServerCall' = ServerCall  BY <1>1 DEF ServerCall, CallTo
<1>3. Success' = Success /\ Refusal' = Refusal  BY <1>1, <1>2 DEF Success, Refusal
<1> QED BY <1>1, <1>2, <1>3 DEF IsInvoice

\* Whose calls are under way: not one of them belongs to a page that was left.
LEMMA DesertKeeps ==
  ASSUME IInv, docs' = docs, NEW done, Desert(done)
  PROVE  NetOK' /\ OwnForm' /\ (\A c \in Underway' : ~c.live)
<1>0. \A c \in ServerCall : /\ ~([c EXCEPT !.live = FALSE]).live
                            /\ ([c EXCEPT !.live = FALSE]).kind = c.kind
                            /\ ([c EXCEPT !.live = FALSE]).filledFrom = c.filledFrom
                            /\ ([c EXCEPT !.live = FALSE]).doc = c.doc
                            /\ ([c EXCEPT !.live = FALSE]).carried = c.carried
  BY DEF ServerCall, CallTo
<1>1. /\ wire' \subseteq ServerCall /\ \A c \in wire' : ~c.live
      /\ \A c \in wire' : c.kind = "update" => c.filledFrom = c.doc \/ c.carried
  <2> SUFFICES ASSUME NEW d \in wire'
               PROVE  d \in ServerCall /\ ~d.live /\ (d.kind = "update" => d.filledFrom = d.doc \/ d.carried)
    OBVIOUS
  <2>1. PICK c \in wire : d = [c EXCEPT !.live = FALSE]
    BY DEF Desert, Deserted
  <2>2. c \in ServerCall  BY DEF IInv, TypeOK, NetOK
  <2>3. c.kind = "update" => c.filledFrom = c.doc \/ c.carried  BY DEF IInv, OwnForm
  <2> QED BY <2>1, <2>2, <2>3, <1>0, OrphanIsACall
<1>2. answers' \subseteq Success \cup Refusal /\ \A a \in answers' : ~a.call.live
  <2>1. \A a \in Success \cup Refusal : ~([a EXCEPT !.call.live = FALSE]).call.live
    BY DEF Success, Refusal, ServerCall, CallTo
  <2> QED BY <2>1, OrphanIsAnAnswer DEF IInv, TypeOK, NetOK, Desert, DesertedAnswers
<1>3. settling' \subseteq Success /\ \A a \in settling' : ~a.call.live
  <2>1. \A a \in Success : ~([a EXCEPT !.call.live = FALSE]).call.live
    BY DEF Success, ServerCall, CallTo
  <2> QED BY <2>1, OrphanIsAnAnswer DEF IInv, TypeOK, NetOK, Desert, DesertedAnswers
<1>4. NetOK'
  BY <1>1, <1>2, <1>3, SameTypes DEF NetOK
<1>5. OwnForm'
  BY <1>1 DEF OwnForm
<1> QED BY <1>1, <1>2, <1>3, <1>4, <1>5 DEF Underway

LEMMA MountKeeps ==
  ASSUME TypeOK, docs' = docs, NEW p \in Pages, NEW kept \in Contents, Mount(p, cache', kept),
         cache' \in [Ids -> Copies \cup {None}]
  PROVE  /\ PageOK' /\ at' = p
         /\ QuotationShown' => filledFrom' = at'
         /\ IsInvoice(at') => ~editing'
         /\ at' = New => form' = kept
<1>1. p \in Ids /\ cache'[p] # None => cache'[p].content \in Contents /\ p \in Known
  BY Marks DEF Copies, Pages
<1>2. PageOK'
  BY <1>1, SameTypes, EmptyIsAContent DEF Mount, PageOK, Pages
<1>3. QuotationShown' => filledFrom' = at'
  BY SameTypes DEF Mount, QuotationShown, IsInvoice
<1>4. New \notin Known  BY KnownAreIds
<1> QED BY <1>2, <1>3, <1>4, Marks DEF Mount, IsInvoice, Known

LEMMA NavigateKeeps ==
  ASSUME IInv, docs' = docs, cache' = cache, stored' \in Contents, stored'.contact = 0,
         NEW p \in Pages, NEW done, Navigate(p, done)
  PROVE  NetOK' /\ PageOK' /\ FormIsRight' /\ OwnForm' /\ StoredDraft' /\ at' = p
<1>1. CASE IsInvoice(at) /\ IsInvoice(p)
  <2>1. Carry(p) /\ settling' = settling \ done /\ wire' = wire /\ answers' = answers
    BY <1>1 DEF Navigate
  <2>2. NetOK' /\ OwnForm' /\ Underway' \subseteq Underway
    BY <2>1, SameTypes DEF IInv, TypeOK, NetOK, OwnForm, Underway
  <2>3. PageOK' /\ at' = p /\ p \in Known
    BY <1>1, <2>1, SameTypes DEF IInv, TypeOK, PageOK, Carry, IsInvoice
  <2>4. ~QuotationShown' /\ StoredDraft'
    BY <1>1, <2>1, <2>3, SameTypes, KnownAreIds DEF QuotationShown, StoredDraft, Carry, IsInvoice, IInv
  <2>5. IsInvoice(at)' /\ editing' => filledFrom' = at' \/ carried'
    BY <1>1, <2>1 DEF Carry, IInv, FormIsRight
  <2>6. FormIsRight'
    BY <2>2, <2>3, <2>4, <2>5, SameTypes DEF FormIsRight, IInv
  <2> QED BY <2>2, <2>3, <2>4, <2>6
<1>2. CASE ~(IsInvoice(at) /\ IsInvoice(p))
  <2>1. Mount(p, cache', stored') /\ Desert(done)
    BY <1>2 DEF Navigate
  <2>2. NetOK' /\ OwnForm' /\ (\A c \in Underway' : ~c.live)
    BY <2>1, DesertKeeps
  <2>3. cache' \in [Ids -> Copies \cup {None}]  BY DEF IInv, TypeOK, CacheOK
  <2>4. /\ PageOK' /\ at' = p /\ (QuotationShown' => filledFrom' = at')
        /\ (IsInvoice(at') => ~editing') /\ (at' = New => form' = stored')
    BY <2>1, <2>3, MountKeeps DEF IInv
  <2>5. FormIsRight'
    BY <2>2, <2>4, SameTypes DEF FormIsRight, IsInvoice
  <2> QED BY <2>2, <2>4, <2>5 DEF StoredDraft
<1> QED BY <1>1, <1>2

LEMMA MountedFetchIsRight ==
  ASSUME IInv, docs' = docs, cache' = cache, NEW p \in Pages, fetch' = MountedFetch(p)
  PROVE  CacheOK'
<1>1. p \in Ids => p \in Known  BY Marks DEF Pages
<1> QED BY <1>1, SameTypes DEF IInv, TypeOK, CacheOK, MountedFetch

LEMMA EnterKeeps == ASSUME IInv, NEW p \in Known \cup {New}, Enter(p) PROVE IInv'
<1>1. /\ docs' = docs /\ cache' = cache /\ stored' = stored /\ p \in Pages
      /\ wire' = wire /\ answers' = answers /\ settling' = settling
  BY DEF Enter, net, Pages
<1>2. CacheOK'  BY <1>1, MountedFetchIsRight DEF Enter
<1>3. /\ PageOK' /\ at' = p /\ (QuotationShown' => filledFrom' = at')
      /\ (IsInvoice(at') => ~editing') /\ (at' = New => form' = stored)
  <2>1. Mount(p, cache', stored)  BY <1>1 DEF Enter
  <2> QED BY <2>1, <1>1, MountKeeps DEF IInv, TypeOK, CacheOK, CountOK
<1>4. TypeOK'
  BY <1>1, <1>2, <1>3, SameTypes DEF IInv, TypeOK, DocsOK, NetOK, CountOK, Enter
<1>5. \A c \in Underway : ~(c.live /\ c.kind = "update")
  BY KnownAreIds DEF IInv, FormIsRight, Enter
<1>6. FormIsRight'
  BY <1>1, <1>3, <1>5, SameTypes DEF FormIsRight, Underway, IsInvoice
<1> QED BY <1>1, <1>3, <1>4, <1>6 DEF IInv, OwnForm, StoredDraft

LEMMA JumpKeeps == ASSUME IInv, NEW n \in Known, Jump(n) PROVE IInv'
<1>1. /\ docs' = docs /\ cache' = cache /\ stored' = stored /\ n \in Pages /\ Navigate(n, {})
      /\ stored' \in Contents /\ stored'.contact = 0
  BY DEF Jump, Pages, IInv, TypeOK, CountOK, StoredDraft
<1>2. CacheOK'  BY <1>1, MountedFetchIsRight DEF Jump
<1>3. NetOK' /\ PageOK' /\ FormIsRight' /\ OwnForm' /\ StoredDraft'
  BY <1>1, NavigateKeeps
<1> QED BY <1>1, <1>2, <1>3 DEF IInv, TypeOK, DocsOK, CountOK, Jump

LEMMA LeaveKeeps == ASSUME IInv, Leave PROVE IInv'
<1>1. /\ docs' = docs /\ cache' = cache /\ fetch' = fetch /\ stored' = stored /\ Elsewhere \in Pages
      /\ Navigate(Elsewhere, {}) /\ stored' \in Contents /\ stored'.contact = 0
  BY DEF Leave, Pages, IInv, TypeOK, CountOK, StoredDraft
<1>3. NetOK' /\ PageOK' /\ FormIsRight' /\ OwnForm' /\ StoredDraft'
  BY <1>1, NavigateKeeps
<1> QED BY <1>1, <1>3, SameTypes DEF IInv, TypeOK, DocsOK, CacheOK, CountOK, Leave

LEMMA ReloadKeeps == ASSUME IInv, Reload PROVE IInv'
<1>1. /\ docs' = docs /\ stored' = stored /\ at \in Pages /\ stored \in Contents
      /\ cache' = [n \in Ids |-> None]
      /\ fetch' = [n \in Ids |-> IF n = at THEN Sent ELSE None]
      /\ answers' = {} /\ settling' = {} /\ wire' = {[c EXCEPT !.gone = TRUE] : c \in wire}
  BY DEF Reload, Pages, IInv, TypeOK, PageOK, CountOK
<1>2. CacheOK'
  <2>1. at \in Ids => at \in Known  BY <1>1, Marks DEF Pages
  <2> QED BY <1>1, <2>1, SameTypes DEF CacheOK
<1>3. /\ PageOK' /\ at' = at /\ (QuotationShown' => filledFrom' = at')
      /\ (IsInvoice(at') => ~editing') /\ (at' = New => form' = stored)
  BY <1>1, MountKeeps DEF IInv, Reload
<1>4. \A c \in ServerCall : /\ ([c EXCEPT !.gone = TRUE]).live = c.live
                            /\ ([c EXCEPT !.gone = TRUE]).kind = c.kind
                            /\ ([c EXCEPT !.gone = TRUE]).filledFrom = c.filledFrom
                            /\ ([c EXCEPT !.gone = TRUE]).doc = c.doc
                            /\ ([c EXCEPT !.gone = TRUE]).carried = c.carried
  BY DEF ServerCall, CallTo
<1>5. NetOK'
  BY <1>1, SameTypes, OrphanIsACall DEF IInv, TypeOK, NetOK
<1>6. OwnForm' /\ \A c \in Underway' : c.live /\ c.kind = "update" => at \in Known
  <2> SUFFICES ASSUME NEW d \in wire'
               PROVE  /\ d.kind = "update" => d.filledFrom = d.doc \/ d.carried
                      /\ d.live /\ d.kind = "update" => at \in Known
    BY <1>1 DEF OwnForm, Underway
  <2>1. PICK c \in wire : d = [c EXCEPT !.gone = TRUE]
    BY <1>1
  <2>2. c \in ServerCall  BY DEF IInv, TypeOK, NetOK
  <2>3. c.kind = "update" => c.filledFrom = c.doc \/ c.carried  BY DEF IInv, OwnForm
  <2>4. c.live /\ c.kind = "update" => at \in Known  BY DEF IInv, FormIsRight, Underway
  <2> QED BY <2>1, <2>2, <2>3, <2>4, <1>4
<1>7. FormIsRight'
  BY <1>1, <1>3, <1>6, SameTypes DEF FormIsRight, IsInvoice
<1> QED BY <1>1, <1>2, <1>3, <1>5, <1>6, <1>7 DEF IInv, TypeOK, DocsOK, CountOK, Reload, StoredDraft

-----------------------------------------------------------------------------
(* What the server and other administrators write *)

\* The page sees the same document whatever is written.
LEMMA GrownKeeps ==
  ASSUME IInv, Grown, cache' = cache, fetch' = fetch, page' = page, stored' = stored
  PROVE  /\ DocsOK' /\ CacheOK' /\ PageOK' /\ StoredDraft'
         /\ (QuotationShown' => filledFrom' = at')
         /\ (IsInvoice(at)' /\ editing' => filledFrom' = at' \/ carried')
         /\ (at \in Known => at' \in Known')
<1>1. DocsOK' /\ Known \subseteq Known' /\ at' = at
  BY DEF Grown, DocsOK, page
<1>2. IsInvoice(at)' <=> IsInvoice(at)
  <2>1. Known' \subseteq Nat  BY <1>1, Marks DEF DocsOK, Known
  <2>2. at \in Known' => at \in Known
    BY <2>1, MarksAssumption DEF IInv, TypeOK, PageOK
  <2> QED BY <1>1, <2>2 DEF Grown, IsInvoice
<1>3. CacheOK' /\ PageOK'
  BY <1>1 DEF IInv, TypeOK, CacheOK, PageOK, page
<1>4. StoredDraft'  BY DEF IInv, StoredDraft, page
<1>5. QuotationShown' => QuotationShown
  BY <1>1, <1>2 DEF QuotationShown
<1> QED BY <1>1, <1>2, <1>3, <1>4, <1>5 DEF IInv, FormIsRight, page

LEMMA ExecutePreserves == ASSUME IInv, NEW c \in wire, Execute(c) PROVE IInv'
<1>1. Grown /\ answers' \subseteq Success' \cup Refusal'
  BY ExecuteKeeps DEF IInv
<1>2. /\ cache' = cache /\ fetch' = fetch /\ page' = page /\ stored' = stored
      /\ settling' = settling /\ wire' = wire \ {c} /\ typed' = typed /\ calls' = calls /\ events' = events
  BY DEF Execute
<1>3. \A a \in answers' : a \in answers \/ a.call = c
  <2>1. PICK ok, doc, copy :
          answers' = IF c.gone THEN answers
                     ELSE answers \cup {[call |-> c, ok |-> ok, doc |-> doc, copy |-> copy]}
    BY Zenon DEF Execute
  <2> QED BY <2>1
<1>4. Underway' \subseteq Underway
  BY <1>2, <1>3 DEF Underway
<1>5. NetOK'
  BY <1>1, <1>2, CallsStay DEF IInv, TypeOK, NetOK, Grown
<1>6. CountOK'  BY <1>2 DEF IInv, TypeOK, CountOK, Contents
<1>7. OwnForm'  BY <1>2 DEF IInv, OwnForm
<1>8. at' = at  BY <1>2 DEF page
<1>9. FormIsRight'
  BY <1>1, <1>2, <1>4, <1>8, GrownKeeps DEF IInv, FormIsRight
<1> QED BY <1>1, <1>2, <1>5, <1>6, <1>7, <1>9, GrownKeeps DEF IInv, TypeOK

LEMMA OtherWritesKeeps == ASSUME IInv, NEW n \in Known, OtherWrites(n) PROVE IInv'
<1>1. docs[n] \in Rows  BY KnownAreIds DEF IInv
<1>2. Grown
  <2>1. CASE docs' = [docs EXCEPT ![n].content = Others]
    <3> DEFINE row == [docs[n] EXCEPT !.content = Others]
    <3>1. row \in Rows /\ row.kind = docs[n].kind  BY <1>1, EmptyIsAContent DEF Rows
    <3>2. docs' = [docs EXCEPT ![n] = row]  BY <2>1, KnownAreIds DEF IInv, TypeOK, DocsOK
    <3> QED BY <3>1, <3>2, ChangedRow DEF IInv
  <2>2. ASSUME NEW action \in Actions, After(action, docs[n]) \notin {None, docs[n].status},
               docs' = [docs EXCEPT ![n].status = After(action, docs[n])]
        PROVE  Grown
    <3> DEFINE row == [docs[n] EXCEPT !.status = After(action, docs[n])]
    <3>0. After(action, docs[n]) \in Statuses  BY <1>1, <2>2, AfterIsAStatus
    <3>1. row \in Rows /\ row.kind = docs[n].kind  BY <1>1, <3>0 DEF Rows
    <3>2. docs' = [docs EXCEPT ![n] = row]  BY <2>2, KnownAreIds DEF IInv, TypeOK, DocsOK
    <3> QED BY <3>1, <3>2, ChangedRow DEF IInv
  <2> QED BY <2>1, <2>2 DEF OtherWrites
<1>3. /\ cache' = cache /\ fetch' = fetch /\ page' = page /\ stored' = stored
      /\ settling' = settling /\ answers' = answers /\ wire' = wire
      /\ typed' = typed /\ calls' = calls /\ events' = events + 1
  BY DEF OtherWrites, net
<1>4. Underway' = Underway  BY <1>3 DEF Underway
<1>5. NetOK'  BY <1>2, <1>3, CallsStay DEF IInv, TypeOK, NetOK, Grown
<1>6. CountOK'  BY <1>3 DEF IInv, TypeOK, CountOK, Contents
<1>7. OwnForm'  BY <1>3 DEF IInv, OwnForm
<1>8. at' = at  BY <1>3 DEF page
<1>9. FormIsRight'
  BY <1>2, <1>3, <1>4, <1>8, GrownKeeps DEF IInv, FormIsRight
<1> QED BY <1>2, <1>3, <1>5, <1>6, <1>7, <1>9, GrownKeeps DEF IInv, TypeOK

-----------------------------------------------------------------------------
(* The query cache *)

LEMMA ReadsKeep == ASSUME IInv, NEW n \in Known, Refetch(n) \/ Read(n) PROVE IInv'
<1>1. /\ docs' = docs /\ cache' = cache /\ page' = page /\ stored' = stored
      /\ settling' = settling /\ answers' = answers /\ wire' = wire
      /\ typed' = typed /\ calls' = calls /\ events' = events
  BY DEF Refetch, Read, net
<1>2. Copy(docs[n]) \in Copies  BY KnownAreIds, CopyIsACopy DEF IInv
<1>3. fetch' = [fetch EXCEPT ![n] = Sent] \/ fetch' = [fetch EXCEPT ![n] = Copy(docs[n])]
  BY DEF Refetch, Read
<1>4. CacheOK'
  BY <1>1, <1>2, <1>3, SameTypes DEF IInv, TypeOK, CacheOK
<1>5. TypeOK'
  BY <1>1, <1>4, SameTypes DEF IInv, TypeOK, DocsOK, NetOK, PageOK, CountOK, Contents, page
<1>6. FormIsRight'
  BY <1>1, SameTypes DEF IInv, FormIsRight, QuotationShown, Underway, page
<1> QED BY <1>1, <1>5, <1>6 DEF IInv, OwnForm, StoredDraft, page

\* Whatever copy of one document comes in, the editor of a quotation stays its own.
LEMMA FilledKeeps ==
  ASSUME IInv, docs' = docs, NEW n \in Known, NEW copy \in Copies,
         cache' = [cache EXCEPT ![n] = copy],
         IF at = n THEN FilledFrom(n, cache') ELSE UNCHANGED <<form, filledFrom>>,
         at' = at, editing' = editing, carried' = carried, busy' = busy, stored' = stored
  PROVE  /\ PageOK' /\ StoredDraft'
         /\ (QuotationShown' => filledFrom' = at')
         /\ (IsInvoice(at)' /\ editing' => filledFrom' = at' \/ carried')
<1>0. n \in Ids /\ cache \in [Ids -> Copies \cup {None}] /\ n # New
  BY KnownAreIds DEF IInv, TypeOK, CacheOK
<1>1. cache'[n] = copy /\ copy.content \in Contents /\ \A m \in Ids : m # n => cache'[m] = cache[m]
  BY <1>0 DEF Copies
<1>2. form' \in Contents /\ filledFrom' \in Known \cup {None}
  BY <1>1 DEF FilledFrom, IInv, TypeOK, PageOK
<1>3. PageOK'  BY <1>2, SameTypes DEF IInv, TypeOK, PageOK
<1>4. StoredDraft'  BY <1>0 DEF IInv, StoredDraft
<1>5. ASSUME QuotationShown' PROVE filledFrom' = at'
  <2>1. at \in Ids /\ cache'[at] # None /\ ~IsInvoice(at)  BY <1>5, SameTypes DEF QuotationShown, IsInvoice
  <2>2. CASE at = n  BY <2>1, <2>2 DEF FilledFrom
  <2>3. CASE at # n  BY <2>1, <2>3, <1>1 DEF IInv, FormIsRight, QuotationShown
  <2> QED BY <2>2, <2>3
<1>6. ASSUME IsInvoice(at)', editing' PROVE filledFrom' = at' \/ carried'
  <2>1. IsInvoice(at) /\ editing  BY <1>6, SameTypes DEF IsInvoice
  <2>2. filledFrom' = filledFrom  BY <2>1 DEF FilledFrom
  <2> QED BY <2>1, <2>2 DEF IInv, FormIsRight
<1> QED BY <1>3, <1>4, <1>5, <1>6

LEMMA ArriveKeeps == ASSUME IInv, NEW n \in Known, Arrive(n) PROVE IInv'
<1>1. /\ docs' = docs /\ stored' = stored /\ at' = at /\ editing' = editing /\ carried' = carried /\ busy' = busy
      /\ settling' = settling /\ answers' = answers /\ wire' = wire
      /\ typed' = typed /\ calls' = calls /\ events' = events
      /\ cache' = [cache EXCEPT ![n] = fetch[n]] /\ fetch' = [fetch EXCEPT ![n] = None]
      /\ IF at = n THEN FilledFrom(n, cache') ELSE UNCHANGED <<form, filledFrom>>
  BY DEF Arrive, net
<1>2. fetch[n] \in Copies
  BY KnownAreIds DEF Arrive, IInv, TypeOK, CacheOK
<1>3. CacheOK'
  BY <1>1, <1>2, SameTypes DEF IInv, TypeOK, CacheOK
<1>4. PageOK' /\ StoredDraft' /\ (QuotationShown' => filledFrom' = at')
      /\ (IsInvoice(at)' /\ editing' => filledFrom' = at' \/ carried')
  BY <1>1, <1>2, FilledKeeps
<1>5. TypeOK'
  BY <1>1, <1>3, <1>4, SameTypes DEF IInv, TypeOK, DocsOK, NetOK, CountOK, Contents
<1>6. FormIsRight'
  BY <1>1, <1>4, SameTypes DEF IInv, FormIsRight, Underway
<1> QED BY <1>1, <1>4, <1>5, <1>6 DEF IInv, OwnForm

-----------------------------------------------------------------------------
(* What the user does on a page *)

LEMMA BeginEditKeeps == ASSUME IInv, BeginEdit PROVE IInv'
<1>1. /\ docs' = docs /\ net' = net /\ cache' = cache /\ fetch' = fetch /\ at' = at /\ busy' = busy
      /\ stored' = stored /\ typed' = typed /\ calls' = calls /\ events' = events
      /\ at \in Ids /\ cache[at] # None /\ editing' = TRUE
      /\ IF IsInvoice(at) THEN form' = cache[at].content /\ filledFrom' = at /\ carried' = FALSE
         ELSE UNCHANGED <<form, filledFrom, carried>>
  BY DEF BeginEdit, Shown, QuotationShown, InvoiceShown
<1>2. cache[at].content \in Contents /\ at \in Known /\ at # New
  BY <1>1, KnownAreIds DEF IInv, TypeOK, CacheOK, Copies
<1>3. PageOK'  BY <1>1, <1>2, SameTypes DEF IInv, TypeOK, PageOK
<1>4. TypeOK'
  BY <1>1, <1>3, SameTypes DEF IInv, TypeOK, DocsOK, NetOK, CacheOK, CountOK, Contents, net
<1>5. QuotationShown' => filledFrom' = at'
  BY <1>1, SameTypes DEF IInv, FormIsRight, QuotationShown, IsInvoice
<1>6. IsInvoice(at)' => filledFrom' = at'
  BY <1>1, SameTypes DEF IsInvoice
<1>7. FormIsRight'
  BY <1>1, <1>5, <1>6, SameTypes DEF IInv, FormIsRight, Underway, net
<1> QED BY <1>1, <1>2, <1>4, <1>7 DEF IInv, OwnForm, StoredDraft, net

LEMMA TypeKeeps == ASSUME IInv, Type PROVE IInv'
<1>1. /\ docs' = docs /\ net' = net /\ cache' = cache /\ fetch' = fetch /\ at' = at /\ busy' = busy
      /\ editing' = editing /\ filledFrom' = filledFrom /\ carried' = carried
      /\ typed' = typed + 1 /\ typed < MaxEdits /\ calls' = calls /\ events' = events
      /\ form' \in Typed /\ stored' = IF at = New THEN ForStorage(form') ELSE stored
  BY DEF Type
<1>2. form' \in Contents /\ typed' \in 0..MaxEdits
  BY <1>1, Marks DEF Typed, InvoiceFields, QuotationFields, Contents, IInv, TypeOK, PageOK, CountOK
<1>3. stored' \in Contents /\ stored'.contact = 0 /\ (at = New => stored'.lines = form'.lines)
  BY <1>1, <1>2, Marks DEF ForStorage, Contents, IInv, TypeOK, CountOK, StoredDraft
<1>4. TypeOK'
  BY <1>1, <1>2, <1>3, SameTypes DEF IInv, TypeOK, DocsOK, NetOK, CacheOK, PageOK, CountOK, net, Contents
<1>5. FormIsRight'
  BY <1>1, SameTypes DEF IInv, FormIsRight, QuotationShown, Underway, net
<1> QED BY <1>1, <1>3, <1>4, <1>5 DEF IInv, OwnForm, StoredDraft, net

LEMMA CancelEditingKeeps == ASSUME IInv, CancelEditing PROVE IInv'
<1>1. /\ docs' = docs /\ net' = net /\ cache' = cache /\ fetch' = fetch /\ at' = at /\ busy' = busy
      /\ stored' = stored /\ typed' = typed /\ calls' = calls /\ events' = events
      /\ at \in Ids /\ cache[at] # None /\ editing' = FALSE /\ carried' = FALSE
      /\ form' = IF IsInvoice(at) THEN Empty ELSE cache[at].content
      /\ filledFrom' = IF IsInvoice(at) THEN None ELSE filledFrom
  BY DEF CancelEditing, Shown, QuotationShown, InvoiceShown
<1>2. cache[at].content \in Contents /\ at # New
  BY <1>1, KnownAreIds, Marks DEF IInv, TypeOK, CacheOK, Copies
<1>3. PageOK'  BY <1>1, <1>2, SameTypes, EmptyIsAContent DEF IInv, TypeOK, PageOK
<1>4. TypeOK'
  BY <1>1, <1>3, SameTypes DEF IInv, TypeOK, DocsOK, NetOK, CacheOK, CountOK, Contents, net
<1>5. QuotationShown' => filledFrom' = at'
  BY <1>1, SameTypes DEF IInv, FormIsRight, QuotationShown, IsInvoice
<1>7. FormIsRight'
  BY <1>1, <1>5, SameTypes DEF IInv, FormIsRight, Underway, net
<1> QED BY <1>1, <1>2, <1>4, <1>7 DEF IInv, OwnForm, StoredDraft, net

\* What a call adds: it is of the page and carries what the form was filled from.
LEMMA CallKeeps ==
  ASSUME IInv, NEW slot, NEW kind, NEW body, Call(slot, kind, body),
         slot \in {"save", "action"}, kind = "update" => at \in Known,
         kind = "update" => filledFrom = at \/ carried,
         [kind |-> kind, slot |-> slot, doc |-> at, body |-> body, filledFrom |-> filledFrom,
          carried |-> carried, live |-> TRUE, gone |-> FALSE] \in ServerCall
  PROVE  IInv'
<1> DEFINE c == [kind |-> kind, slot |-> slot, doc |-> at, body |-> body, filledFrom |-> filledFrom,
                 carried |-> carried, live |-> TRUE, gone |-> FALSE]
<1>1. /\ docs' = docs /\ answers' = answers /\ settling' = settling /\ cache' = cache /\ fetch' = fetch
      /\ at' = at /\ editing' = editing /\ form' = form /\ filledFrom' = filledFrom /\ carried' = carried
      /\ stored' = stored /\ typed' = typed /\ events' = events /\ calls' = calls + 1
      /\ wire' = wire \cup {c} /\ busy' \subseteq busy \cup {slot}
  BY DEF Call
<1>2. TypeOK'
  <2>1. c \in ServerCall  OBVIOUS
  <2> HIDE DEF c
  <2>2. NetOK'  BY <1>1, <2>1, SameTypes DEF IInv, TypeOK, NetOK
  <2>3. PageOK'  BY <1>1, SameTypes DEF IInv, TypeOK, PageOK
  <2>4. DocsOK' /\ CacheOK' /\ CountOK'
    BY <1>1, SameTypes DEF IInv, TypeOK, DocsOK, CacheOK, CountOK
  <2> QED BY <2>2, <2>3, <2>4 DEF TypeOK
<1>3. Underway' = Underway \cup {c}  BY <1>1 DEF Underway
<1>4. FormIsRight'
  BY <1>1, <1>3, SameTypes DEF IInv, FormIsRight, QuotationShown
<1> QED BY <1>1, <1>2, <1>4 DEF IInv, OwnForm, StoredDraft

LEMMA SaveKeeps == ASSUME IInv, Save PROVE IInv'
<1> DEFINE kind == IF at = New THEN "create" ELSE "update"
<1>1. Call("save", kind, form) /\ editing /\ (Shown \/ at = New)
  BY DEF Save
<1>2. at # New => at \in Known /\ (filledFrom = at \/ carried)
  BY <1>1, Marks DEF Shown, QuotationShown, InvoiceShown, IInv, TypeOK, PageOK, CacheOK, FormIsRight
<1>3. [kind |-> kind, slot |-> "save", doc |-> at, body |-> form, filledFrom |-> filledFrom,
       carried |-> carried, live |-> TRUE, gone |-> FALSE] \in ServerCall
  BY <1>2 DEF IInv, TypeOK, PageOK, ServerCall, CallTo
<1> QED BY <1>1, <1>2, <1>3, CallKeeps

LEMMA ActionsKeep ==
  ASSUME IInv, QuotationAction \/ Convert \/ InvoiceAction \/ RequestInvoice
  PROVE  IInv'
<1>1. PICK kind \in {"status", "convert", "invoice"}, body \in Actions \cup {None} :
        /\ Call("action", kind, body)
        /\ \/ kind = "status" /\ body \in Actions /\ at \in Known
           \/ kind = "convert" /\ body = None /\ at \in Known
           \/ kind = "invoice" /\ body = None /\ at = Elsewhere
  <2>0. Shown => at \in Known
    BY DEF Shown, QuotationShown, InvoiceShown, IInv, TypeOK, CacheOK
  <2>1. \A s : NextQuotationStatuses(s) \subseteq Actions /\ Offered(s) \subseteq Actions
    BY DEF NextQuotationStatuses, Offered, Actions
  <2>2. CASE QuotationAction
    <3>1. PICK s \in NextQuotationStatuses(cache[at].status) : Call("action", "status", s)
      BY <2>2 DEF QuotationAction
    <3>2. at \in Known  BY <2>0, <2>2 DEF QuotationAction, Shown
    <3> QED BY <3>1, <3>2, <2>1
  <2>3. CASE Convert
    <3>1. Call("action", "convert", None)  BY <2>3 DEF Convert
    <3>2. at \in Known  BY <2>0, <2>3 DEF Convert, Shown
    <3> QED BY <3>1, <3>2
  <2>4. CASE InvoiceAction
    <3>1. PICK s \in Offered(cache[at].status) : Call("action", "status", s)
      BY <2>4 DEF InvoiceAction
    <3>2. at \in Known  BY <2>0, <2>4 DEF InvoiceAction, Shown
    <3> QED BY <3>1, <3>2, <2>1
  <2>5. CASE RequestInvoice
    <3>1. Call("action", "invoice", None) /\ at = Elsewhere  BY <2>5 DEF RequestInvoice
    <3> QED BY <3>1
  <2> QED BY <2>2, <2>3, <2>4, <2>5
<1>2. [kind |-> kind, slot |-> "action", doc |-> at, body |-> body, filledFrom |-> filledFrom,
       carried |-> carried, live |-> TRUE, gone |-> FALSE] \in ServerCall
  BY <1>1 DEF IInv, TypeOK, PageOK, ServerCall, CallTo
<1> QED BY <1>1, <1>2, CallKeeps

-----------------------------------------------------------------------------
(* Answers *)

LEMMA DeliverKeeps == ASSUME IInv, NEW a \in answers, Deliver(a) PROVE IInv'
<1>1. /\ docs' = docs /\ stored' = stored /\ at' = at /\ editing' = editing /\ carried' = carried /\ busy' = busy
      /\ settling' = settling \cup {a} /\ answers' = answers \ {a} /\ wire' = wire
      /\ typed' = typed /\ calls' = calls /\ events' = events
      /\ cache' = IF a.call.kind = "convert" THEN cache ELSE [cache EXCEPT ![a.doc] = a.copy]
      /\ fetch' = Invalidated(fetch)
      /\ IF at = a.doc THEN FilledFrom(a.doc, cache') ELSE UNCHANGED <<form, filledFrom>>
  BY DEF Deliver
<1>2. a \in Success
  BY DEF IInv, TypeOK, NetOK, Deliver, Refusal
<1>3. a.doc \in Known /\ a.doc \in Ids /\ a.copy \in Copies
  BY <1>2, KnownAreIds DEF IInv, Success
<1>4. /\ cache' \in [Ids -> Copies \cup {None}] /\ \A n \in Ids : cache'[n] # None => n \in Known
  BY <1>1, <1>3 DEF IInv, TypeOK, CacheOK
<1>5. CacheOK'
  <2>1. at \in Ids => at \in Known  BY Marks DEF IInv, TypeOK, PageOK
  <2>2. fetch' \in [Ids -> Copies \cup {None, Sent}] /\ \A n \in Ids : fetch'[n] # None => n \in Known
    BY <1>1, <2>1 DEF Invalidated, IInv, TypeOK, CacheOK
  <2> QED BY <1>1, <1>4, <2>2, SameTypes DEF CacheOK
<1>6. PageOK' /\ StoredDraft' /\ (QuotationShown' => filledFrom' = at')
      /\ (IsInvoice(at)' /\ editing' => filledFrom' = at' \/ carried')
  <2>1. CASE a.call.kind # "convert"
    BY <1>1, <1>3, <2>1, FilledKeeps
  <2>2. CASE a.call.kind = "convert"
    <3>1. cache' = cache  BY <1>1, <2>2
    <3>2. CASE form' = form /\ filledFrom' = filledFrom
      BY <1>1, <3>1, <3>2, SameTypes DEF IInv, TypeOK, PageOK, StoredDraft, FormIsRight, QuotationShown
    <3>3. CASE ~(form' = form /\ filledFrom' = filledFrom)
      <4>1. at = a.doc /\ cache[at] # None /\ ~IsInvoice(at) /\ form' = cache[at].content /\ filledFrom' = at
        BY <1>1, <3>1, <3>3 DEF FilledFrom
      <4>2. form' \in Contents /\ at # New
        BY <4>1, <1>3, KnownAreIds DEF IInv, TypeOK, CacheOK, Copies
      <4> QED BY <1>1, <1>3, <3>1, <4>1, <4>2, SameTypes
          DEF IInv, TypeOK, PageOK, StoredDraft, FormIsRight, QuotationShown, IsInvoice
    <3> QED BY <3>2, <3>3
  <2> QED BY <2>1, <2>2
<1>7. TypeOK'
  <2>1. NetOK'  BY <1>1, <1>2, SameTypes DEF IInv, TypeOK, NetOK
  <2>2. DocsOK' /\ CountOK'  BY <1>1 DEF IInv, TypeOK, DocsOK, CountOK, Rows, Contents
  <2> QED BY <2>1, <2>2, <1>5, <1>6 DEF TypeOK
<1>8. Underway' \subseteq Underway  BY <1>1 DEF Underway
<1>9. FormIsRight'
  BY <1>1, <1>6, <1>8, SameTypes DEF IInv, FormIsRight
<1> QED BY <1>1, <1>6, <1>7, <1>9 DEF IInv, OwnForm

LEMMA RefusedKeeps == ASSUME IInv, NEW a \in answers, Refused(a) PROVE IInv'
<1>1. /\ docs' = docs /\ stored' = stored /\ at' = at /\ editing' = editing /\ carried' = carried
      /\ form' = form /\ filledFrom' = filledFrom /\ cache' = cache /\ fetch' = fetch
      /\ settling' = settling /\ answers' = answers \ {a} /\ wire' = wire /\ busy' = Released(a.call)
      /\ typed' = typed /\ calls' = calls /\ events' = events
  BY DEF Refused
<1>2. busy' \subseteq busy  BY <1>1 DEF Released
<1>3. TypeOK'
  BY <1>1, <1>2, SameTypes DEF IInv, TypeOK, DocsOK, NetOK, CacheOK, PageOK, CountOK, Contents
<1>4. Underway' \subseteq Underway  BY <1>1 DEF Underway
<1>5. FormIsRight'
  BY <1>1, <1>4, SameTypes DEF IInv, FormIsRight, QuotationShown
<1> QED BY <1>1, <1>3, <1>5 DEF IInv, OwnForm, StoredDraft

LEMMA CreatedKeeps == ASSUME IInv, NEW a \in settling, Created(a) \/ Opened(a) PROVE IInv'
<1>1. a.doc \in Known  BY DEF IInv, TypeOK, NetOK, Success
<1>2. PICK p \in Pages : Navigate(p, {a}) /\ fetch' = MountedFetch(p)
  BY <1>1 DEF Created, Opened, Pages
<1>3. /\ docs' = docs /\ cache' = cache /\ typed' = typed /\ calls' = calls /\ events' = events
      /\ stored' \in Contents /\ stored'.contact = 0
  BY EmptyIsAContent DEF Created, Opened, IInv, TypeOK, CountOK, StoredDraft
<1>4. CacheOK'  BY <1>2, <1>3, MountedFetchIsRight
<1>5. NetOK' /\ PageOK' /\ FormIsRight' /\ OwnForm' /\ StoredDraft'
  BY <1>2, <1>3, NavigateKeeps
<1> QED BY <1>3, <1>4, <1>5 DEF IInv, TypeOK, DocsOK, CountOK, Contents

LEMMA UpdatedKeeps == ASSUME IInv, NEW a \in settling, Updated(a) PROVE IInv'
<1>1. /\ docs' = docs /\ stored' = stored /\ at' = at /\ filledFrom' = filledFrom
      /\ cache' = cache /\ fetch' = fetch
      /\ settling' = settling \ {a} /\ answers' = answers /\ wire' = wire /\ busy' = Released(a.call)
      /\ typed' = typed /\ calls' = calls /\ events' = events /\ a.call.kind = "update"
      /\ IF a.call.live THEN /\ editing' = FALSE /\ carried' = FALSE
                             /\ form' = IF IsInvoice(at) THEN form ELSE a.copy.content
         ELSE UNCHANGED <<editing, carried, form>>
  BY DEF Updated
<1>2. busy' \subseteq busy /\ a.copy.content \in Contents
  BY <1>1 DEF Released, IInv, TypeOK, NetOK, Success, Copies
<1>3. a.call.live => at # New
  BY <1>1, KnownAreIds DEF IInv, FormIsRight, Underway
<1>4. PageOK'
  BY <1>1, <1>2, SameTypes DEF IInv, TypeOK, PageOK
<1>5. TypeOK'
  BY <1>1, <1>4, SameTypes DEF IInv, TypeOK, DocsOK, NetOK, CacheOK, CountOK, Contents
<1>6. Underway' \subseteq Underway  BY <1>1 DEF Underway
<1>7. FormIsRight'
  BY <1>1, <1>6, SameTypes DEF IInv, FormIsRight, QuotationShown
<1> QED BY <1>1, <1>3, <1>5, <1>7 DEF IInv, OwnForm, StoredDraft

LEMMA StatusChangedKeeps == ASSUME IInv, NEW a \in settling, StatusChanged(a) PROVE IInv'
<1>1. /\ docs' = docs /\ stored' = stored /\ at' = at /\ carried' = carried
      /\ form' = form /\ filledFrom' = filledFrom /\ cache' = cache /\ fetch' = fetch
      /\ settling' = settling \ {a} /\ answers' = answers /\ wire' = wire /\ busy' = Released(a.call)
      /\ typed' = typed /\ calls' = calls /\ events' = events
      /\ editing' \in BOOLEAN /\ (editing' => editing)
  BY DEF StatusChanged
<1>2. busy' \subseteq busy  BY <1>1 DEF Released
<1>3. TypeOK'
  BY <1>1, <1>2, SameTypes DEF IInv, TypeOK, DocsOK, NetOK, CacheOK, PageOK, CountOK, Contents
<1>4. Underway' \subseteq Underway  BY <1>1 DEF Underway
<1>5. FormIsRight'
  BY <1>1, <1>4, SameTypes DEF IInv, FormIsRight, QuotationShown
<1> QED BY <1>1, <1>3, <1>5 DEF IInv, OwnForm, StoredDraft

LEMMA LoseKeeps == ASSUME IInv, Lose PROVE IInv'
<1>1. /\ docs' = docs /\ stored' = stored /\ at' = at /\ editing' = editing /\ carried' = carried
      /\ form' = form /\ filledFrom' = filledFrom /\ cache' = cache /\ fetch' = fetch
      /\ settling' = settling /\ typed' = typed /\ calls' = calls /\ events' = events + 1
  BY DEF Lose
<1>2. /\ busy' \subseteq busy /\ answers' \subseteq answers
      /\ \A d \in wire' : d \in wire \/ \E c \in wire : d = [c EXCEPT !.gone = TRUE]
  <2>1. CASE \E c \in {d \in wire : ~d.gone} :
               /\ wire' \in {wire \ {c}, (wire \ {c}) \cup {[c EXCEPT !.gone = TRUE]}}
               /\ busy' = Released(c)
               /\ UNCHANGED answers
    BY <2>1 DEF Released
  <2>2. CASE \E a \in answers : answers' = answers \ {a} /\ busy' = Released(a.call) /\ UNCHANGED wire
    BY <2>2 DEF Released
  <2> QED BY <2>1, <2>2 DEF Lose
<1>3. /\ wire' \subseteq ServerCall
      /\ \A d \in wire' : d.kind = "update" => d.filledFrom = d.doc \/ d.carried
      /\ \A d \in wire' : d.live /\ d.kind = "update" => at \in Known
  <2> SUFFICES ASSUME NEW d \in wire'
               PROVE  /\ d \in ServerCall
                      /\ d.kind = "update" => d.filledFrom = d.doc \/ d.carried
                      /\ d.live /\ d.kind = "update" => at \in Known
    OBVIOUS
  <2>1. \A c \in wire : /\ c \in ServerCall
                        /\ c.kind = "update" => c.filledFrom = c.doc \/ c.carried
                        /\ c.live /\ c.kind = "update" => at \in Known
    BY DEF IInv, TypeOK, NetOK, OwnForm, FormIsRight, Underway
  <2>2. CASE d \in wire  BY <2>1, <2>2
  <2>3. ASSUME NEW c \in wire, d = [c EXCEPT !.gone = TRUE]
        PROVE  /\ d \in ServerCall
               /\ d.kind = "update" => d.filledFrom = d.doc \/ d.carried
               /\ d.live /\ d.kind = "update" => at \in Known
    <3>1. c \in ServerCall /\ d \in ServerCall  BY <2>1, <2>3, OrphanIsACall
    <3>2. d.kind = c.kind /\ d.filledFrom = c.filledFrom /\ d.doc = c.doc /\ d.carried = c.carried /\ d.live = c.live
      BY <2>3, <3>1 DEF ServerCall, CallTo
    <3> QED BY <2>1, <3>1, <3>2
  <2> QED BY <1>2, <2>2, <2>3
<1>4. TypeOK'
  BY <1>1, <1>2, <1>3, SameTypes DEF IInv, TypeOK, DocsOK, NetOK, CacheOK, PageOK, CountOK, Contents
<1>5. \A c \in Underway' : c.live /\ c.kind = "update" => at \in Known
  BY <1>1, <1>2, <1>3 DEF Underway, IInv, FormIsRight
<1>6. FormIsRight'
  BY <1>1, <1>5, SameTypes DEF IInv, FormIsRight, QuotationShown
<1> QED BY <1>1, <1>3, <1>4, <1>6 DEF IInv, OwnForm, StoredDraft

-----------------------------------------------------------------------------
(* The inductive invariant *)

LEMMA InitIsRight == ASSUME Init PROVE IInv
<1>1. docs \in Seq(Rows) /\ Len(docs) <= MaxDocs
  <2>1. Draft("QUOTATION", Empty, FALSE) \in Rows /\ Draft("INVOICE", Empty, FALSE) \in Rows
    BY EmptyIsAContent DEF Draft, Rows, Statuses
  <2>2. \A row \in Rows : <<row>> \in Seq(Rows) /\ Len(<<row>>) = 1
    OBVIOUS
  <2>3. <<>> \in Seq(Rows) /\ Len(<<>>) = 0
    OBVIOUS
  <2>4. docs = <<>> \/ \E row \in Rows : docs = <<row>>
    BY <2>1 DEF Init
  <2>5. 0 <= MaxDocs /\ 1 <= MaxDocs
    BY BoundsAssumption
  <2> QED BY <2>2, <2>3, <2>4, <2>5
<1>2. TypeOK
  <2>1. DocsOK /\ NetOK /\ CacheOK  BY <1>1 DEF Init, DocsOK, NetOK, CacheOK
  <2>2. PageOK  BY EmptyIsAContent DEF Init, PageOK
  <2>3. CountOK  BY EmptyIsAContent, Marks DEF Init, CountOK
  <2> QED BY <2>1, <2>2, <2>3 DEF TypeOK
<1> QED BY <1>2, EmptyIsAContent, Marks DEF Init, IInv, FormIsRight, QuotationShown, Underway, OwnForm, StoredDraft

LEMMA StutterKeeps == ASSUME IInv, UNCHANGED vars PROVE IInv'
<1>1. TypeOK'
  BY SameTypes DEF IInv, TypeOK, DocsOK, NetOK, CacheOK, PageOK, CountOK, Contents, vars, net, page
<1>2. FormIsRight'
  BY SameTypes DEF IInv, FormIsRight, QuotationShown, Underway, vars, net, page
<1> QED BY <1>1, <1>2 DEF IInv, OwnForm, StoredDraft, vars, net, page

LEMMA NextKeeps == ASSUME IInv, [Next]_vars PROVE IInv'
<1>1. CASE \E c \in wire : Execute(c)  BY <1>1, ExecutePreserves
<1>2. CASE \E n \in Known : OtherWrites(n) \/ Refetch(n) \/ Read(n) \/ Arrive(n) \/ Jump(n)
  BY <1>2, OtherWritesKeeps, ReadsKeep, ArriveKeeps, JumpKeeps
<1>3. CASE \E p \in Known \cup {New} : Enter(p)  BY <1>3, EnterKeeps
<1>4. CASE Leave \/ Reload  BY <1>4, LeaveKeeps, ReloadKeeps
<1>5. CASE BeginEdit \/ Type \/ Save \/ CancelEditing
  BY <1>5, BeginEditKeeps, TypeKeeps, SaveKeeps, CancelEditingKeeps
<1>6. CASE QuotationAction \/ Convert \/ InvoiceAction \/ RequestInvoice  BY <1>6, ActionsKeep
<1>7. CASE \E a \in answers : Deliver(a) \/ Refused(a)  BY <1>7, DeliverKeeps, RefusedKeeps
<1>8. CASE \E a \in settling : Created(a) \/ Updated(a) \/ StatusChanged(a) \/ Opened(a)
  BY <1>8, CreatedKeeps, UpdatedKeeps, StatusChangedKeeps
<1>9. CASE Lose  BY <1>9, LoseKeeps
<1>10. CASE UNCHANGED vars  BY <1>10, StutterKeeps
<1> QED BY <1>1, <1>2, <1>3, <1>4, <1>5, <1>6, <1>7, <1>8, <1>9, <1>10 DEF Next

\* The invariant of the tab holds in every state, whatever the bounds.
THEOREM Invariant == Spec => []IInv
<1>1. Init => IInv  BY InitIsRight
<1>2. IInv /\ [Next]_vars => IInv'  BY NextKeeps
<1> QED BY <1>1, <1>2, PTL DEF Spec

(* The documents, the calls under way, the query cache, the page and the stored
   draft of the admin application keep their types. *)
THEOREM TypeCorrect == Spec => []TypeOK
<1>1. IInv => TypeOK  BY DEF IInv
<1> QED BY <1>1, Invariant, PTL

(* Saving updates the document the form was filled from: nothing typed about one
   invoice or quotation reaches another, except through the invoice form that was
   open when the route changed under it. *)
THEOREM FormsAreOwn == Spec => []OwnForm
<1>1. IInv => OwnForm  BY DEF IInv
<1> QED BY <1>1, Invariant, PTL

(* The lines on the creation page are those of sessionStorage, through every
   leaving, reload and return, and the storage never holds the contact. *)
THEOREM DraftsAreStored == Spec => []StoredDraft
<1>1. IInv => StoredDraft  BY DEF IInv
<1> QED BY <1>1, Invariant, PTL
=============================================================================
