------------------------ MODULE ProcurementDeskProofs ------------------------
(* What the pages of purchases promise for any number of rates, resources, offers,
   texts, calls and events.

   The proofs go from the records under way (Shapes) and their types (TypeInv) to one
   invariant for each promise: who awaits the save of a resource (OwnInv), why a page
   may be empty (EmptyInv), what an edit of a review knows (ReviewInv), and what a
   list of resources settles to (SettledInv). *)
EXTENDS ProcurementDesk, FiniteSetTheorems, WellFoundedInduction, TLAPS

-----------------------------------------------------------------------------
(* Records of the tab *)

\* A record is told by its fields.
Record(fields, c) == c = [f \in fields |-> c[f]]

IsMessage(c) ==
  Record({"kind", "item", "body", "new", "opening", "was", "stale", "before", "nth", "live", "gone"}, c)
IsDialog(d) == Record({"kind", "item", "body", "new", "opening", "was", "stale"}, d)
IsAnswer(a) == Record({"call", "ok", "done"}, a) /\ IsMessage(a.call)
IsBegun(b) == Record({"call", "item", "row"}, b) /\ IsMessage(b.call)

\* What is changed of a record leaves its other fields.
LEMMA StaleFields ==
  ASSUME NEW c, IsMessage(c)
  PROVE  LET d == [c EXCEPT !.stale = TRUE] IN
         IsMessage(d) /\ d.stale = TRUE /\ d.kind = c.kind /\ d.item = c.item /\ d.was = c.was
           /\ d.opening = c.opening /\ d.live = c.live /\ d.gone = c.gone
BY DEF IsMessage, Record

LEMMA LiveFields ==
  ASSUME NEW c, IsMessage(c)
  PROVE  LET d == [c EXCEPT !.live = FALSE] IN
         IsMessage(d) /\ d.live = FALSE /\ d.kind = c.kind /\ d.item = c.item /\ d.was = c.was
           /\ d.stale = c.stale
BY DEF IsMessage, Record

LEMMA GoneFields ==
  ASSUME NEW c, IsMessage(c)
  PROVE  LET d == [c EXCEPT !.gone = TRUE] IN
         IsMessage(d) /\ d.gone = TRUE /\ d.kind = c.kind /\ d.item = c.item /\ d.was = c.was
           /\ d.stale = c.stale
BY DEF IsMessage, Record

LEMMA RefreshFields ==
  ASSUME NEW c, IsMessage(c)
  PROVE  LET d == [c EXCEPT !.kind = "refresh", !.nth = calls] IN IsMessage(d) /\ d.kind = "refresh"
BY DEF IsMessage, Record

LEMMA BeforeFields ==
  ASSUME NEW c, IsMessage(c), NEW x
  PROVE  LET d == [c EXCEPT !.before = x] IN
         IsMessage(d) /\ d.kind = c.kind /\ d.live = c.live /\ d.gone = c.gone /\ d.opening = c.opening
BY DEF IsMessage, Record

LEMMA NewMessage ==
  ASSUME NEW kind, NEW i, NEW d
  PROVE  LET m == Message(kind, i, d) IN
         /\ IsMessage(m) /\ m.kind = kind /\ m.item = i /\ m.was = d.was /\ m.stale = d.stale
         /\ m.opening = d.opening /\ ~m.gone /\ m.live
BY DEF IsMessage, Record, Message

LEMMA NewAnswer ==
  ASSUME NEW c, NEW ok, NEW a \in Answer(c, ok), IsMessage(c)
  PROVE  IsAnswer(a) /\ a.call = c /\ ~c.gone /\ a = [call |-> c, ok |-> ok, done |-> FALSE]
BY DEF IsAnswer, Record, Answer

LEMMA AnswerFields ==
  ASSUME NEW a, IsAnswer(a)
  PROVE  /\ IsAnswer([a EXCEPT !.done = TRUE]) /\ [a EXCEPT !.done = TRUE].call = a.call
         /\ IsAnswer([a EXCEPT !.ok = FALSE]) /\ [a EXCEPT !.ok = FALSE].call = a.call
         /\ IsAnswer([a EXCEPT !.call.live = FALSE])
         /\ [a EXCEPT !.call.live = FALSE].call = [a.call EXCEPT !.live = FALSE]
BY LiveFields DEF IsAnswer, Record

LEMMA BegunFields ==
  ASSUME NEW b, IsBegun(b)
  PROVE  /\ IsBegun([b EXCEPT !.call.live = FALSE])
         /\ [b EXCEPT !.call.live = FALSE].call = [b.call EXCEPT !.live = FALSE]
BY LiveFields DEF IsBegun, Record

LEMMA DialogFields ==
  ASSUME NEW d, IsDialog(d), NEW body
  PROVE  /\ LET e == [d EXCEPT !.stale = TRUE] IN
            IsDialog(e) /\ e.stale = TRUE /\ e.kind = d.kind /\ e.item = d.item /\ e.was = d.was
              /\ e.opening = d.opening
         /\ LET e == [d EXCEPT !.body = body] IN
            IsDialog(e) /\ e.stale = d.stale /\ e.kind = d.kind /\ e.item = d.item /\ e.was = d.was
              /\ e.opening = d.opening
BY DEF IsDialog, Record

\* Everything under way is a record with the fields the tab gave it.
Shapes ==
  /\ page \in Pages
  /\ \A c \in wire : IsMessage(c)
  /\ \A b \in begun : IsBegun(b)
  /\ \A a \in answers : IsAnswer(a)
  /\ dialog # None => IsDialog(dialog)

LEMMA DesertedShapes ==
  ASSUME Shapes
  PROVE  /\ \A c \in Deserted(wire) : IsMessage(c)
         /\ \A b \in {[x EXCEPT !.call.live = FALSE] : x \in begun} : IsBegun(b)
         /\ \A a \in {[x EXCEPT !.call.live = FALSE] : x \in answers} : IsAnswer(a)
BY LiveFields, BegunFields, AnswerFields DEF Shapes, Deserted

LEMMA ServedShapes ==
  ASSUME NEW c \in wire, NEW ok, Shapes, Served(c, ok)
  PROVE  (\A x \in wire' : IsMessage(x)) /\ \A a \in answers' : IsAnswer(a)
BY NewAnswer DEF Shapes, Served

\* What the wire keeps of a call when a review changes.
Aged(c, o, known) == IF c.item = o /\ ~(known /\ Awaited(c)) THEN [c EXCEPT !.stale = TRUE] ELSE c

LEMMA OutdatedWire ==
  ASSUME NEW o, NEW known, NEW calling, Outdated(o, calling, known)
  PROVE  wire' = {Aged(c, o, known) : c \in calling}
BY DEF Outdated, Aged

LEMMA OutdatedShapes ==
  ASSUME NEW o, NEW known, NEW calling, \A c \in calling : IsMessage(c), dialog # None => IsDialog(dialog),
         Outdated(o, calling, known)
  PROVE  (\A c \in wire' : IsMessage(c)) /\ (dialog' # None => IsDialog(dialog'))
BY StaleFields, DialogFields DEF Outdated

LEMMA PlainShapes ==
  ASSUME NEW kind, NEW i, NEW body, Shapes, Plain(kind, i, body)
  PROVE  \A c \in wire' : IsMessage(c)
<1>1. IsMessage(Message(kind, i, [body |-> body, new |-> FALSE, opening |-> calls, was |-> body.status, stale |-> FALSE]))
  BY NewMessage
<1>2. QED BY <1>1 DEF Shapes, Plain, Call

LEMMA StatusCall ==
  ASSUME NEW r, ChangeStatus(r)
  PROVE  \E c : IsMessage(c) /\ c.kind = "status" /\ wire' = wire \cup {c}
<1> DEFINE d == [body |-> [Blank EXCEPT !.status = Opposite(shown.items[r].active)],
                 new |-> FALSE, opening |-> calls, was |-> "NEW", stale |-> FALSE]
           n == Message("status", r, d)
           m == [n EXCEPT !.before = [view |-> view, list |-> shown]]
<1>1. wire' = wire \cup {m}
  BY DEF ChangeStatus, Call
<1>2. IsMessage(n) /\ n.kind = "status"
  BY NewMessage
<1> HIDE DEF n
<1>3. IsMessage(m) /\ m.kind = "status"
  BY <1>2, BeforeFields
<1>4. QED BY <1>1, <1>3

LEMMA StepShapes ==
  ASSUME Shapes, Next
  PROVE  Shapes'
<1>1. CASE Reading
  BY <1>1 DEF Shapes, Reading, Pages, server, net, tab
<1>2. CASE Arrive
  BY <1>2 DEF Shapes, Arrive, Pages, server, net
<1>3. CASE ReadFails
  BY <1>3 DEF Shapes, ReadFails, Pages, server, net, tab
<1>4. CASE Retry
  BY <1>4 DEF Shapes, Retry, Pages, server, net, tab
<1>5. CASE Leave
  BY <1>5, DesertedShapes DEF Shapes, Leave, Pages
<1>6. CASE Return
  BY <1>6 DEF Shapes, Return, Pages, server, net
<1>7. ASSUME NEW v, Turn(v) PROVE Shapes'
  BY <1>7 DEF Shapes, Turn, Pages, server, net, tab
<1>7a. CASE Debounce \/ \E t : Search(t)
  BY <1>7a DEF Shapes, Search, Debounce, Pages, server, net, tab
<1>8. ASSUME NEW kind, NEW i, Open(kind, i) PROVE Shapes'
  BY <1>8 DEF Shapes, Open, Pages, server, net, IsDialog, Record
<1>9. ASSUME dialog # None, NEW body, Type(body) PROVE Shapes'
  BY <1>9, DialogFields DEF Shapes, Type, Pages, server, net
<1>10. CASE Close
  BY <1>10 DEF Shapes, Close, Pages, server, net
<1>11. CASE Submit
  BY <1>11, NewMessage DEF Shapes, Submit, Call, Pages, server
<1>12. ASSUME NEW t, DeleteRate(t) PROVE Shapes'
  BY <1>12, PlainShapes DEF Shapes, DeleteRate, Pages, server, tab
<1>13. ASSUME NEW o, Select(o) PROVE Shapes'
  BY <1>13 DEF Shapes, Select, Pages, server, net
<1>14. ASSUME NEW o, DeleteOffer(o) PROVE Shapes'
  BY <1>14, PlainShapes DEF Shapes, DeleteOffer, Pages, server, tab
<1>15. ASSUME NEW o, NEW s, Patch(o, s) PROVE Shapes'
  BY <1>15, PlainShapes DEF Shapes, Patch, Pages, server, tab
<1>16. ASSUME NEW r, ChangeStatus(r) PROVE Shapes'
  BY <1>16, StatusCall DEF Shapes, ChangeStatus, Pages, server, tab
<1>17. ASSUME NEW c \in wire, SaveRate(c) PROVE Shapes'
  BY <1>17, ServedShapes DEF Shapes, SaveRate, Pages, tab
<1>18. ASSUME NEW c \in wire, Begin(c) PROVE Shapes'
  BY <1>18 DEF Shapes, Begin, Pages, tab, IsBegun, Record
<1>19. ASSUME NEW c \in wire, Associate(c) PROVE Shapes'
  BY <1>19, ServedShapes DEF Shapes, Associate, Pages, tab
<1>20. ASSUME NEW c \in wire, SaveReview(c) PROVE Shapes'
  <2>1. PICK known : Outdated(c.item, wire \ {c}, known)
    BY <1>20 DEF SaveReview
  <2>2. (\A x \in wire' : IsMessage(x)) /\ (dialog' # None => IsDialog(dialog'))
    BY <2>1, OutdatedShapes DEF Shapes
  <2>3. UNCHANGED <<page, begun>> /\ answers' = answers \cup Answer(c, reviews[c.item] # None)
    BY <1>20 DEF SaveReview
  <2>4. QED BY <2>2, <2>3, NewAnswer DEF Shapes, Pages
<1>21. ASSUME NEW c \in wire, DeleteReview(c) PROVE Shapes'
  <2>1. Outdated(c.item, wire \ {c}, FALSE)
    BY <1>21 DEF DeleteReview
  <2>2. (\A x \in wire' : IsMessage(x)) /\ (dialog' # None => IsDialog(dialog'))
    BY <2>1, OutdatedShapes DEF Shapes
  <2>3. UNCHANGED <<page, begun>> /\ answers' = answers \cup Answer(c, reviews[c.item] # None)
    BY <1>21 DEF DeleteReview
  <2>4. QED BY <2>2, <2>3, NewAnswer DEF Shapes, Pages
<1>22. ASSUME NEW c \in wire, CreateTask(c) PROVE Shapes'
  BY <1>22, ServedShapes DEF Shapes, CreateTask, Pages, server, tab
<1>23. ASSUME NEW b \in begun, Commit(b) PROVE Shapes'
  BY <1>23, NewAnswer DEF Shapes, Commit, Pages, tab, IsBegun
<1>24. CASE Other
  <2>1. ASSUME NEW t, OtherRates(t) PROVE Shapes'
    BY <1>24, <2>1 DEF Shapes, Other, OtherRates, Pages, net
  <2>2. ASSUME NEW r, OtherMaterials(r) PROVE Shapes'
    BY <1>24, <2>2 DEF Shapes, Other, OtherMaterials, Pages, net
  <2>3. ASSUME NEW o, OtherSupply(o) PROVE Shapes'
    BY <1>24, <2>3 DEF Shapes, Other, OtherSupply, Pages, net
  <2>4. ASSUME NEW o, OtherReviews(o) PROVE Shapes'
    BY <1>24, <2>4, OutdatedShapes DEF Shapes, Other, OtherReviews, Pages
  <2>5. QED BY <1>24, <2>1, <2>2, <2>3, <2>4 DEF Other
<1>25. CASE Lose
  <2>1. ASSUME NEW c \in wire,
               wire' \in {wire \ {c}, (wire \ {c}) \cup {[c EXCEPT !.gone = TRUE]}},
               answers' = answers \cup {[call |-> c, ok |-> FALSE, done |-> FALSE]}
        PROVE  Shapes'
    BY <1>25, <2>1, GoneFields DEF Shapes, Lose, Pages, server, tab, IsAnswer, Record
  <2>2. ASSUME NEW a \in answers, answers' = (answers \ {a}) \cup {[a EXCEPT !.ok = FALSE]}, UNCHANGED wire
        PROVE  Shapes'
    BY <1>25, <2>2, AnswerFields DEF Shapes, Lose, Pages, server, tab
  <2>3. QED BY <1>25, <2>1, <2>2 DEF Lose
<1>26. ASSUME NEW a \in answers, Succeeded(a) \/ Refused(a) PROVE Shapes'
  BY <1>26, AnswerFields DEF Shapes, Succeeded, Refused, Over, Pages,
     server, tab
<1>27. ASSUME NEW a \in answers, Finish(a) PROVE Shapes'
  BY <1>27, RefreshFields DEF Shapes, Finish, Call, Pages, server, IsAnswer
<1>28. QED
  BY <1>1, <1>2, <1>3, <1>4, <1>5, <1>6, <1>7, <1>7a, <1>8, <1>9, <1>10, <1>11, <1>12, <1>13, <1>14, <1>15, <1>16, <1>17,
     <1>18, <1>19, <1>20, <1>21, <1>22, <1>23, <1>24, <1>25, <1>26, <1>27 DEF Next

-----------------------------------------------------------------------------
(* Types *)

Views == [status : {"ALL", "NEW", "ACTIVE", "AVAILABLE"}, search : {None} \cup Nat, term : {None} \cup Nat, nth : Nat]

\* A resource that is there stays there.
Existing(r) == r \in Materials /\ materials[r] # None

IsList(l) ==
  /\ Record({"items", "total"}, l) /\ l.total \in Nat
  /\ l.items = [i \in DOMAIN l.items |-> l.items[i]]
  /\ \A i \in DOMAIN l.items :
       /\ page = Rates => i \in Types /\ l.items[i] \in Nat
       /\ page = Resources => Existing(i) /\ l.items[i] \in MaterialRows
       /\ page = Supply => i \in Offers /\ l.items[i] \in Materials
       /\ page = Review => i \in Offers /\ l.items[i] \in ReviewRows

\* A change of a resource that is there says which.
Aimed(c) == c.kind \in {"resource", "status"} /\ ~c.new => Existing(c.item)

Typed(c) ==
  /\ c.body \in Forms /\ c.new \in BOOLEAN /\ c.opening \in Nat /\ c.was \in Statuses
  /\ c.stale \in BOOLEAN /\ c.nth \in Nat /\ c.live \in BOOLEAN /\ c.gone \in BOOLEAN
  /\ Aimed(c)
  /\ c.kind = "status" => IsList(c.before.list)

RowTypes ==
  /\ rates \in [Types -> {None} \cup Nat]
  /\ materials \in [Materials -> {None} \cup MaterialRows]
  /\ supply \in [Offers -> {None} \cup Materials]
  /\ withdrawn \subseteq Offers
  /\ reviews \in [Offers -> {None} \cup ReviewRows]

ListTypes ==
  /\ view \in Views
  /\ shown # None => IsList(shown)
  /\ fetch \notin {None, Asked} => IsList(fetch)
  /\ failed \in BOOLEAN

DialogTypes == dialog # None => dialog \in Dialogs /\ Aimed(dialog)

CallTypes ==
  /\ \A c \in wire : Typed(c)
  /\ \A b \in begun : Typed(b.call) /\ b.item \in Materials /\ b.row \in MaterialRows
  /\ \A a \in answers : Typed(a.call) /\ a.ok \in BOOLEAN /\ a.done \in BOOLEAN

NoteTypes ==
  /\ chosen \in [Materials -> {None} \cup BOOLEAN]
  /\ unsettled \subseteq Materials /\ undone \in BOOLEAN /\ searched \in BOOLEAN /\ thinned \in BOOLEAN
  /\ here \in BOOLEAN /\ left \in Nat
  /\ typed \in Nat /\ calls \in Nat /\ events \in Nat

TypeInv == Shapes /\ RowTypes /\ ListTypes /\ DialogTypes /\ CallTypes /\ NoteTypes

\* What is known of lists, calls and dialogs outlives the changes of resources.
Growing == (\A r \in Materials : materials[r] # None => materials'[r] # None) /\ page' = page

LEMMA ListStays ==
  ASSUME NEW l, IsList(l), Growing
  PROVE  IsList(l)'
BY DEF IsList, Growing, Existing

LEMMA TypedStays ==
  ASSUME NEW c, Typed(c), Growing
  PROVE  Typed(c)'
BY ListStays DEF Typed, Aimed, Growing, Existing

LEMMA TypedStale ==
  ASSUME NEW c, IsMessage(c), Typed(c)
  PROVE  Typed([c EXCEPT !.stale = TRUE]) /\ Typed([c EXCEPT !.live = FALSE]) /\ Typed([c EXCEPT !.gone = TRUE])
BY DEF IsMessage, Record, Typed, Aimed

LEMMA TypedRefresh ==
  ASSUME NEW c, IsMessage(c), Typed(c), calls \in Nat
  PROVE  Typed([c EXCEPT !.kind = "refresh", !.nth = calls])
BY DEF IsMessage, Record, Typed, Aimed

LEMMA TypedMessage ==
  ASSUME NEW kind, NEW i, NEW d, d.body \in Forms, d.new \in BOOLEAN, d.opening \in Nat, d.was \in Statuses,
         d.stale \in BOOLEAN, calls \in Nat, kind \in {"resource", "status"} /\ ~d.new => Existing(i)
  PROVE  LET m == Message(kind, i, d) IN
         (kind # "status" => Typed(m)) /\ \A x : IsList(x.list) => Typed([m EXCEPT !.before = x])
BY DEF Typed, Aimed, Message

LEMMA TypedPlain ==
  ASSUME NEW kind, kind \notin {"resource", "status"}, NEW i, NEW body \in Forms, calls \in Nat, Plain(kind, i, body),
         \A c \in wire : Typed(c)
  PROVE  calls' \in Nat /\ \A c \in wire' : Typed(c)
<1> DEFINE d == [body |-> body, new |-> FALSE, opening |-> calls, was |-> body.status, stale |-> FALSE]
           m == Message(kind, i, d)
<1>1. body.status \in Statuses
  BY DEF Forms
<1>2. d.body \in Forms /\ d.new \in BOOLEAN /\ d.opening \in Nat /\ d.was \in Statuses /\ d.stale \in BOOLEAN
  BY <1>1
<1> HIDE DEF d
<1>3. Typed(m)
  BY <1>2, TypedMessage
<1>4. wire' = wire \cup {m} /\ calls' = calls + 1
  BY DEF Plain, Call, d
<1> HIDE DEF m
<1>5. QED BY <1>3, <1>4

LEMMA BlankForm == Blank \in Forms /\ \A s \in Statuses : [Blank EXCEPT !.status = s] \in Forms
BY DEF Blank, Form, Forms, Statuses

LEMMA OffersCount ==
  ASSUME NEW set \in SUBSET Offers
  PROVE  IsFiniteSet(set) /\ Cardinality(set) \in Nat
<1>1. IsFiniteSet(Offers)
  BY FS_Interval, BoundsAssumption DEF Offers
<1>2. IsFiniteSet(set)
  BY <1>1, FS_Subset
<1>3. QED BY <1>2, FS_CardinalityType

LEMMA ReadTypes ==
  ASSUME TypeInv
  PROVE  IsList(Read)
<1>1. CASE page = Rates
  <2>1. Read = ListRates
    BY <1>1, PagesAssumption DEF Read
  <2>2. QED BY <1>1, <2>1, PagesAssumption DEF ListRates, Whole, IsList, Record, TypeInv, RowTypes
<1>2. CASE page = Resources
  <2>1. Read = ListResources
    BY <1>2, PagesAssumption DEF Read
  <2>2. QED BY <1>2, <2>1, PagesAssumption DEF ListResources, Whole, IsList, Record, TypeInv, RowTypes, Existing
<1>3. CASE page = Supply
  <2>1. Read = ListSupply
    BY <1>3, PagesAssumption DEF Read
  <2> DEFINE all == {o \in Offers : supply[o] # None /\ (view.status = "ALL" \/ o \notin withdrawn) /\ view.term \in {None, o}}
  <2>2. Cardinality(all) \in Nat
    BY OffersCount
  <2>3. Nth(all, view.nth) \subseteq all
    BY DEF Nth
  <2>4. ListSupply = [items |-> [o \in Nth(all, view.nth) |-> supply[o]], total |-> Cardinality(all)]
    BY DEF ListSupply
  <2>5. \A o \in all : o \in Offers /\ supply[o] \in Materials
    BY DEF TypeInv, RowTypes
  <2> HIDE DEF all
  <2>6. QED BY <1>3, <2>1, <2>2, <2>3, <2>4, <2>5, PagesAssumption DEF IsList, Record
<1>4. CASE page = Review
  <2>1. Read = ListOffers
    BY <1>4, PagesAssumption DEF Read
  <2>2. Cardinality(Matching) \in Nat
    BY OffersCount DEF Matching
  <2>3. Nth(Matching, view.nth) \subseteq Matching
    BY DEF Nth
  <2>4. \A o \in Matching : o \in Offers /\ reviews[o] \in ReviewRows
    BY DEF TypeInv, RowTypes, Matching
  <2>5. QED BY <1>4, <2>1, <2>2, <2>3, <2>4, PagesAssumption DEF ListOffers, IsList, Record
<1>5. QED BY <1>1, <1>2, <1>3, <1>4 DEF TypeInv, Shapes, Pages

\* What a dialog begins with
LEMMA FillTypes ==
  ASSUME TypeInv, NEW kind \in Kinds, NEW i \in Items, Offered(kind, i)
  PROVE  /\ Fill(kind, i) \in Forms
         /\ kind = "resource" => i = None \/ Existing(i)
         /\ i \in Types \cup Materials \cup Offers \cup {None}
<1>1. i \in Types \cup Materials \cup Offers \cup {None}
  BY DEF Items, TypeInv, Shapes, Pages
<1>2. CASE page = Rates
  <2>1. kind = "rate"
    BY <1>2, PagesAssumption DEF Kinds
  <2>2. ShownRate(i) = None \/ ShownRate(i) \in Nat
    BY <1>2 DEF ShownRate, Row, TypeInv, ListTypes, IsList
  <2>3. Fill(kind, i) \in Forms
    BY <2>1, <2>2 DEF Fill, Blank, Form, Forms, Statuses
  <2>4. QED BY <1>1, <2>1, <2>3
<1>3. CASE page = Resources
  <2>1. kind = "resource"
    BY <1>3, PagesAssumption DEF Kinds
  <2>2. i = None \/ (Existing(i) /\ shown.items[i] \in MaterialRows)
    BY <1>3, PagesAssumption DEF Offered, ResourceButtons, Visible, Row, TypeInv, ListTypes, IsList
  <2>3. Fill(kind, i) \in Forms
    BY <2>1, <2>2 DEF Fill, Blank, Form, Forms, Statuses, MaterialRows
  <2>4. QED BY <1>1, <2>1, <2>2, <2>3
<1>4. CASE page = Supply
  <2>1. kind \in {"manual", "associate"}
    BY <1>4, PagesAssumption DEF Kinds
  <2>2. QED BY <1>1, <2>1, BlankForm DEF Fill
<1>5. CASE page = Review
  <2>1. kind \in {"retrieve", "edit"}
    BY <1>5, PagesAssumption DEF Kinds
  <2>2. CASE kind = "retrieve"
    BY <1>1, <2>2 DEF Fill, Blank, Form, Forms, Statuses, TypeInv, NoteTypes
  <2>3. CASE kind = "edit"
    <3>1. shown.items[i] \in ReviewRows
      BY <1>5, <2>3, PagesAssumption DEF Offered, ReviewButtons, Row, TypeInv, ListTypes, IsList
    <3>2. QED BY <1>1, <2>3, <3>1 DEF Fill, Form, Forms, ReviewRows
  <2>4. QED BY <2>1, <2>2, <2>3
<1>6. QED BY <1>2, <1>3, <1>4, <1>5 DEF TypeInv, Shapes, Pages

LEMMA ChangeTypes ==
  ASSUME TypeInv, dialog # None, NEW body \in Change(dialog)
  PROVE  body \in Forms
<1>1. dialog.body \in Forms /\ typed + 1 \in Nat
  BY DEF TypeInv, DialogTypes, Dialogs, NoteTypes
<1>2. \A b \in Texts(dialog) : b \in Forms
  BY <1>1 DEF Texts, Forms
<1>3. \A b \in Found(dialog) : b \in Forms
  BY <1>1 DEF Found, Active, Forms
<1>4. \A b \in ReviewFields(dialog) : b \in Forms
  BY <1>1, <1>2 DEF ReviewFields, Forms
<1>5. QED BY <1>2, <1>3, <1>4 DEF Change, RateFields, ResourceFields, ManualFields, AssociateFields, RetrieveFields

\* What a step has to show, told of the rows before it
Listing ==
  /\ view' \in Views
  /\ shown' # None => IsList(shown')
  /\ fetch' \notin {None, Asked} => IsList(fetch')
  /\ failed' \in BOOLEAN
Dialoging == dialog' # None => dialog' \in Dialogs /\ Aimed(dialog')
Calling ==
  /\ \A c \in wire' : Typed(c)
  /\ \A b \in begun' : Typed(b.call) /\ b.item \in Materials /\ b.row \in MaterialRows
  /\ \A a \in answers' : Typed(a.call) /\ a.ok \in BOOLEAN /\ a.done \in BOOLEAN

LEMMA TypesCarry ==
  ASSUME Shapes', RowTypes', Growing, Listing, Dialoging, Calling, NoteTypes'
  PROVE  TypeInv'
<1>1. ListTypes'
  BY ListStays DEF Listing, ListTypes, Views
<1>2. DialogTypes'
  BY DEF Dialoging, DialogTypes, Aimed, Growing, Existing, Dialogs, Offers, Forms
<1>3. CallTypes'
  BY TypedStays DEF Calling, CallTypes, MaterialRows
<1>4. QED BY <1>1, <1>2, <1>3 DEF TypeInv

LEMMA RowsStand ==
  ASSUME TypeInv, UNCHANGED <<rates, materials, supply, withdrawn, reviews, page>>
  PROVE  RowTypes' /\ Growing
BY DEF TypeInv, RowTypes, Growing, Offers, ReviewRows, MaterialRows

LEMMA ListStands == ASSUME TypeInv, UNCHANGED list PROVE Listing
BY DEF TypeInv, ListTypes, Listing, list

LEMMA DialogStands == ASSUME TypeInv, dialog' \in {dialog, None} PROVE Dialoging
BY DEF TypeInv, DialogTypes, Dialoging

LEMMA CallsStand == ASSUME TypeInv, UNCHANGED <<net, begun>> PROVE Calling
BY DEF TypeInv, CallTypes, Calling, net

LEMMA NotesStand ==
  ASSUME TypeInv, UNCHANGED <<chosen, unsettled, undone>>, searched' \in BOOLEAN, thinned' \in BOOLEAN,
         here' \in BOOLEAN, left' \in Nat, typed' \in Nat, calls' \in Nat, events' \in Nat
  PROVE  NoteTypes'
BY DEF TypeInv, NoteTypes

LEMMA CountsStand ==
  ASSUME TypeInv
  PROVE  /\ here \in BOOLEAN /\ left \in Nat /\ typed \in Nat /\ calls \in Nat /\ events \in Nat
         /\ typed + 1 \in Nat /\ calls + 1 \in Nat /\ events + 1 \in Nat
         /\ searched \in BOOLEAN /\ thinned \in BOOLEAN
BY DEF TypeInv, NoteTypes

LEMMA AnswersTyped ==
  ASSUME TypeInv, NEW c, Typed(c), NEW ok \in BOOLEAN, answers' = answers \cup Answer(c, ok)
  PROVE  \A a \in answers' : Typed(a.call) /\ a.ok \in BOOLEAN /\ a.done \in BOOLEAN
<1>1. \A a \in Answer(c, ok) : a.call = c /\ a.ok = ok /\ a.done = FALSE
  BY DEF Answer
<1>2. TAKE a \in answers'
<1>3. CASE a \in answers
  BY <1>3 DEF TypeInv, CallTypes
<1>4. CASE a \in Answer(c, ok)
  BY <1>1, <1>4
<1>5. QED BY <1>3, <1>4

LEMMA ServedTypes ==
  ASSUME TypeInv, NEW c \in wire, NEW ok \in BOOLEAN, Served(c, ok), begun' = begun
  PROVE  Calling
<1>1. \A a \in answers' : Typed(a.call) /\ a.ok \in BOOLEAN /\ a.done \in BOOLEAN
  BY AnswersTyped DEF Served, TypeInv, CallTypes
<1>2. QED BY <1>1 DEF TypeInv, CallTypes, Calling, Served

LEMMA AnsweredTypes ==
  ASSUME TypeInv, NEW o, NEW known, NEW calling \in SUBSET wire, Outdated(o, calling, known), begun' = begun,
         \A a \in answers' : Typed(a.call) /\ a.ok \in BOOLEAN /\ a.done \in BOOLEAN
  PROVE  Calling /\ Dialoging
<1>1. \A c \in wire' : Typed(c)
  <2>1. TAKE c \in wire'
  <2>2. PICK x \in wire : c = x \/ c = [x EXCEPT !.stale = TRUE]
    BY DEF Outdated
  <2>3. IsMessage(x) /\ Typed(x)
    BY DEF TypeInv, Shapes, CallTypes
  <2>4. QED BY <2>2, <2>3, TypedStale
<1>2. Dialoging
  <2>1. CASE dialog # None /\ dialog.item = o /\ ~known
    <3>1. dialog' = [dialog EXCEPT !.stale = TRUE] /\ dialog \in Dialogs /\ Aimed(dialog)
      BY <2>1 DEF Outdated, TypeInv, DialogTypes
    <3>2. dialog' \in Dialogs
      BY <3>1 DEF Dialogs
    <3>3. Aimed(dialog')
      BY <3>1 DEF Dialogs, Aimed
    <3>4. QED BY <3>2, <3>3 DEF Dialoging
  <2>2. CASE ~(dialog # None /\ dialog.item = o /\ ~known)
    BY <2>2, DialogStands DEF Outdated
  <2>3. QED BY <2>1, <2>2
<1>3. QED BY <1>1, <1>2 DEF Calling, TypeInv, CallTypes

LEMMA DesertedTypes ==
  ASSUME TypeInv, wire' = Deserted(wire), begun' = {[b EXCEPT !.call.live = FALSE] : b \in begun},
         answers' = {[a EXCEPT !.call.live = FALSE] : a \in answers}
  PROVE  Calling
<1>1. \A c \in wire' : Typed(c)
  BY TypedStale DEF Deserted, TypeInv, Shapes, CallTypes
<1>2. ASSUME NEW b \in begun' PROVE Typed(b.call) /\ b.item \in Materials /\ b.row \in MaterialRows
  <2>1. PICK x \in begun : b = [x EXCEPT !.call.live = FALSE]
    BY <1>2
  <2>2. IsBegun(x) /\ Typed(x.call) /\ x.item \in Materials /\ x.row \in MaterialRows
    BY DEF TypeInv, Shapes, CallTypes
  <2>3. b.call = [x.call EXCEPT !.live = FALSE] /\ b.item = x.item /\ b.row = x.row
    BY <2>1, <2>2 DEF IsBegun, Record
  <2>4. QED BY <2>2, <2>3, TypedStale DEF IsBegun
<1>3. ASSUME NEW a \in answers' PROVE Typed(a.call) /\ a.ok \in BOOLEAN /\ a.done \in BOOLEAN
  <2>1. PICK x \in answers : a = [x EXCEPT !.call.live = FALSE]
    BY <1>3
  <2>2. IsAnswer(x) /\ Typed(x.call) /\ x.ok \in BOOLEAN /\ x.done \in BOOLEAN
    BY DEF TypeInv, Shapes, CallTypes
  <2>3. a.call = [x.call EXCEPT !.live = FALSE] /\ a.ok = x.ok /\ a.done = x.done
    BY <2>1, <2>2 DEF IsAnswer, Record
  <2>4. QED BY <2>2, <2>3, TypedStale DEF IsAnswer
<1>4. QED BY <1>1, <1>2, <1>3 DEF Calling

LEMMA StepTypes ==
  ASSUME TypeInv, Shapes', Next
  PROVE  TypeInv'
<1>0. /\ here \in BOOLEAN /\ left \in Nat /\ typed \in Nat /\ calls \in Nat /\ events \in Nat
      /\ typed + 1 \in Nat /\ calls + 1 \in Nat /\ events + 1 \in Nat
      /\ searched \in BOOLEAN /\ thinned \in BOOLEAN
  BY CountsStand
<1>1. CASE Reading
  <2>1. Listing
    BY <1>1, ReadTypes DEF Reading, Listing, TypeInv, ListTypes
  <2>2. RowTypes' /\ Growing
    BY <1>1, RowsStand DEF Reading, server, tab
  <2>3. Dialoging /\ Calling
    BY <1>1, DialogStands, CallsStand DEF Reading, tab, server
  <2>4. NoteTypes'
    BY <1>0, <1>1, NotesStand DEF Reading, tab, notes, count
  <2>5. QED BY <2>1, <2>2, <2>3, <2>4, TypesCarry
<1>2. CASE Arrive
  <2>1. IsList(fetch) /\ view \in Views
    BY <1>2 DEF Arrive, TypeInv, ListTypes
  <2>2. Listing
    <3>1. fetch.total \in Nat
      BY <2>1 DEF IsList
    <3>2. view' \in Views
      BY <1>2, <2>1, <3>1 DEF Arrive, Views
    <3>3. fetch' \in {None, Asked} /\ shown' \in {fetch, None} /\ failed' = FALSE
      BY <1>2 DEF Arrive
    <3>4. QED BY <2>1, <3>2, <3>3 DEF Listing
  <2>3. RowTypes' /\ Growing
    BY <1>2, RowsStand DEF Arrive, server
  <2>4. Dialoging /\ Calling
    BY <1>2, DialogStands, CallsStand DEF Arrive, server
  <2>5. NoteTypes'
    BY <1>0, <1>2, NotesStand DEF Arrive, notes, count
  <2>6. QED BY <2>2, <2>3, <2>4, <2>5, TypesCarry
<1>3. CASE ReadFails
  <2>1. Listing
    BY <1>3 DEF ReadFails, Listing, TypeInv, ListTypes
  <2>2. RowTypes' /\ Growing
    BY <1>3, RowsStand DEF ReadFails, server, tab
  <2>3. Dialoging /\ Calling
    BY <1>3, DialogStands, CallsStand DEF ReadFails, tab, server
  <2>4. NoteTypes'
    BY <1>0, <1>3, NotesStand DEF ReadFails, tab, notes
  <2>5. QED BY <2>1, <2>2, <2>3, <2>4, TypesCarry
<1>4. CASE Retry
  <2>1. Listing
    BY <1>4 DEF Retry, Listing, TypeInv, ListTypes
  <2>2. RowTypes' /\ Growing
    BY <1>4, RowsStand DEF Retry, server, tab
  <2>3. Dialoging /\ Calling
    BY <1>4, DialogStands, CallsStand DEF Retry, tab, server
  <2>4. NoteTypes'
    BY <1>0, <1>4, NotesStand DEF Retry, tab, notes, count
  <2>5. QED BY <2>1, <2>2, <2>3, <2>4, TypesCarry
<1>5. CASE Leave
  <2>1. Listing
    BY <1>5, ListStands DEF Leave
  <2>2. RowTypes' /\ Growing
    BY <1>5, RowsStand DEF Leave
  <2>3. Dialoging /\ Calling
    BY <1>5, DialogStands, DesertedTypes DEF Leave
  <2>4. NoteTypes'
    BY <1>0, <1>5, NotesStand DEF Leave, notes
  <2>5. QED BY <2>1, <2>2, <2>3, <2>4, TypesCarry
<1>6. CASE Return
  <2>1. First \in Views
    BY DEF First, View, Views
  <2>2. Listing
    BY <1>6, <2>1 DEF Return, Listing, TypeInv, ListTypes
  <2>3. RowTypes' /\ Growing
    BY <1>6, RowsStand DEF Return, server
  <2>4. Dialoging /\ Calling
    BY <1>6, DialogStands, CallsStand DEF Return, server
  <2>5. NoteTypes'
    BY <1>0, <1>6, NotesStand DEF Return, notes, count
  <2>6. QED BY <2>2, <2>3, <2>4, <2>5, TypesCarry
<1>7. ASSUME NEW s \in StatusFilters, NEW t \in TermFilters(s), NEW n \in Offers, Turn([view EXCEPT !.status = s, !.term = t, !.nth = n])
      PROVE  TypeInv'
  <2> DEFINE v == [view EXCEPT !.status = s, !.term = t, !.nth = n]
  <2>1. v \in Views
    <3>1. view \in Views
      BY DEF TypeInv, ListTypes
    <3>2. s \in {"ALL", "NEW", "ACTIVE", "AVAILABLE"} /\ t \in {None} \cup Nat /\ n \in Nat
      BY <3>1, BoundsAssumption DEF Views, StatusFilters, ReviewFilters, ResourceFilters, SupplyFilters, TermFilters, Offers, TypeInv, Shapes, Pages
    <3>3. QED BY <3>1, <3>2 DEF Views
  <2>2. Listing
    BY <1>7, <2>1 DEF Turn, Listing, TypeInv, ListTypes
  <2>3. RowTypes' /\ Growing
    BY <1>7, RowsStand DEF Turn, server, tab
  <2>4. Dialoging /\ Calling
    BY <1>7, DialogStands, CallsStand DEF Turn, tab, server
  <2>5. NoteTypes'
    BY <1>0, <1>7, NotesStand DEF Turn, tab, notes, count
  <2>6. QED BY <2>2, <2>3, <2>4, <2>5, TypesCarry
<1>7a. CASE Debounce \/ \E t \in {None, 1} : Search(t)
  <2>1. view' \in Views
    <3>1. view \in Views
      BY DEF TypeInv, ListTypes
    <3>2. CASE Debounce
      BY <3>1, <3>2 DEF Debounce, Views
    <3>3. ASSUME NEW t \in {None, 1}, Search(t) PROVE view' \in Views
      <4>1. view' = [view EXCEPT !.search = t, !.nth = 1] /\ t \in {None} \cup Nat
        BY <3>3 DEF Search
      <4>2. QED BY <3>1, <4>1 DEF Views
    <3>4. QED BY <1>7a, <3>2, <3>3
  <2>2. Listing
    BY <1>7a, <2>1 DEF Search, Debounce, Listing, TypeInv, ListTypes
  <2>3. RowTypes' /\ Growing
    BY <1>7a, RowsStand DEF Search, Debounce, server, tab
  <2>4. Dialoging /\ Calling
    BY <1>7a, DialogStands, CallsStand DEF Search, Debounce, tab, server
  <2>5. NoteTypes'
    BY <1>0, <1>7a, NotesStand DEF Search, Debounce, tab, notes, count
  <2>6. QED BY <2>2, <2>3, <2>4, <2>5, TypesCarry
<1>8. ASSUME NEW kind \in Kinds, NEW i \in Items, Open(kind, i) PROVE TypeInv'
  <2>1. Fill(kind, i) \in Forms /\ (kind = "resource" => i = None \/ Existing(i)) /\ i \in Types \cup Materials \cup Offers \cup {None}
    BY <1>8, FillTypes DEF Open
  <2>2. kind \in {"rate", "resource", "manual", "associate", "retrieve", "edit"} /\ kind # "status"
    BY DEF Kinds, TypeInv, Shapes, Pages
  <2>3. Fill(kind, i).status \in Statuses
    BY <2>1 DEF Forms
  <2>4. Dialoging
    BY <1>0, <1>8, <2>1, <2>2, <2>3 DEF Open, Dialoging, Dialogs, Aimed
  <2>5. Listing /\ Calling
    BY <1>8, ListStands, CallsStand DEF Open, server
  <2>6. RowTypes' /\ Growing
    BY <1>8, RowsStand DEF Open, server
  <2>7. NoteTypes'
    BY <1>0, <1>8, NotesStand DEF Open, notes, count
  <2>8. QED BY <2>4, <2>5, <2>6, <2>7, TypesCarry
<1>9. ASSUME dialog # None, NEW body \in Change(dialog), Type(body) PROVE TypeInv'
  <2>1. dialog \in Dialogs /\ Aimed(dialog) /\ body \in Forms
    BY <1>9, ChangeTypes DEF TypeInv, DialogTypes
  <2>2. Dialoging
    BY <1>9, <2>1 DEF Type, Dialoging, Dialogs, Aimed
  <2>3. Listing /\ Calling
    BY <1>9, ListStands, CallsStand DEF Type, server
  <2>4. RowTypes' /\ Growing
    BY <1>9, RowsStand DEF Type, server
  <2>5. NoteTypes'
    BY <1>0, <1>9, NotesStand DEF Type, notes
  <2>6. QED BY <2>2, <2>3, <2>4, <2>5, TypesCarry
<1>10. CASE Close
  <2>1. dialog.body.text \in Nat
    BY <1>10 DEF Close, TypeInv, DialogTypes, Dialogs, Forms
  <2>2. Listing /\ Calling /\ Dialoging
    BY <1>10, ListStands, CallsStand, DialogStands DEF Close, server
  <2>3. RowTypes' /\ Growing
    BY <1>10, RowsStand DEF Close, server
  <2>4. NoteTypes'
    BY <1>0, <1>10, <2>1, NotesStand DEF Close, notes, count
  <2>5. QED BY <2>2, <2>3, <2>4, TypesCarry
<1>11. CASE Submit
  <2>1. dialog \in Dialogs /\ Aimed(dialog)
    BY <1>11 DEF Submit, TypeInv, DialogTypes
  <2>2. Typed(Message(dialog.kind, dialog.item, dialog))
    BY <1>0, <2>1, TypedMessage DEF Dialogs, Aimed
  <2>3. wire' = wire \cup {Message(dialog.kind, dialog.item, dialog)} /\ calls' = calls + 1 /\ UNCHANGED <<begun, answers>>
    BY <1>11 DEF Submit, Call, server
  <2>4. Calling
    BY <2>2, <2>3 DEF Calling, TypeInv, CallTypes
  <2>5. Listing /\ Dialoging
    BY <1>11, ListStands, DialogStands DEF Submit
  <2>6. RowTypes' /\ Growing
    BY <1>11, RowsStand DEF Submit, server
  <2>7. NoteTypes'
    BY <1>0, <1>11, <2>3, NotesStand DEF Submit, notes
  <2>8. QED BY <2>4, <2>5, <2>6, <2>7, TypesCarry
<1>12. ASSUME NEW t, DeleteRate(t) PROVE TypeInv'
  <2>1. calls' \in Nat /\ Calling
    BY <1>0, <1>12, TypedPlain, BlankForm DEF DeleteRate, Calling, TypeInv, CallTypes, server
  <2>2. Listing /\ Dialoging
    BY <1>12, ListStands, DialogStands DEF DeleteRate, tab
  <2>3. RowTypes' /\ Growing
    BY <1>12, RowsStand DEF DeleteRate, server, tab
  <2>4. NoteTypes'
    BY <1>0, <1>12, <2>1, NotesStand DEF DeleteRate, tab, notes
  <2>5. QED BY <2>1, <2>2, <2>3, <2>4, TypesCarry
<1>13. ASSUME NEW o, Select(o) PROVE TypeInv'
  <2>1. Listing /\ Dialoging /\ Calling
    BY <1>13, ListStands, DialogStands, CallsStand DEF Select, server
  <2>2. RowTypes' /\ Growing
    BY <1>13, RowsStand DEF Select, server
  <2>3. NoteTypes'
    BY <1>0, <1>13, NotesStand DEF Select, notes, count
  <2>4. QED BY <2>1, <2>2, <2>3, TypesCarry
<1>14. ASSUME NEW o, DeleteOffer(o) PROVE TypeInv'
  <2>1. calls' \in Nat /\ Calling
    BY <1>0, <1>14, TypedPlain, BlankForm DEF DeleteOffer, Calling, TypeInv, CallTypes, server
  <2>2. Listing /\ Dialoging
    BY <1>14, ListStands, DialogStands DEF DeleteOffer, tab
  <2>3. RowTypes' /\ Growing
    BY <1>14, RowsStand DEF DeleteOffer, server, tab
  <2>4. NoteTypes'
    BY <1>0, <1>14, <2>1, NotesStand DEF DeleteOffer, tab, notes
  <2>5. QED BY <2>1, <2>2, <2>3, <2>4, TypesCarry
<1>15. ASSUME NEW o, NEW s \in Statuses, Patch(o, s) PROVE TypeInv'
  <2>1. calls' \in Nat /\ Calling
    BY <1>0, <1>15, TypedPlain, BlankForm DEF Patch, Calling, TypeInv, CallTypes, server
  <2>2. Listing /\ Dialoging
    BY <1>15, ListStands, DialogStands DEF Patch, tab
  <2>3. RowTypes' /\ Growing
    BY <1>15, RowsStand DEF Patch, server, tab
  <2>4. NoteTypes'
    BY <1>0, <1>15, <2>1, NotesStand DEF Patch, tab, notes
  <2>5. QED BY <2>1, <2>2, <2>3, <2>4, TypesCarry
<1>16. ASSUME NEW r \in Materials, ChangeStatus(r) PROVE TypeInv'
  <2> DEFINE d == [body |-> [Blank EXCEPT !.status = Opposite(shown.items[r].active)],
                   new |-> FALSE, opening |-> calls, was |-> "NEW", stale |-> FALSE]
             x == [view |-> view, list |-> shown]
             m == Message("status", r, d)
  <2>1. IsList(shown) /\ r \in DOMAIN shown.items /\ Existing(r) /\ shown.items[r] \in MaterialRows
    BY <1>16, PagesAssumption DEF ChangeStatus, StatusSwitch, Visible, Row, TypeInv, ListTypes, IsList
  <2>2. IsList(shown')
    <3>1. shown' = [shown EXCEPT !.items[r].active = ~shown.items[r].active]
      BY <1>16 DEF ChangeStatus
    <3>2. Record({"items", "total"}, shown') /\ shown'.total = shown.total
            /\ shown'.items = [shown.items EXCEPT ![r].active = ~shown.items[r].active]
      BY <2>1, <3>1 DEF IsList, Record
    <3>3. [shown.items[r] EXCEPT !.active = ~shown.items[r].active] \in MaterialRows
      BY <2>1 DEF MaterialRows
    <3>4. page = Resources
      BY <1>16 DEF ChangeStatus, StatusSwitch
    <3>5. QED BY <2>1, <3>2, <3>3, <3>4, PagesAssumption DEF IsList
  <2>3. Opposite(shown.items[r].active) \in Statuses
    BY DEF Opposite, Statuses
  <2>4. d.body \in Forms /\ d.new \in BOOLEAN /\ d.opening \in Nat /\ d.was \in Statuses /\ d.stale \in BOOLEAN
    BY <1>0, <2>3, BlankForm DEF Statuses
  <2>5. wire' = wire \cup {[m EXCEPT !.before = x]} /\ calls' = calls + 1 /\ fetch' = None
          /\ UNCHANGED <<view, failed, begun, answers>>
    BY <1>16 DEF ChangeStatus, Call, server
  <2> HIDE DEF d
  <2>6. Typed([m EXCEPT !.before = x])
    <3>1. IsList(x.list)
      BY <2>1
    <3>2. QED BY <1>0, <2>1, <2>4, <3>1, TypedMessage
  <2> HIDE DEF m, x
  <2>7. Calling
    BY <2>5, <2>6 DEF Calling, TypeInv, CallTypes
  <2>8. Listing
    BY <2>2, <2>5 DEF Listing, TypeInv, ListTypes
  <2>9. Dialoging /\ RowTypes' /\ Growing
    BY <1>16, DialogStands, RowsStand DEF ChangeStatus, server, tab
  <2>10. NoteTypes'
    BY <1>0, <1>16, <2>5, NotesStand DEF ChangeStatus, tab, notes
  <2>11. QED BY <2>7, <2>8, <2>9, <2>10, TypesCarry
<1>17. ASSUME NEW c \in wire, SaveRate(c) PROVE TypeInv'
  <2>1. c.body.text \in Nat
    BY DEF TypeInv, CallTypes, Typed, Forms
  <2>2. rates' \in [Types -> {None} \cup Nat]
    BY <1>17, <2>1 DEF SaveRate, TypeInv, RowTypes
  <2>3. RowTypes' /\ Growing
    BY <1>17, <2>2 DEF SaveRate, tab, TypeInv, RowTypes, Growing, Offers, ReviewRows, MaterialRows
  <2>4. \E ok \in BOOLEAN : Served(c, ok)
    BY <1>17 DEF SaveRate
  <2>5. Calling
    BY <1>17, <2>4, ServedTypes DEF SaveRate
  <2>6. Listing /\ Dialoging
    BY <1>17, ListStands, DialogStands DEF SaveRate, tab
  <2>7. NoteTypes'
    BY <1>0, <1>17, NotesStand DEF SaveRate, tab, notes, count
  <2>8. QED BY <2>3, <2>5, <2>6, <2>7, TypesCarry
<1>18. ASSUME NEW c \in wire, Begin(c) PROVE TypeInv'
  <2>1. Typed(c) /\ c.body \in Forms
    BY DEF TypeInv, CallTypes, Typed
  <2>2. PICK r \in Target(c) :
          begun' = begun \cup {[call |-> c, item |-> r,
                                row |-> IF c.new THEN [text |-> c.body.text, active |-> TRUE] ELSE Revised(materials[r], c)]}
    BY <1>18 DEF Begin
  <2>3. r \in Materials /\ (~c.new => materials[r] \in MaterialRows)
    BY <1>18, <2>1 DEF Begin, Target, Typed, Aimed, Existing, TypeInv, RowTypes
  <2>4. (IF c.new THEN [text |-> c.body.text, active |-> TRUE] ELSE Revised(materials[r], c)) \in MaterialRows
    BY <2>1, <2>3 DEF Forms, MaterialRows, Revised
  <2> DEFINE row == IF c.new THEN [text |-> c.body.text, active |-> TRUE] ELSE Revised(materials[r], c)
  <2> HIDE DEF row
  <2>5. Calling
    <3>1. begun' = begun \cup {[call |-> c, item |-> r, row |-> row]} /\ row \in MaterialRows
      BY <2>2, <2>4 DEF row
    <3>2. wire' \subseteq wire /\ answers' = answers
      BY <1>18 DEF Begin
    <3>3. QED BY <2>1, <2>3, <3>1, <3>2 DEF Calling, TypeInv, CallTypes
  <2>6. Listing /\ Dialoging /\ RowTypes' /\ Growing
    BY <1>18, ListStands, DialogStands, RowsStand DEF Begin, tab
  <2>7. NoteTypes'
    BY <1>0, <1>18, NotesStand DEF Begin, tab, notes, count
  <2>8. QED BY <2>5, <2>6, <2>7, TypesCarry
<1>19. ASSUME NEW c \in wire, Associate(c) PROVE TypeInv'
  <2>1. supply' \in [Offers -> {None} \cup Materials]
    BY <1>19 DEF Associate, Active, TypeInv, RowTypes
  <2>2. RowTypes' /\ Growing
    BY <1>19, <2>1 DEF Associate, tab, TypeInv, RowTypes, Growing, Offers, ReviewRows, MaterialRows
  <2>3. \E ok \in BOOLEAN : Served(c, ok)
    BY <1>19 DEF Associate
  <2>4. Calling
    BY <1>19, <2>3, ServedTypes DEF Associate
  <2>5. Listing /\ Dialoging
    BY <1>19, ListStands, DialogStands DEF Associate, tab
  <2>6. NoteTypes'
    BY <1>0, <1>19, NotesStand DEF Associate, tab, notes, count
  <2>7. QED BY <2>2, <2>4, <2>5, <2>6, TypesCarry
<1>20. ASSUME NEW c \in wire, SaveReview(c) PROVE TypeInv'
  <2>1. c.body \in Forms /\ Typed(c)
    BY DEF TypeInv, CallTypes, Typed
  <2>2. reviews' \in [Offers -> {None} \cup ReviewRows]
    BY <1>20, <2>1 DEF SaveReview, TypeInv, RowTypes, Forms, ReviewRows
  <2>3. RowTypes' /\ Growing
    BY <1>20, <2>2 DEF SaveReview, TypeInv, RowTypes, Growing, Offers, ReviewRows, MaterialRows
  <2>4. \A a \in answers' : Typed(a.call) /\ a.ok \in BOOLEAN /\ a.done \in BOOLEAN
    <3>1. answers' = answers \cup Answer(c, reviews[c.item] # None) /\ (reviews[c.item] # None) \in BOOLEAN
      BY <1>20 DEF SaveReview
    <3>2. QED BY <2>1, <3>1, AnswersTyped
  <2>5. Calling /\ Dialoging
    BY <1>20, <2>4, AnsweredTypes DEF SaveReview
  <2>6. undone' \in BOOLEAN
    BY <1>20 DEF SaveReview, TypeInv, NoteTypes
  <2>7. Listing /\ NoteTypes'
    BY <1>20, <2>6, ListStands DEF SaveReview, TypeInv, NoteTypes, count
  <2>8. QED BY <2>3, <2>5, <2>7, TypesCarry
<1>21. ASSUME NEW c \in wire, DeleteReview(c) PROVE TypeInv'
  <2>1. Typed(c)
    BY DEF TypeInv, CallTypes
  <2>2. reviews' \in [Offers -> {None} \cup ReviewRows]
    BY <1>21 DEF DeleteReview, TypeInv, RowTypes
  <2>3. RowTypes' /\ Growing
    BY <1>21, <2>2 DEF DeleteReview, TypeInv, RowTypes, Growing, Offers, ReviewRows, MaterialRows
  <2>4. \A a \in answers' : Typed(a.call) /\ a.ok \in BOOLEAN /\ a.done \in BOOLEAN
    <3>1. answers' = answers \cup Answer(c, reviews[c.item] # None) /\ (reviews[c.item] # None) \in BOOLEAN
      BY <1>21 DEF DeleteReview
    <3>2. QED BY <2>1, <3>1, AnswersTyped
  <2>5. Calling /\ Dialoging
    BY <1>21, <2>4, AnsweredTypes DEF DeleteReview
  <2>6. Listing /\ NoteTypes'
    BY <1>0, <1>21, ListStands, NotesStand DEF DeleteReview, notes, count
  <2>7. QED BY <2>3, <2>5, <2>6, TypesCarry
<1>22. ASSUME NEW c \in wire, CreateTask(c) PROVE TypeInv'
  <2>1. \E ok \in BOOLEAN : Served(c, ok)
    BY <1>22 DEF CreateTask
  <2>2. Calling
    BY <1>22, <2>1, ServedTypes DEF CreateTask, server
  <2>3. Listing /\ Dialoging /\ RowTypes' /\ Growing
    BY <1>22, ListStands, DialogStands, RowsStand DEF CreateTask, server, tab
  <2>4. NoteTypes'
    BY <1>0, <1>22, NotesStand DEF CreateTask, tab, notes, count
  <2>5. QED BY <2>2, <2>3, <2>4, TypesCarry
<1>23. ASSUME NEW b \in begun, Commit(b) PROVE TypeInv'
  <2>1. Typed(b.call) /\ b.item \in Materials /\ b.row \in MaterialRows
    BY DEF TypeInv, CallTypes
  <2>2. materials' \in [Materials -> {None} \cup MaterialRows] /\ Growing
    BY <1>23, <2>1, NoneAssumption DEF Commit, tab, TypeInv, RowTypes, Growing
  <2>3. RowTypes'
    BY <1>23, <2>2 DEF Commit, TypeInv, RowTypes, Offers, ReviewRows, MaterialRows
  <2>4. Calling
    <3>1. \A a \in answers' : Typed(a.call) /\ a.ok \in BOOLEAN /\ a.done \in BOOLEAN
      BY <1>23, <2>1, AnswersTyped DEF Commit
    <3>2. QED BY <1>23, <3>1 DEF Commit, Calling, TypeInv, CallTypes
  <2>5. Listing /\ Dialoging
    BY <1>23, ListStands, DialogStands DEF Commit, tab
  <2>6. chosen' \in [Materials -> {None} \cup BOOLEAN] /\ unsettled' \subseteq Materials
    <3>1. b.row.active \in BOOLEAN
      BY <2>1 DEF MaterialRows
    <3>2. \A x \in begun' : x.item \in Materials
      BY <1>23 DEF Commit, TypeInv, CallTypes
    <3>3. unsettled' \subseteq Materials
      BY <1>23, <3>2 DEF Commit, TypeInv, NoteTypes
    <3>4. QED BY <1>23, <3>1, <3>3 DEF Commit, TypeInv, NoteTypes
  <2>7. NoteTypes'
    BY <1>23, <2>6 DEF Commit, tab, count, TypeInv, NoteTypes
  <2>8. QED BY <2>2, <2>3, <2>4, <2>5, <2>7, TypesCarry
<1>24. CASE Other
  <2>0. Listing /\ events' = events + 1 /\ UNCHANGED <<page, here, left, typed, calls>>
    BY <1>24, ListStands DEF Other
  <2>1. ASSUME NEW t \in Types, OtherRates(t) PROVE TypeInv'
    <3>1. rates' \in [Types -> {None} \cup Nat]
      BY <2>1, BoundsAssumption DEF OtherRates, TypeInv, RowTypes
    <3>2. RowTypes' /\ Growing
      BY <2>0, <2>1, <3>1 DEF OtherRates, TypeInv, RowTypes, Growing, Offers, ReviewRows, MaterialRows
    <3>3. Calling /\ Dialoging
      BY <2>1, CallsStand, DialogStands DEF OtherRates
    <3>4. NoteTypes'
      BY <1>0, <2>0, <2>1, NotesStand DEF OtherRates, notes
    <3>5. QED BY <2>0, <3>2, <3>3, <3>4, TypesCarry
  <2>2. ASSUME NEW r \in Materials, OtherMaterials(r) PROVE TypeInv'
    <3>1. materials[r] \in MaterialRows
      BY <2>2 DEF OtherMaterials, TypeInv, RowTypes
    <3>2. [materials[r] EXCEPT !.active = ~materials[r].active] \in MaterialRows
      BY <3>1 DEF MaterialRows
    <3>3. materials' = [materials EXCEPT ![r] = [materials[r] EXCEPT !.active = ~materials[r].active]]
      BY <2>2 DEF OtherMaterials, TypeInv, RowTypes
    <3>4. materials' \in [Materials -> {None} \cup MaterialRows] /\ Growing
      BY <2>0, <3>2, <3>3, NoneAssumption DEF TypeInv, RowTypes, Growing
    <3>5. RowTypes'
      BY <2>2, <3>4 DEF OtherMaterials, TypeInv, RowTypes, Offers, ReviewRows, MaterialRows
    <3>6. Calling /\ Dialoging
      BY <2>2, CallsStand, DialogStands DEF OtherMaterials
    <3>7. NoteTypes'
      BY <1>0, <2>0, <2>2 DEF OtherMaterials, TypeInv, NoteTypes
    <3>8. QED BY <2>0, <3>4, <3>5, <3>6, <3>7, TypesCarry
  <2>3. ASSUME NEW o \in Offers, OtherSupply(o) PROVE TypeInv'
    <3>1. supply' \in [Offers -> {None} \cup Materials] /\ withdrawn' \subseteq Offers /\ thinned' \in BOOLEAN
      BY <2>3 DEF OtherSupply, Withdraw, Active, TypeInv, RowTypes, NoteTypes
    <3>2. RowTypes' /\ Growing
      BY <2>0, <2>3, <3>1 DEF OtherSupply, TypeInv, RowTypes, Growing, Offers, ReviewRows, MaterialRows
    <3>3. Calling /\ Dialoging
      BY <2>3, CallsStand, DialogStands DEF OtherSupply
    <3>4. NoteTypes'
      BY <1>0, <2>0, <2>3, <3>1 DEF OtherSupply, TypeInv, NoteTypes
    <3>5. QED BY <2>0, <3>2, <3>3, <3>4, TypesCarry
  <2>4. ASSUME NEW o \in Offers, OtherReviews(o) PROVE TypeInv'
    <3>1. reviews' \in [Offers -> {None} \cup ReviewRows]
      BY <2>4 DEF OtherReviews, TypeInv, RowTypes, ReviewRows
    <3>2. RowTypes' /\ Growing
      BY <2>0, <2>4, <3>1 DEF OtherReviews, TypeInv, RowTypes, Growing, Offers, ReviewRows, MaterialRows
    <3>3. Calling /\ Dialoging
      BY <2>4, AnsweredTypes DEF OtherReviews, TypeInv, CallTypes
    <3>4. NoteTypes'
      BY <1>0, <2>0, <2>4, NotesStand DEF OtherReviews, notes
    <3>5. QED BY <2>0, <3>2, <3>3, <3>4, TypesCarry
  <2>5. QED BY <1>24, <2>1, <2>2, <2>3, <2>4 DEF Other
<1>25. CASE Lose
  <2>0. /\ Listing /\ Dialoging /\ RowTypes' /\ Growing
        /\ begun' = begun /\ events' = events + 1 /\ UNCHANGED <<here, left, chosen, undone, searched, thinned, typed, calls>>
    BY <1>25, ListStands, DialogStands, RowsStand DEF Lose, server, tab
  <2>1. ASSUME NEW c \in wire, wire' \in {wire \ {c}, (wire \ {c}) \cup {[c EXCEPT !.gone = TRUE]}},
               answers' = answers \cup {[call |-> c, ok |-> FALSE, done |-> FALSE]},
               unsettled' = unsettled \cup (IF c.kind \in {"status", "resource"} THEN Target(c) ELSE {})
        PROVE  TypeInv'
    <3>1. IsMessage(c) /\ Typed(c) /\ Typed([c EXCEPT !.gone = TRUE])
      BY TypedStale DEF TypeInv, Shapes, CallTypes
    <3>2. Calling
      <4>1. \A x \in wire' : Typed(x)
        BY <2>1, <3>1 DEF TypeInv, CallTypes
      <4>2. \A a \in answers' : Typed(a.call) /\ a.ok \in BOOLEAN /\ a.done \in BOOLEAN
        <5>1. TAKE a \in answers'
        <5>2. CASE a \in answers
          BY <5>2 DEF TypeInv, CallTypes
        <5>3. CASE a = [call |-> c, ok |-> FALSE, done |-> FALSE]
          BY <3>1, <5>3
        <5>4. QED BY <2>1, <5>2, <5>3
      <4>3. QED BY <2>0, <4>1, <4>2 DEF Calling, TypeInv, CallTypes
    <3>3. unsettled' \subseteq Materials
      BY <2>1, <3>1 DEF Target, Typed, Aimed, Existing, TypeInv, NoteTypes
    <3>4. NoteTypes'
      BY <1>0, <2>0, <3>3 DEF TypeInv, NoteTypes
    <3>5. QED BY <2>0, <3>2, <3>4, TypesCarry
  <2>2. ASSUME NEW a \in answers, answers' = (answers \ {a}) \cup {[a EXCEPT !.ok = FALSE]}, UNCHANGED wire,
               unsettled' = unsettled \cup (IF a.call.kind \in {"status", "resource"} THEN Materials ELSE {})
        PROVE  TypeInv'
    <3>1. LET x == [a EXCEPT !.ok = FALSE] IN x.call = a.call /\ x.ok = FALSE /\ x.done = a.done
      BY DEF TypeInv, Shapes, IsAnswer, Record
    <3>2. Calling
      BY <2>0, <2>2, <3>1 DEF Calling, TypeInv, CallTypes
    <3>3. NoteTypes'
      BY <1>0, <2>0, <2>2 DEF TypeInv, NoteTypes
    <3>4. QED BY <2>0, <3>2, <3>3, TypesCarry
  <2>3. QED BY <1>25, <2>1, <2>2 DEF Lose
<1>26. ASSUME NEW a \in answers, Succeeded(a) \/ Refused(a) PROVE TypeInv'
  <2>1. LET x == [a EXCEPT !.done = TRUE] IN x.call = a.call /\ x.ok = a.ok /\ x.done = TRUE
    BY DEF TypeInv, Shapes, IsAnswer, Record
  <2>2. Typed(a.call) /\ a.ok \in BOOLEAN
    BY DEF TypeInv, CallTypes
  <2>3. Calling
    BY <1>26, <2>1, <2>2 DEF Succeeded, Refused, Over, server, Calling, TypeInv, CallTypes
  <2>4. Listing
    <3>1. shown' # None => IsList(shown')
      BY <1>26, <2>2 DEF Succeeded, Refused, PutBack, Typed, TypeInv, ListTypes
    <3>2. fetch' \in {fetch, Asked} /\ UNCHANGED <<view, failed>>
      BY <1>26 DEF Succeeded, Refused, Again
    <3>3. QED BY <3>1, <3>2 DEF Listing, TypeInv, ListTypes
  <2>5. Dialoging /\ RowTypes' /\ Growing
    BY <1>26, DialogStands, RowsStand DEF Succeeded, Refused, server, tab
  <2>6. NoteTypes'
    BY <1>0, <1>26, NotesStand DEF Succeeded, Refused, tab, notes, count
  <2>7. QED BY <2>3, <2>4, <2>5, <2>6, TypesCarry
<1>27. ASSUME NEW a \in answers, Finish(a) PROVE TypeInv'
  <2>1. IsMessage(a.call) /\ Typed(a.call)
    BY DEF TypeInv, Shapes, IsAnswer, CallTypes
  <2>2. Typed([a.call EXCEPT !.kind = "refresh", !.nth = calls])
    BY <1>0, <2>1, TypedRefresh
  <2>3. \A c \in wire' : Typed(c)
    BY <1>27, <2>2 DEF Finish, Call, TypeInv, CallTypes
  <2>4. Calling /\ calls' \in Nat
    BY <1>0, <1>27, <2>3 DEF Finish, Call, server, Calling, TypeInv, CallTypes
  <2>5. Listing /\ Dialoging /\ RowTypes' /\ Growing
    BY <1>27, ListStands, DialogStands, RowsStand DEF Finish, server
  <2>6. NoteTypes'
    BY <1>0, <1>27, <2>4, NotesStand DEF Finish
  <2>7. QED BY <2>4, <2>5, <2>6, TypesCarry
<1>28. QED
  BY <1>1, <1>2, <1>3, <1>4, <1>5, <1>6, <1>7, <1>7a, <1>8, <1>9, <1>10, <1>11, <1>12, <1>13, <1>14, <1>15, <1>16, <1>17,
     <1>18, <1>19, <1>20, <1>21, <1>22, <1>23, <1>24, <1>25, <1>26, <1>27 DEF Next

LEMMA StutterTypes ==
  ASSUME TypeInv, UNCHANGED vars
  PROVE  TypeInv'
<1>1. Shapes'
  BY DEF vars, server, net, tab, TypeInv, Shapes, Pages
<1>2. Listing /\ Dialoging /\ Calling /\ RowTypes' /\ Growing
  BY ListStands, DialogStands, CallsStand, RowsStand DEF vars, server, net, tab
<1>3. NoteTypes'
  BY CountsStand, NotesStand DEF vars, tab, notes, count
<1>4. QED BY <1>1, <1>2, <1>3, TypesCarry

LEMMA InitTypes ==
  ASSUME Init
  PROVE  TypeInv
<1>1. Shapes
  BY DEF Init, Shapes
<1>2. {None, [text |-> 0, active |-> TRUE]} \subseteq {None} \cup MaterialRows
  BY DEF MaterialRows
<1>3. [status |-> "NEW", text |-> 0] \in ReviewRows
  BY DEF ReviewRows, Statuses
<1>4. RowTypes
  <2>1. materials \in [Materials -> {None} \cup MaterialRows]
    <3>1. materials \in [Materials -> {None, [text |-> 0, active |-> TRUE]}]
      BY DEF Init
    <3>2. QED BY <1>2, <3>1
  <2>2. reviews \in [Offers -> {None} \cup ReviewRows]
    BY <1>3 DEF Init
  <2>3. QED BY <2>1, <2>2 DEF Init, RowTypes
<1>5. ListTypes
  BY DEF Init, ListTypes, First, View, Views
<1>6. DialogTypes /\ CallTypes
  BY DEF Init, DialogTypes, CallTypes
<1>7. NoteTypes
  BY DEF Init, NoteTypes
<1>8. QED BY <1>1, <1>4, <1>5, <1>6, <1>7 DEF TypeInv

LEMMA StepTyped == TypeInv /\ [Next]_vars => TypeInv'
BY StepShapes, StepTypes, StutterTypes DEF TypeInv

\* Rows, lists, dialogs, calls and answers keep their types, and what is asked of a
\* resource names one that is there, for any number of offers, texts, calls and
\* failures.
THEOREM TypeCorrect == Spec => []TypeInv
BY InitTypes, StepTyped, PTL DEF Spec

-----------------------------------------------------------------------------
(* Which dialog an answer closes *)

\* A save of a resource the page waits for, where it is
Asking(c) == c.kind = "resource" /\ c.live
Wired == {c \in wire : Asking(c) /\ ~c.gone}
Started == {b \in begun : Asking(b.call) /\ ~b.call.gone}
Replied == {a \in answers : Asking(a.call)}

AtMostOne(set) == \A x, y \in set : x = y

\* The dialog that asked is still open.
Held(c) == dialog # None /\ dialog.kind = "resource" /\ dialog.opening = c.opening

OwnInv ==
  /\ AtMostOne(Wired) /\ AtMostOne(Started) /\ AtMostOne(Replied)
  /\ Wired = {} \/ Started = {}
  /\ Wired = {} \/ Replied = {}
  /\ Started = {} \/ Replied = {}
  /\ \A c \in Wired : Held(c)
  /\ \A b \in Started : Held(b.call)
  /\ \A a \in Replied : Held(a.call)
  /\ strays \subseteq {"manual", "retrieve"}

\* The dialog of a resource stays, or no save of it is awaited.
Staying ==
  \/ dialog' # None /\ dialog # None /\ dialog'.kind = dialog.kind /\ dialog'.opening = dialog.opening
  \/ dialog = None \/ dialog.kind # "resource"
  \/ Wired = {} /\ Started = {} /\ Replied = {}

LEMMA StayingHolds ==
  ASSUME Staying, OwnInv
  PROVE  /\ \A c \in Wired : Held(c) => Held(c)'
         /\ \A b \in Started : Held(b.call) => Held(b.call)'
         /\ \A a \in Replied : Held(a.call) => Held(a.call)'
BY DEF Staying, OwnInv, Held

\* No save more is awaited.
LEMMA FewerKeeps ==
  ASSUME OwnInv, Staying, Wired' \subseteq Wired, Started' \subseteq Started, Replied' \subseteq Replied, strays' = strays
  PROVE  OwnInv'
BY StayingHolds DEF OwnInv, AtMostOne

\* What is added to the wire, or answered, saves no resource.
LEMMA OtherCalls ==
  ASSUME NEW m, m.kind # "resource", wire' \subseteq wire \cup {m}
  PROVE  Wired' \subseteq Wired
BY DEF Wired, Asking

LEMMA OtherAnswers ==
  ASSUME NEW c, c.kind # "resource" \/ ~c.live, NEW ok, answers' = answers \cup Answer(c, ok)
  PROVE  Replied' \subseteq Replied
BY DEF Replied, Asking, Answer

LEMMA PlainOwn ==
  ASSUME OwnInv, NEW kind, kind # "resource", NEW i, NEW body, Plain(kind, i, body),
         UNCHANGED <<dialog, begun, answers, strays>>
  PROVE  OwnInv'
<1> DEFINE m == Message(kind, i, [body |-> body, new |-> FALSE, opening |-> calls, was |-> body.status, stale |-> FALSE])
<1>1. m.kind = kind
  BY NewMessage
<1>2. wire' = wire \cup {m}
  BY DEF Plain, Call
<1> HIDE DEF m
<1>3. Wired' \subseteq Wired
  BY <1>1, <1>2, OtherCalls
<1>4. Started' = Started /\ Replied' = Replied
  BY DEF Started, Replied
<1>5. Staying
  BY DEF Staying
<1>6. QED BY <1>3, <1>4, <1>5, FewerKeeps

LEMMA ServedOwn ==
  ASSUME OwnInv, NEW c \in wire, c.kind # "resource", NEW ok, Served(c, ok), UNCHANGED <<begun, strays, dialog>>
  PROVE  OwnInv'
<1>1. Wired' \subseteq Wired
  BY DEF Served, Wired
<1>2. Replied' \subseteq Replied
  BY OtherAnswers DEF Served
<1>3. Started' = Started /\ Staying
  BY DEF Started, Staying
<1>4. QED BY <1>1, <1>2, <1>3, FewerKeeps

\* An answer that is told anew is the answer to the same call.
LEMMA RepliedAgain ==
  ASSUME OwnInv, NEW a \in answers, NEW x, x.call = a.call, answers' = (answers \ {a}) \cup {x},
         Wired' = Wired, Started' = Started, UNCHANGED <<dialog, strays>>
  PROVE  OwnInv'
<1>1. CASE a \notin Replied
  <2>1. Replied' \subseteq Replied
    BY <1>1 DEF Replied, Asking
  <2>2. QED BY <2>1, FewerKeeps DEF Staying
<1>2. CASE a \in Replied
  <2>1. Wired = {} /\ Started = {} /\ Held(a.call) /\ \A y \in Replied : y = a
    BY <1>2 DEF OwnInv, AtMostOne
  <2>2. \A y \in Replied' : y = x
    BY <2>1 DEF Replied, Asking
  <2>3. QED BY <2>1, <2>2 DEF OwnInv, AtMostOne, Held
<1>3. QED BY <1>1, <1>2

LEMMA OutdatedOwn ==
  ASSUME TypeInv, OwnInv, NEW o, NEW known, NEW calling \in SUBSET wire, Outdated(o, calling, known), begun' = begun,
         Replied' \subseteq Replied, strays' = strays
  PROVE  OwnInv'
<1>1. Staying
  <2>1. CASE dialog # None /\ dialog.item = o /\ ~known
    <3>1. dialog' = [dialog EXCEPT !.stale = TRUE] /\ dialog \in Dialogs
      BY <2>1 DEF Outdated, TypeInv, DialogTypes
    <3>2. dialog'.kind = dialog.kind /\ dialog'.opening = dialog.opening /\ dialog' \in Dialogs
      BY <3>1 DEF Dialogs
    <3>3. QED BY <2>1, <3>2, NoneAssumption DEF Staying
  <2>2. CASE ~(dialog # None /\ dialog.item = o /\ ~known)
    BY <2>2 DEF Staying, Outdated
  <2>3. QED BY <2>1, <2>2
<1>2. ASSUME NEW c \in Wired' PROVE \E x \in Wired : c = Aged(x, o, known) /\ c.opening = x.opening
  <2>1. PICK x \in calling : c = Aged(x, o, known)
    BY OutdatedWire DEF Wired
  <2>2. IsMessage(x) /\ x \in wire
    BY DEF TypeInv, Shapes
  <2>3. c.kind = x.kind /\ c.live = x.live /\ c.gone = x.gone /\ c.opening = x.opening
    <3>1. LET d == Aged(x, o, known) IN d.kind = x.kind /\ d.live = x.live /\ d.gone = x.gone /\ d.opening = x.opening
      BY <2>2, StaleFields DEF Aged
    <3>2. QED BY <2>1, <3>1
  <2>4. x \in Wired
    BY <2>2, <2>3 DEF Wired, Asking
  <2>5. QED BY <2>1, <2>3, <2>4
<1>3. AtMostOne(Wired') /\ (Wired = {} => Wired' = {})
  BY <1>2 DEF AtMostOne, OwnInv
<1>4. \A c \in Wired' : Held(c)'
  BY <1>1, <1>2, StayingHolds DEF OwnInv, Held
<1>5. Started' = Started
  BY DEF Started
<1>6. QED BY <1>1, <1>3, <1>4, <1>5, StayingHolds DEF OwnInv, AtMostOne

LEMMA StepOwn ==
  ASSUME TypeInv, OwnInv, Next
  PROVE  OwnInv'
<1>1. CASE UNCHANGED <<wire, begun, answers, dialog, strays>>
  BY <1>1, FewerKeeps DEF Staying, Wired, Started, Replied
<1>2. CASE Arrive
  <2>1. dialog' = dialog \/ dialog = None \/ dialog.kind # "resource"
    BY <1>2 DEF Arrive, Orphan
  <2>2. UNCHANGED <<wire, begun, answers, strays>>
    BY <1>2 DEF Arrive, server, net, notes
  <2>3. QED BY <2>1, <2>2, FewerKeeps DEF Staying, Wired, Started, Replied
<1>5. CASE Leave
  <2>1. Wired' = {}
    BY <1>5, LiveFields DEF Leave, Deserted, Wired, Asking, TypeInv, Shapes
  <2>2. Started' = {}
    <3>1. SUFFICES ASSUME NEW b \in begun PROVE ~[b EXCEPT !.call.live = FALSE].call.live
      BY <1>5 DEF Leave, Started, Asking
    <3>2. IsBegun(b) /\ IsMessage(b.call)
      BY DEF TypeInv, Shapes, IsBegun
    <3>3. [b EXCEPT !.call.live = FALSE].call = [b.call EXCEPT !.live = FALSE]
      BY <3>2, BegunFields
    <3>4. [b.call EXCEPT !.live = FALSE].live = FALSE
      BY <3>2, LiveFields
    <3>5. QED BY <3>3, <3>4
  <2>3. Replied' = {}
    <3>1. SUFFICES ASSUME NEW a \in answers PROVE ~[a EXCEPT !.call.live = FALSE].call.live
      BY <1>5 DEF Leave, Replied, Asking
    <3>2. IsAnswer(a) /\ IsMessage(a.call)
      BY DEF TypeInv, Shapes, IsAnswer
    <3>3. [a EXCEPT !.call.live = FALSE].call = [a.call EXCEPT !.live = FALSE]
      BY <3>2, AnswerFields
    <3>4. [a.call EXCEPT !.live = FALSE].live = FALSE
      BY <3>2, LiveFields
    <3>5. QED BY <3>3, <3>4
  <2>4. strays' = strays
    BY <1>5 DEF Leave, notes
  <2>5. QED BY <2>1, <2>2, <2>3, <2>4 DEF OwnInv, AtMostOne
<1>8. ASSUME NEW kind, NEW i, Open(kind, i) PROVE OwnInv'
  <2>1. dialog = None /\ UNCHANGED <<wire, begun, answers, strays>>
    BY <1>8 DEF Open, server, net, notes
  <2>2. QED BY <2>1, FewerKeeps DEF Staying, Wired, Started, Replied
<1>9. ASSUME dialog # None, NEW body \in Change(dialog), Type(body) PROVE OwnInv'
  <2>1. dialog \in Dialogs /\ body \in Forms /\ dialog' = [dialog EXCEPT !.body = body]
    BY <1>9, ChangeTypes DEF Type, TypeInv, DialogTypes
  <2>2. dialog' \in Dialogs /\ dialog'.kind = dialog.kind /\ dialog'.opening = dialog.opening
    BY <2>1 DEF Dialogs
  <2>3. Staying
    BY <1>9, <2>2, NoneAssumption DEF Staying
  <2>4. UNCHANGED <<wire, begun, answers, strays>>
    BY <1>9 DEF Type, server, net, notes
  <2>5. QED BY <2>3, <2>4, FewerKeeps DEF Wired, Started, Replied
<1>10. CASE Close
  <2>1. dialog.kind = "resource" => Wired = {} /\ Started = {} /\ Replied = {}
    BY <1>10 DEF Close, Waiting, Wired, Started, Replied, Asking
  <2>2. UNCHANGED <<wire, begun, answers, strays>>
    BY <1>10 DEF Close, server, net, notes
  <2>3. QED BY <2>1, <2>2, FewerKeeps DEF Staying, Wired, Started, Replied
<1>11. CASE Submit
  <2> DEFINE m == Message(dialog.kind, dialog.item, dialog)
  <2>1. wire' = wire \cup {m} /\ UNCHANGED <<begun, answers, strays>> /\ dialog # None /\ dialog' \in {dialog, None}
    BY <1>11 DEF Submit, Call, server, notes
  <2>2. m.kind = dialog.kind /\ m.opening = dialog.opening
    BY NewMessage
  <2> HIDE DEF m
  <2>3. CASE dialog.kind # "resource"
    <3>1. Wired' \subseteq Wired
      BY <2>1, <2>2, <2>3, OtherCalls
    <3>2. QED BY <2>1, <2>3, <3>1, FewerKeeps DEF Staying, Started, Replied
  <2>4. CASE dialog.kind = "resource"
    <3>1. Waiting({"resource"}) = {} /\ dialog' = dialog
      BY <1>11, <2>4 DEF Submit, Ready, ResourceReady
    <3>2. Wired = {} /\ Started = {} /\ Replied = {}
      BY <3>1 DEF Waiting, Wired, Started, Replied, Asking
    <3>3. Wired' \subseteq {m} /\ Started' = {} /\ Replied' = {}
      BY <2>1, <3>2 DEF Wired, Started, Replied, Asking
    <3>4. \A c \in Wired' : Held(c)'
      BY <2>1, <2>2, <2>4, <3>1, <3>3 DEF Held
    <3>5. QED BY <2>1, <3>3, <3>4 DEF OwnInv, AtMostOne
  <2>5. QED BY <2>3, <2>4
<1>12. ASSUME NEW t, DeleteRate(t) PROVE OwnInv'
  BY <1>12, PlainOwn DEF DeleteRate, server, tab, notes
<1>14. ASSUME NEW o, DeleteOffer(o) PROVE OwnInv'
  BY <1>14, PlainOwn DEF DeleteOffer, server, tab, notes
<1>15. ASSUME NEW o, NEW s, Patch(o, s) PROVE OwnInv'
  BY <1>15, PlainOwn DEF Patch, server, tab, notes
<1>16. ASSUME NEW r, ChangeStatus(r) PROVE OwnInv'
  <2>1. PICK c : IsMessage(c) /\ c.kind = "status" /\ wire' = wire \cup {c}
    BY <1>16, StatusCall
  <2>2. Wired' \subseteq Wired
    BY <2>1, OtherCalls
  <2>3. UNCHANGED <<begun, answers, dialog, strays>>
    BY <1>16 DEF ChangeStatus, server, tab, notes
  <2>4. QED BY <2>2, <2>3, FewerKeeps DEF Staying, Started, Replied
<1>17. ASSUME NEW c \in wire, SaveRate(c) PROVE OwnInv'
  BY <1>17, ServedOwn DEF SaveRate, tab, notes
<1>18. ASSUME NEW c \in wire, Begin(c) PROVE OwnInv'
  <2>1. PICK r, row : begun' = begun \cup {[call |-> c, item |-> r, row |-> row]}
    BY <1>18 DEF Begin
  <2>2. wire' = wire \ {c} /\ UNCHANGED <<answers, dialog, strays>>
    BY <1>18 DEF Begin, tab, notes
  <2>3. CASE c \notin Wired
    <3>1. Started' \subseteq Started /\ Wired' \subseteq Wired
      BY <2>1, <2>2, <2>3 DEF Started, Wired, Asking
    <3>2. QED BY <2>2, <3>1, FewerKeeps DEF Staying, Replied
  <2>4. CASE c \in Wired
    <3>1. Started = {} /\ Replied = {} /\ Held(c) /\ \A x \in Wired : x = c
      BY <2>4 DEF OwnInv, AtMostOne
    <3>2. Wired' = {}
      BY <2>2, <3>1 DEF Wired, Asking
    <3>3. Started' \subseteq {[call |-> c, item |-> r, row |-> row]}
      BY <2>1, <3>1 DEF Started, Asking
    <3>4. Replied' = {} /\ Held(c)'
      BY <2>2, <3>1 DEF Replied, Held, Asking
    <3>5. QED BY <2>2, <3>2, <3>3, <3>4 DEF OwnInv, AtMostOne, Held
  <2>5. QED BY <2>3, <2>4
<1>19. ASSUME NEW c \in wire, Associate(c) PROVE OwnInv'
  BY <1>19, ServedOwn DEF Associate, tab, notes
<1>20. ASSUME NEW c \in wire, SaveReview(c) PROVE OwnInv'
  BY <1>20, OtherAnswers, OutdatedOwn DEF SaveReview
<1>21. ASSUME NEW c \in wire, DeleteReview(c) PROVE OwnInv'
  BY <1>21, OtherAnswers, OutdatedOwn DEF DeleteReview, notes
<1>22. ASSUME NEW c \in wire, CreateTask(c) PROVE OwnInv'
  BY <1>22, ServedOwn DEF CreateTask, server, tab, notes
<1>23. ASSUME NEW b \in begun, Commit(b) PROVE OwnInv'
  <2>1. begun' = begun \ {b} /\ answers' = answers \cup Answer(b.call, TRUE) /\ UNCHANGED <<wire, dialog, strays>>
    BY <1>23 DEF Commit, tab
  <2>2. Started' \subseteq Started /\ Wired' = Wired
    BY <2>1 DEF Started, Wired, Asking
  <2>3. CASE b \notin Started
    <3>1. Replied' \subseteq Replied
      BY <2>1, <2>3 DEF Replied, Started, Asking, Answer
    <3>2. QED BY <2>1, <2>2, <3>1, FewerKeeps DEF Staying
  <2>4. CASE b \in Started
    <3>1. Wired = {} /\ Replied = {} /\ Held(b.call) /\ \A x \in Started : x = b
      BY <2>4 DEF OwnInv, AtMostOne
    <3>2. Started' = {}
      BY <2>1, <2>2, <3>1 DEF Started
    <3>3. \A a \in Replied' : a = [call |-> b.call, ok |-> TRUE, done |-> FALSE]
      BY <2>1, <3>1 DEF Replied, Asking, Answer
    <3>4. \A a \in Replied' : Held(a.call)'
      BY <2>1, <3>1, <3>3 DEF Held
    <3>5. QED BY <2>1, <2>2, <3>1, <3>2, <3>3, <3>4 DEF OwnInv, AtMostOne
  <2>5. QED BY <2>3, <2>4
<1>24. CASE Other
  <2>1. ASSUME NEW t, OtherRates(t) PROVE OwnInv'
    BY <1>1, <2>1 DEF OtherRates, net, notes
  <2>2. ASSUME NEW r, OtherMaterials(r) PROVE OwnInv'
    BY <1>1, <2>2 DEF OtherMaterials, net
  <2>3. ASSUME NEW o, OtherSupply(o) PROVE OwnInv'
    BY <1>1, <2>3 DEF OtherSupply, net
  <2>4. ASSUME NEW o, OtherReviews(o) PROVE OwnInv'
    BY <2>4, OutdatedOwn DEF OtherReviews, Replied, notes
  <2>5. QED BY <1>24, <2>1, <2>2, <2>3, <2>4 DEF Other
<1>25. CASE Lose
  <2>0. UNCHANGED <<begun, dialog, strays>> /\ Started' = Started
    BY <1>25 DEF Lose, server, tab, Started, Asking
  <2>1. ASSUME NEW c \in wire, ~c.gone, wire' \in {wire \ {c}, (wire \ {c}) \cup {[c EXCEPT !.gone = TRUE]}},
               answers' = answers \cup {[call |-> c, ok |-> FALSE, done |-> FALSE]}
        PROVE  OwnInv'
    <3>1. Wired' \subseteq Wired \ {c}
      BY <2>1, GoneFields DEF Wired, Asking, TypeInv, Shapes
    <3>2. CASE c \notin Wired
      <4>1. Replied' \subseteq Replied
        BY <2>1, <3>2 DEF Replied, Wired, Asking
      <4>2. QED BY <2>0, <3>1, <4>1, FewerKeeps DEF Staying
    <3>3. CASE c \in Wired
      <4>1. Started = {} /\ Replied = {} /\ Held(c) /\ \A x \in Wired : x = c
        BY <3>3 DEF OwnInv, AtMostOne
      <4>2. Wired' = {}
        BY <3>1, <4>1
      <4>3. \A a \in Replied' : a = [call |-> c, ok |-> FALSE, done |-> FALSE]
        BY <2>1, <4>1 DEF Replied, Asking
      <4>4. \A a \in Replied' : Held(a.call)'
        BY <2>0, <4>1, <4>3 DEF Held
      <4>5. QED BY <2>0, <4>1, <4>2, <4>3, <4>4 DEF OwnInv, AtMostOne
    <3>4. QED BY <3>2, <3>3
  <2>2. ASSUME NEW a \in answers, answers' = (answers \ {a}) \cup {[a EXCEPT !.ok = FALSE]}, UNCHANGED wire
        PROVE  OwnInv'
    <3>1. [a EXCEPT !.ok = FALSE].call = a.call
      BY AnswerFields DEF TypeInv, Shapes
    <3>2. QED BY <2>0, <2>2, <3>1, RepliedAgain DEF Wired
  <2>3. QED BY <1>25, <2>1, <2>2 DEF Lose
<1>26. ASSUME NEW a \in answers, Succeeded(a) \/ Refused(a) PROVE OwnInv'
  <2>1. [a EXCEPT !.done = TRUE].call = a.call
    BY AnswerFields DEF TypeInv, Shapes
  <2>2. UNCHANGED <<wire, begun, dialog, strays>> /\ answers' = (answers \ {a}) \cup {[a EXCEPT !.done = TRUE]}
    BY <1>26 DEF Succeeded, Refused, Over, server, tab, notes
  <2>3. QED BY <2>1, <2>2, RepliedAgain DEF Wired, Started
<1>27. ASSUME NEW a \in answers, Finish(a) PROVE OwnInv'
  <2>1. answers' = answers \ {a} /\ begun' = begun
    BY <1>27 DEF Finish, server
  <2>2. Started' = Started /\ Replied' = Replied \ {a}
    BY <2>1 DEF Started, Replied, Asking
  <2>3. Wired' \subseteq Wired
    <3>1. [a.call EXCEPT !.kind = "refresh", !.nth = calls].kind # "resource"
      BY RefreshFields DEF TypeInv, Shapes, IsAnswer
    <3>2. wire' \subseteq wire \cup {[a.call EXCEPT !.kind = "refresh", !.nth = calls]}
      BY <1>27 DEF Finish, Call
    <3>3. QED BY <3>1, <3>2, OtherCalls
  <2>4. CASE ~(a.ok /\ Closes(a.call))
    <3>1. UNCHANGED <<dialog, strays>>
      BY <1>27, <2>4 DEF Finish
    <3>2. QED BY <2>2, <2>3, <3>1, FewerKeeps DEF Staying
  <2>5. CASE a.ok /\ Closes(a.call) /\ a \in Replied
    <3>1. Wired = {} /\ Started = {} /\ Replied' = {} /\ Held(a.call)
      BY <2>2, <2>5 DEF OwnInv, AtMostOne
    <3>2. strays' = strays
      BY <1>27, <3>1 DEF Finish, Held
    <3>3. QED BY <2>2, <2>3, <3>1, <3>2 DEF OwnInv, AtMostOne
  <2>6. CASE a.ok /\ Closes(a.call) /\ a \notin Replied
    <3>1. dialog.kind \in {"manual", "retrieve"}
      BY <2>6 DEF Closes, Replied, Asking
    <3>2. strays' \subseteq strays \cup {dialog.kind}
      BY <1>27 DEF Finish
    <3>3. Wired = {} /\ Started = {} /\ Replied = {}
      BY <3>1 DEF OwnInv, Held
    <3>4. QED BY <2>2, <2>3, <3>1, <3>2, <3>3 DEF OwnInv, AtMostOne
  <2>7. QED BY <2>4, <2>5, <2>6
<1>28. ASSUME Reading \/ ReadFails \/ Retry \/ Return \/ (\E v : Turn(v)) \/ Debounce \/ (\E t : Search(t)) \/ \E o : Select(o)
       PROVE  OwnInv'
  BY <1>1, <1>28 DEF Reading, ReadFails, Retry, Return, Turn, Search, Debounce, Select, server, net, tab, notes
<1>29. QED
  BY <1>2, <1>5, <1>8, <1>9, <1>10, <1>11, <1>12, <1>14, <1>15, <1>16, <1>17, <1>18, <1>19, <1>20, <1>21, <1>22,
     <1>23, <1>24, <1>25, <1>26, <1>27, <1>28 DEF Next

\* An answer closes the dialog that asked for it and no other, except the dialogs
\* that can be closed and opened again while it is awaited: at most one save of a
\* resource is awaited at a time, and the dialog that asked cannot be closed before.
THEOREM AnswersCloseTheirOwn == Spec => []ClosedByOwnAnswer
<1>1. Init => TypeInv /\ OwnInv
  BY InitTypes DEF Init, OwnInv, AtMostOne, Wired, Started, Replied
<1>2. TypeInv /\ OwnInv /\ [Next]_vars => (TypeInv /\ OwnInv)'
  <2>1. ASSUME OwnInv, UNCHANGED vars PROVE OwnInv'
    BY <2>1 DEF vars, server, net, tab, notes, OwnInv, AtMostOne, Wired, Started, Replied, Asking, Held
  <2>2. QED BY <2>1, StepTyped, StepOwn
<1>3. OwnInv => ClosedByOwnAnswer
  BY DEF OwnInv, ClosedByOwnAnswer
<1>4. QED BY <1>1, <1>2, <1>3, PTL DEF Spec

-----------------------------------------------------------------------------
(* Empty pages *)

\* A set of numbers has a least element: the intervals from 0 are finite sets, which
\* are well founded.
LEMMA Least ==
  ASSUME NEW set \in SUBSET Nat, set # {}
  PROVE  \E n \in set : \A m \in set : n <= m
<1> DEFINE Below(n) == 0..n
           Intervals == {Below(n) : n \in set}
           R == StrictSubsetOrdering(Nat)
<1>1. Intervals \subseteq FiniteSubsetsOf(Nat) /\ Intervals # {}
  <2>1. \A n \in set : Below(n) \in FiniteSubsetsOf(Nat)
    BY FS_Interval DEF FiniteSubsetsOf
  <2>2. QED BY <2>1
<1>2. IsWellFoundedOn(R, FiniteSubsetsOf(Nat))
  BY FS_StrictSubsetOrderingWellFounded
<1>3. \E x \in Intervals : \A y \in Intervals : ~(<<y, x>> \in R)
  <2> HIDE DEF Intervals, R
  <2>1. QED BY <1>1, <1>2, WFMin
<1>4. PICK n \in set : \A m \in set : ~(<<Below(m), Below(n)>> \in R)
  BY <1>3
<1>5. \A m \in set : n <= m
  <2>1. SUFFICES ASSUME NEW m \in set, m < n PROVE FALSE
    OBVIOUS
  <2>2. Below(m) \subseteq Below(n) /\ n \in Below(n) /\ n \notin Below(m)
          /\ Below(m) \in SUBSET Nat /\ Below(n) \in SUBSET Nat
    BY <2>1
  <2>3. <<Below(m), Below(n)>> \in R
    BY <2>2 DEF StrictSubsetOrdering
  <2>4. QED BY <1>4, <2>3
<1>6. QED BY <1>5

\* A page of a list that has as many rows is not empty.
LEMMA NthExists ==
  ASSUME NEW set \in SUBSET Offers, NEW n \in Nat, 1 <= n, n <= Cardinality(set)
  PROVE  Nth(set, n) # {}
<1> DEFINE upto(k) == {q \in set : q <= k}
           full == {k \in 0..MaxOffers : n <= Cardinality(upto(k))}
<1>0. \A q \in set : q \in Nat /\ 1 <= q /\ q <= MaxOffers
  BY BoundsAssumption DEF Offers
<1>1. \A k \in Nat : IsFiniteSet(upto(k)) /\ Cardinality(upto(k)) \in Nat
  BY OffersCount
<1>2. MaxOffers \in full
  <2>1. upto(MaxOffers) = set
    BY <1>0
  <2>2. QED BY <2>1, BoundsAssumption
<1>3. PICK k \in full : \A m \in full : k <= m
  <2>1. full \in SUBSET Nat
    OBVIOUS
  <2> HIDE DEF full
  <2>2. QED BY <1>2, <2>1, Least
<1>4. k # 0
  <2>1. upto(0) = {}
    BY <1>0
  <2>2. Cardinality(upto(0)) = 0
    BY <2>1, FS_EmptySet
  <2>3. QED BY <2>2
<1>5. k - 1 \in 0..MaxOffers /\ k \in Nat /\ k - 1 \in Nat
  BY <1>4, BoundsAssumption
<1>6. ~(n <= Cardinality(upto(k - 1)))
  <2>1. k - 1 \notin full
    BY <1>3, <1>5
  <2>2. QED BY <1>5, <2>1
<1>7. n <= Cardinality(upto(k))
  OBVIOUS
<1>8. k \in set
  <2>1. SUFFICES ASSUME k \notin set PROVE FALSE
    OBVIOUS
  <2>2. upto(k) = upto(k - 1)
    BY <1>0, <1>5, <2>1
  <2>3. QED BY <1>6, <1>7, <2>2
<1>9. upto(k) = upto(k - 1) \cup {k}
  <2>1. \A q \in set : q <= k <=> q <= k - 1 \/ q = k
    BY <1>0, <1>5
  <2>2. QED BY <1>8, <2>1
<1>10. Cardinality(upto(k)) = Cardinality(upto(k - 1)) + 1
  <2>1. k \notin upto(k - 1)
    BY <1>5
  <2> HIDE DEF upto
  <2>2. QED BY <1>1, <1>5, <1>9, <2>1, FS_AddElement
<1>11. Cardinality(upto(k)) = n
  <2>1. Cardinality(upto(k - 1)) \in Nat
    BY <1>1, <1>5
  <2>2. QED BY <1>6, <1>7, <1>10, <2>1
<1>12. k \in Nth(set, n)
  BY <1>8, <1>11 DEF Nth
<1>13. QED BY <1>12

\* The supplier offers that match what is asked for; none loses its resource.
Sought == {o \in Offers : supply[o] # None /\ view.term \in {None, o}}
AtLeastOne(n) == IF n > 1 THEN n ELSE 1

\* What was read may be empty because nothing matches, because the page asked for is
\* beyond the last, or because an offer was withdrawn or a page turned of other offers.
Explained(l, n) ==
  DOMAIN l.items = {} => l.total = 0 \/ (page = Review /\ n > l.total) \/ (page = Supply /\ thinned)

\* Nobody asks for more supplier offers than there are.
Within(l) == l.total <= Cardinality(Sought)

EmptyInv ==
  /\ view.nth >= 1
  /\ page \in {Review, Supply} =>
       /\ shown # None => Explained(shown, 0)
       /\ fetch \notin {None, Asked} => Explained(fetch, view.nth)
       /\ \A c \in wire : c.kind # "status"
       /\ \A b \in begun : b.call.kind # "status"
       /\ \A a \in answers : a.call.kind # "status"
  /\ page = Supply /\ ~thinned =>
       /\ withdrawn = {}
       /\ shown # None => searched \/ Within(shown)
       /\ fetch \notin {None, Asked} => Within(fetch)
       /\ view.nth <= AtLeastOne(Cardinality(Sought))
       /\ searched => view.nth = 1
       /\ view.search # view.term => searched

LEMMA ReadExplained ==
  ASSUME TypeInv, EmptyInv, page \in {Review, Supply}
  PROVE  Explained(Read, view.nth) /\ (page = Supply /\ ~thinned => Within(Read))
<1>0. view.nth \in Nat /\ view.nth >= 1
  BY DEF TypeInv, ListTypes, Views, EmptyInv
<1>1. CASE page = Review
  <2>1. Read = ListOffers
    BY <1>1, PagesAssumption DEF Read
  <2>2. ListOffers.total = Cardinality(Matching) /\ DOMAIN ListOffers.items = Nth(Matching, view.nth)
    BY DEF ListOffers
  <2>3. Matching \in SUBSET Offers /\ Cardinality(Matching) \in Nat
    BY OffersCount DEF Matching
  <2>4. view.nth <= Cardinality(Matching) => Nth(Matching, view.nth) # {}
    BY <1>0, <2>3, NthExists
  <2>5. QED BY <1>0, <1>1, <2>1, <2>2, <2>3, <2>4, PagesAssumption DEF Explained
<1>2. CASE page = Supply
  <2> DEFINE all == {o \in Offers : supply[o] # None /\ (view.status = "ALL" \/ o \notin withdrawn) /\ view.term \in {None, o}}
  <2>1. Read = ListSupply
    BY <1>2, PagesAssumption DEF Read
  <2>2. ListSupply.total = Cardinality(all) /\ DOMAIN ListSupply.items = Nth(all, view.nth)
    BY DEF ListSupply
  <2>3. CASE thinned
    BY <1>2, <2>3 DEF Explained
  <2>4. CASE ~thinned
    <3>1. all = Sought /\ view.nth <= AtLeastOne(Cardinality(Sought))
      BY <1>2, <2>4 DEF EmptyInv, Sought
    <3>2. Sought \in SUBSET Offers /\ Cardinality(Sought) \in Nat
      BY OffersCount DEF Sought
    <3>3. Cardinality(Sought) # 0 => Nth(Sought, view.nth) # {}
      BY <1>0, <3>1, <3>2, NthExists DEF AtLeastOne
    <3>4. QED BY <2>1, <2>2, <3>1, <3>2, <3>3 DEF Explained, Within
  <2>5. QED BY <2>3, <2>4
<1>3. QED BY <1>1, <1>2

\* What the lists of supplier offers rest on only grows.
Richer ==
  /\ page' = page /\ (thinned => thinned')
  /\ page = Supply /\ ~thinned' => withdrawn' = withdrawn /\ Sought \subseteq Sought'

LEMMA MoreSought ==
  ASSUME TypeInv, Sought \subseteq Sought'
  PROVE  Cardinality(Sought) \in Nat /\ Cardinality(Sought') \in Nat /\ Cardinality(Sought) <= Cardinality(Sought')
<1>1. Sought \in SUBSET Offers /\ Sought' \in SUBSET Offers
  BY DEF Sought, Offers
<1>2. IsFiniteSet(Sought) /\ IsFiniteSet(Sought') /\ Cardinality(Sought) \in Nat /\ Cardinality(Sought') \in Nat
  BY <1>1, OffersCount
<1>3. QED BY <1>2, FS_Subset

\* What a step has to show: what is shown or fetched was explained before, and what
\* is asked for is within reach.
LEMMA EmptyCarry ==
  ASSUME TypeInv, TypeInv', EmptyInv, Richer, view'.nth >= 1,
         page \in {Review, Supply} =>
           /\ shown' # None => Explained(shown', 0)
           /\ fetch' \notin {None, Asked} => Explained(fetch', view'.nth)
           /\ \A c \in wire' : c.kind # "status"
           /\ \A b \in begun' : b.call.kind # "status"
           /\ \A a \in answers' : a.call.kind # "status",
         page = Supply /\ ~thinned /\ ~thinned' =>
           /\ shown' # None => searched' \/ Within(shown')
           /\ fetch' \notin {None, Asked} => Within(fetch')
           /\ view'.nth <= AtLeastOne(Cardinality(Sought))
           /\ searched' => view'.nth = 1
           /\ view'.search # view'.term => searched'
  PROVE  EmptyInv'
<1>1. ASSUME page = Supply, ~thinned'
      PROVE  /\ withdrawn' = {}
             /\ shown' # None => searched' \/ Within(shown)'
             /\ fetch' \notin {None, Asked} => Within(fetch)'
             /\ view'.nth <= AtLeastOne(Cardinality(Sought'))
             /\ searched' => view'.nth = 1
             /\ view'.search # view'.term => searched'
  <2>1. Cardinality(Sought) \in Nat /\ Cardinality(Sought') \in Nat /\ Cardinality(Sought) <= Cardinality(Sought')
    BY <1>1, MoreSought DEF Richer
  <2>2. view'.nth \in Nat /\ (shown' # None => shown'.total \in Nat) /\ (fetch' \notin {None, Asked} => fetch'.total \in Nat)
    BY DEF TypeInv, ListTypes, Views, IsList
  <2>3. QED BY <1>1, <2>1, <2>2 DEF Richer, EmptyInv, Within, AtLeastOne
<1>2. ASSUME page \in {Review, Supply}
      PROVE  /\ shown' # None => Explained(shown, 0)'
             /\ fetch' \notin {None, Asked} => Explained(fetch, view.nth)'
  BY <1>2 DEF Explained, Richer
<1>3. page' = page
  BY DEF Richer
<1>4. QED BY <1>1, <1>2, <1>3 DEF EmptyInv

LEMMA EmptyStays ==
  ASSUME TypeInv, TypeInv', EmptyInv, Richer, UNCHANGED <<view, searched, shown>>, fetch' \in {fetch, None, Asked},
         \A c \in wire' : c \in wire \/ c.kind # "status",
         \A b \in begun' : b \in begun \/ b.call.kind # "status",
         \A a \in answers' : a \in answers \/ a.call.kind # "status"
  PROVE  EmptyInv'
BY EmptyCarry DEF EmptyInv

LEMMA PlainEmpty ==
  ASSUME TypeInv, TypeInv', EmptyInv, Richer, UNCHANGED <<view, searched, shown, fetch, begun, answers>>,
         NEW kind, kind # "status", NEW i, NEW body, Plain(kind, i, body)
  PROVE  EmptyInv'
<1> DEFINE m == Message(kind, i, [body |-> body, new |-> FALSE, opening |-> calls, was |-> body.status, stale |-> FALSE])
<1>1. m.kind # "status"
  BY DEF Message
<1>2. wire' = wire \cup {m}
  BY DEF Plain, Call
<1> HIDE DEF m
<1>3. QED BY <1>1, <1>2, EmptyStays

LEMMA AnsweredEmpty ==
  ASSUME TypeInv, TypeInv', EmptyInv, Richer, UNCHANGED <<view, searched, shown, fetch, begun>>,
         NEW c \in wire, NEW ok, wire' = wire \ {c}, answers' = answers \cup Answer(c, ok)
  PROVE  EmptyInv'
<1>1. page \in {Review, Supply} => \A a \in Answer(c, ok) : a.call.kind # "status"
  BY DEF Answer, EmptyInv
<1>2. page \in {Review, Supply} => \A a \in answers' : a.call.kind # "status"
  BY <1>1 DEF EmptyInv
<1>3. QED BY <1>2, EmptyCarry DEF EmptyInv

LEMMA OutdatedEmpty ==
  ASSUME TypeInv, TypeInv', EmptyInv, Richer, UNCHANGED <<view, searched, shown, fetch, begun>>, NEW o, NEW known, NEW calling \in SUBSET wire,
         Outdated(o, calling, known),
         page \in {Review, Supply} => \A a \in answers' : a.call.kind # "status"
  PROVE  EmptyInv'
<1>1. ASSUME page \in {Review, Supply}, NEW c \in wire' PROVE c.kind # "status"
  <2>1. PICK x \in wire : c = x \/ c = [x EXCEPT !.stale = TRUE]
    BY DEF Outdated
  <2>2. x.kind # "status" /\ IsMessage(x)
    BY <1>1 DEF EmptyInv, TypeInv, Shapes
  <2>3. [x EXCEPT !.stale = TRUE].kind = x.kind
    BY <2>2 DEF IsMessage, Record
  <2>4. QED BY <2>1, <2>2, <2>3
<1>2. QED BY <1>1, EmptyCarry DEF EmptyInv

LEMMA StepEmpty ==
  ASSUME TypeInv, TypeInv', EmptyInv, Next
  PROVE  EmptyInv'
<1>0. ASSUME UNCHANGED <<page, view, supply, withdrawn, thinned>> PROVE Richer
  BY <1>0 DEF Richer, Sought
<1>0a. ASSUME UNCHANGED <<page, supply, withdrawn>>, thinned => thinned', page = Supply => view'.term \in {view.term, None}
       PROVE  Richer
  BY <1>0a DEF Richer, Sought
<1>1. CASE Reading
  <2>1. Richer /\ UNCHANGED <<view, searched, shown, wire, begun, answers>> /\ fetch' = Read
    BY <1>0, <1>1 DEF Reading, server, net, tab, notes
  <2>2. QED BY <2>1, ReadExplained, EmptyCarry DEF EmptyInv
<1>2. CASE Arrive
  <2>0. page = Supply => view' = view
    BY <1>2, PagesAssumption DEF Arrive, InRange
  <2>1. /\ Richer /\ UNCHANGED <<page, thinned, wire, begun, answers>> /\ fetch' \in {None, Asked} /\ fetch \notin {None, Asked}
        /\ searched' = (page = Supply /\ view.search # view.term)
    BY <1>0a, <1>2, <2>0 DEF Arrive, server, net
  <2>2. fetch.total \in Nat /\ view.nth \in Nat
    BY <2>1 DEF TypeInv, ListTypes, IsList, Views
  <2>3. CASE InRange(fetch)
    <3>1. shown' = fetch /\ view' = view
      BY <1>2, <2>3 DEF Arrive
    <3>2. page = Review => view.nth <= AtLeastOne(fetch.total)
      BY <2>3 DEF InRange, AtLeastOne
    <3>3. page \in {Review, Supply} => Explained(fetch, 0)
      BY <2>1, <2>2, <3>2 DEF EmptyInv, Explained, AtLeastOne
    <3>4. page = Supply /\ ~thinned => Within(fetch) /\ view.nth <= AtLeastOne(Cardinality(Sought))
            /\ (view.search # view.term => view.nth = 1)
      BY <2>1 DEF EmptyInv
    <3>5. view.nth >= 1 /\ (page \in {Review, Supply} =>
            /\ \A c \in wire : c.kind # "status"
            /\ \A b \in begun : b.call.kind # "status"
            /\ \A a \in answers : a.call.kind # "status")
      BY DEF EmptyInv
    <3>6. QED BY <2>1, <3>1, <3>3, <3>4, <3>5, EmptyCarry
  <2>4. CASE ~InRange(fetch)
    <3>1. page = Review /\ shown' = None /\ view' = [view EXCEPT !.nth = IF fetch.total > 1 THEN fetch.total ELSE 1]
      BY <1>2, <2>4 DEF Arrive, InRange
    <3>2. view'.nth >= 1
      BY <2>2, <3>1 DEF TypeInv, ListTypes, Views
    <3>3. page # Supply
      BY <3>1, PagesAssumption
    <3>4. QED BY <2>1, <3>1, <3>2, <3>3, EmptyCarry DEF EmptyInv
  <2>5. QED BY <2>3, <2>4
<1>3. CASE ReadFails \/ Retry
  <2>1. Richer /\ UNCHANGED <<view, searched, shown, wire, begun, answers>> /\ fetch' \in {None, Asked}
    BY <1>0, <1>3 DEF ReadFails, Retry, server, net, tab, notes
  <2>2. QED BY <2>1, EmptyStays
<1>5. CASE Leave
  <2>1. Richer /\ UNCHANGED <<view, searched, shown, fetch>>
    BY <1>0, <1>5 DEF Leave, list, notes
  <2>2. ASSUME page \in {Review, Supply}
        PROVE  /\ \A c \in wire' : c.kind # "status"
               /\ \A b \in begun' : b.call.kind # "status"
               /\ \A a \in answers' : a.call.kind # "status"
    <3>1. \A c : IsMessage(c) => [c EXCEPT !.live = FALSE].kind = c.kind
      BY DEF IsMessage, Record
    <3>2. ASSUME NEW c \in wire' PROVE c.kind # "status"
      <4>1. PICK x \in wire : c = [x EXCEPT !.live = FALSE]
        BY <1>5 DEF Leave, Deserted
      <4>2. IsMessage(x) /\ x.kind # "status"
        BY <2>2 DEF TypeInv, Shapes, EmptyInv
      <4>3. QED BY <3>1, <4>1, <4>2
    <3>3. ASSUME NEW b \in begun' PROVE b.call.kind # "status"
      <4>1. PICK x \in begun : b = [x EXCEPT !.call.live = FALSE]
        BY <1>5 DEF Leave
      <4>2. IsBegun(x) /\ IsMessage(x.call) /\ x.call.kind # "status"
        BY <2>2 DEF TypeInv, Shapes, IsBegun, EmptyInv
      <4>3. QED BY <3>1, <4>1, <4>2, BegunFields
    <3>4. ASSUME NEW a \in answers' PROVE a.call.kind # "status"
      <4>1. PICK x \in answers : a = [x EXCEPT !.call.live = FALSE]
        BY <1>5 DEF Leave
      <4>2. IsAnswer(x) /\ IsMessage(x.call) /\ x.call.kind # "status"
        BY <2>2 DEF TypeInv, Shapes, IsAnswer, EmptyInv
      <4>3. QED BY <3>1, <4>1, <4>2, AnswerFields
    <3>5. QED BY <3>2, <3>3, <3>4
  <2>3. QED BY <2>1, <2>2, EmptyCarry DEF EmptyInv
<1>6. CASE Return
  <2>1. Richer /\ UNCHANGED <<wire, begun, answers>> /\ fetch' = Asked /\ view' = First /\ shown' \in {shown, None}
          /\ searched' = searched
    <3>1. First.term = None
      BY DEF First, View
    <3>2. QED BY <1>0a, <1>6, <3>1 DEF Return, server, net, notes
  <2>2. First.nth = 1 /\ First.search = First.term
    BY DEF First, View
  <2>3. page = Supply => Cardinality(Sought) \in Nat
    BY OffersCount DEF Sought
  <2>4. view'.nth = 1 /\ (page = Supply => view'.nth <= AtLeastOne(Cardinality(Sought)))
    BY <2>1, <2>2, <2>3 DEF AtLeastOne
  <2>5. QED BY <2>1, <2>2, <2>4, EmptyCarry DEF EmptyInv
<1>7. ASSUME NEW s \in StatusFilters, NEW t \in TermFilters(s), NEW n \in Offers, Turn([view EXCEPT !.status = s, !.term = t, !.nth = n])
      PROVE  EmptyInv'
  <2> DEFINE v == [view EXCEPT !.status = s, !.term = t, !.nth = n]
  <2>0. page = Supply => t = view.term
    BY PagesAssumption DEF TermFilters
  <2>1. view \in Views /\ v.nth = n /\ v.term = t /\ v.search = view.search /\ n \in Nat /\ n >= 1
    BY BoundsAssumption DEF TypeInv, ListTypes, Views, Offers
  <2> HIDE DEF v
  <2>2. /\ UNCHANGED <<wire, begun, answers, searched>> /\ fetch' = Asked /\ shown' \in {shown, None} /\ view' = v
        /\ thinned' = (thinned \/ (searched /\ n # 1)) /\ UNCHANGED <<page, supply, withdrawn>>
        /\ n = 1 \/ (shown # None /\ n <= shown.total)
    BY <1>7, <2>1 DEF v, Turn, Navigable, server, net, tab
  <2>3. Richer
    BY <1>0a, <2>0, <2>1, <2>2
  <2>4. ASSUME page = Supply, ~thinned'
        PROVE  n <= AtLeastOne(Cardinality(Sought)) /\ (searched => n = 1) /\ (v.search # v.term => searched)
    <3>1. Cardinality(Sought) \in Nat
      BY OffersCount DEF Sought
    <3>2. shown # None => shown.total \in Nat /\ (searched \/ shown.total <= Cardinality(Sought))
      BY <2>2, <2>4 DEF TypeInv, ListTypes, IsList, EmptyInv, Within
    <3>3. view.search # view.term => searched
      BY <2>2, <2>4 DEF EmptyInv
    <3>4. searched => n = 1
      BY <2>2, <2>4
    <3>5. n <= AtLeastOne(Cardinality(Sought))
      BY <2>1, <2>2, <3>1, <3>2, <3>4 DEF AtLeastOne
    <3>6. QED BY <2>0, <2>1, <2>4, <3>3, <3>4, <3>5
  <2>5. view'.nth >= 1 /\ (page \in {Review, Supply} => (shown' # None => Explained(shown', 0)))
    BY <2>1, <2>2 DEF EmptyInv
  <2>6. page = Supply /\ ~thinned' => (shown' # None => searched' \/ Within(shown'))
    BY <2>2 DEF EmptyInv
  <2>7. page \in {Review, Supply} =>
            /\ \A c \in wire' : c.kind # "status"
            /\ \A b \in begun' : b.call.kind # "status"
            /\ \A a \in answers' : a.call.kind # "status"
    BY <2>2 DEF EmptyInv
  <2>8. QED BY <2>1, <2>2, <2>3, <2>4, <2>5, <2>6, <2>7, EmptyCarry
<1>7a. ASSUME NEW t, Search(t) PROVE EmptyInv'
  <2>1. view \in Views
    BY DEF TypeInv, ListTypes
  <2>2. [view EXCEPT !.search = t, !.nth = 1].nth = 1 /\ [view EXCEPT !.search = t, !.nth = 1].term = view.term
    BY <2>1 DEF Views
  <2>3. /\ UNCHANGED <<page, supply, withdrawn, thinned, wire, begun, answers, shown>> /\ view'.nth = 1 /\ view'.term = view.term
        /\ searched' = TRUE /\ page = Supply /\ fetch' \in {fetch, Asked} /\ (fetch' = fetch \/ fetch' = Asked)
    BY <1>7a, <2>2 DEF Search, server, net, tab
  <2>4. Richer
    BY <1>0a, <2>3
  <2>5. Cardinality(Sought) \in Nat
    BY OffersCount DEF Sought
  <2>6. 1 <= AtLeastOne(Cardinality(Sought))
    BY <2>5 DEF AtLeastOne
  <2>7. fetch' \notin {None, Asked} => Explained(fetch', 1) /\ (~thinned => Within(fetch'))
    BY <2>3, PagesAssumption DEF EmptyInv, Explained
  <2>8. QED BY <2>3, <2>4, <2>6, <2>7, EmptyCarry DEF EmptyInv
<1>7b. CASE Debounce
  <2>1. view \in Views
    BY DEF TypeInv, ListTypes
  <2>2. LET v == [view EXCEPT !.term = view.search] IN v.nth = view.nth /\ v.term = view.search /\ v.search = view.search
    BY <2>1 DEF Views
  <2>3. /\ UNCHANGED <<page, withdrawn, thinned, searched, wire, begun, answers, shown>> /\ fetch' = Asked /\ page = Supply
        /\ view'.nth = view.nth /\ view'.search = view'.term /\ view.search # view.term
    BY <1>7b, <2>2 DEF Debounce, server, net, tab, notes
  <2>4. Cardinality(Sought') \in Nat
    BY OffersCount DEF Sought
  <2>5. ~thinned => searched /\ view.nth = 1
    BY <2>3 DEF EmptyInv
  <2>6. page = Supply /\ ~thinned => 1 <= AtLeastOne(Cardinality(Sought'))
    BY <2>4 DEF AtLeastOne
  <2>7. shown' # None => Explained(shown, 0)'
    BY <2>3 DEF EmptyInv, Explained
  <2>8. QED BY <2>3, <2>5, <2>6, <2>7 DEF EmptyInv
<1>8. ASSUME NEW kind, NEW i, Open(kind, i) PROVE EmptyInv'
  <2>1. Richer /\ UNCHANGED <<view, searched, shown, fetch, wire, begun, answers>>
    BY <1>0, <1>8 DEF Open, server, net, list, notes
  <2>2. QED BY <2>1, EmptyStays
<1>9. ASSUME (\E body : Type(body)) \/ Close \/ \E o : Select(o) PROVE EmptyInv'
  <2>1. Richer /\ UNCHANGED <<view, searched, shown, fetch, wire, begun, answers>>
    BY <1>0, <1>9 DEF Type, Close, Select, server, net, list, notes
  <2>2. QED BY <2>1, EmptyStays
<1>11. CASE Submit
  <2>1. Richer /\ UNCHANGED <<view, searched, shown, fetch, begun, answers>>
          /\ wire' = wire \cup {Message(dialog.kind, dialog.item, dialog)}
    BY <1>0, <1>11 DEF Submit, Call, server, list, notes
  <2>2. Message(dialog.kind, dialog.item, dialog).kind # "status"
    BY <1>11 DEF Submit, Message, TypeInv, DialogTypes, Dialogs
  <2>3. QED BY <2>1, <2>2, EmptyStays
<1>12. ASSUME NEW t, DeleteRate(t) PROVE EmptyInv'
  <2>1. Richer
    BY <1>0, <1>12 DEF DeleteRate, server, list, tab, notes
  <2>2. UNCHANGED <<view, searched, shown, fetch, begun, answers>>
    BY <1>12 DEF DeleteRate, server, list, notes
  <2>3. QED BY <1>12, <2>1, <2>2, PlainEmpty DEF DeleteRate
<1>14. ASSUME NEW o, DeleteOffer(o) PROVE EmptyInv'
  <2>1. Richer
    BY <1>0, <1>14 DEF DeleteOffer, server, list, tab, notes
  <2>2. UNCHANGED <<view, searched, shown, fetch, begun, answers>>
    BY <1>14 DEF DeleteOffer, server, list, notes
  <2>3. QED BY <1>14, <2>1, <2>2, PlainEmpty DEF DeleteOffer
<1>15. ASSUME NEW o, NEW s, Patch(o, s) PROVE EmptyInv'
  <2>1. Richer
    BY <1>0, <1>15 DEF Patch, server, list, tab, notes
  <2>2. UNCHANGED <<view, searched, shown, fetch, begun, answers>>
    BY <1>15 DEF Patch, server, list, notes
  <2>3. QED BY <1>15, <2>1, <2>2, PlainEmpty DEF Patch
<1>16. ASSUME NEW r, ChangeStatus(r) PROVE EmptyInv'
  <2>1. Richer /\ page \notin {Review, Supply} /\ view' = view
    BY <1>0, <1>16, PagesAssumption DEF ChangeStatus, StatusSwitch, server, tab, notes
  <2>2. QED BY <2>1, EmptyCarry DEF EmptyInv
<1>17. ASSUME NEW c \in wire, SaveRate(c) PROVE EmptyInv'
  <2>1. Richer /\ UNCHANGED <<view, searched, shown, fetch, begun>> /\ \E ok : Served(c, ok)
    BY <1>0, <1>17 DEF SaveRate, list, tab, notes
  <2>2. QED BY <2>1, AnsweredEmpty DEF Served
<1>18. ASSUME NEW c \in wire, Begin(c) PROVE EmptyInv'
  <2>1. Richer /\ UNCHANGED <<view, searched, shown, fetch, answers>> /\ wire' = wire \ {c}
    BY <1>0, <1>18 DEF Begin, list, tab, notes
  <2>2. PICK r, row : begun' = begun \cup {[call |-> c, item |-> r, row |-> row]}
    BY <1>18 DEF Begin
  <2>3. page \in {Review, Supply} => \A b \in begun' : b.call.kind # "status"
    BY <2>2 DEF EmptyInv
  <2>4. QED BY <2>1, <2>3, EmptyCarry DEF EmptyInv
<1>19. ASSUME NEW c \in wire, Associate(c) PROVE EmptyInv'
  <2>1. UNCHANGED <<page, view, searched, shown, fetch, begun, withdrawn, thinned>> /\ \E ok : Served(c, ok)
    BY <1>19 DEF Associate, list, tab, notes
  <2>2. \A o \in Offers : supply[o] # None => supply'[o] # None
    BY <1>19, NoneAssumption DEF Associate, Active, TypeInv, RowTypes
  <2>3. Richer
    BY <2>1, <2>2 DEF Richer, Sought
  <2>4. QED BY <2>1, <2>3, AnsweredEmpty DEF Served
<1>20. ASSUME NEW c \in wire, SaveReview(c) PROVE EmptyInv'
  <2>1. Richer /\ UNCHANGED <<view, searched, shown, fetch, begun>>
    BY <1>0, <1>20 DEF SaveReview, list
  <2>2. page \in {Review, Supply} => \A a \in answers' : a.call.kind # "status"
    BY <1>20 DEF SaveReview, Answer, EmptyInv
  <2>3. QED BY <1>20, <2>1, <2>2, OutdatedEmpty DEF SaveReview
<1>21. ASSUME NEW c \in wire, DeleteReview(c) PROVE EmptyInv'
  <2>1. Richer /\ UNCHANGED <<view, searched, shown, fetch, begun>>
    BY <1>0, <1>21 DEF DeleteReview, list, notes
  <2>2. page \in {Review, Supply} => \A a \in answers' : a.call.kind # "status"
    BY <1>21 DEF DeleteReview, Answer, EmptyInv
  <2>3. QED BY <1>21, <2>1, <2>2, OutdatedEmpty DEF DeleteReview
<1>22. ASSUME NEW c \in wire, CreateTask(c) PROVE EmptyInv'
  <2>1. Richer /\ UNCHANGED <<view, searched, shown, fetch, begun>> /\ \E ok : Served(c, ok)
    BY <1>0, <1>22 DEF CreateTask, server, list, tab, notes
  <2>2. QED BY <2>1, AnsweredEmpty DEF Served
<1>23. ASSUME NEW b \in begun, Commit(b) PROVE EmptyInv'
  <2>1. Richer /\ UNCHANGED <<view, searched, shown, fetch, wire>> /\ begun' \subseteq begun
    BY <1>0, <1>23 DEF Commit, list, tab
  <2>2. page \in {Review, Supply} => \A a \in answers' : a.call.kind # "status"
    BY <1>23 DEF Commit, Answer, EmptyInv
  <2>3. QED BY <2>1, <2>2, EmptyCarry DEF EmptyInv
<1>24. CASE Other
  <2>0. UNCHANGED <<view, searched, shown, fetch, page>>
    BY <1>24 DEF Other, OtherRates, OtherMaterials, OtherSupply, OtherReviews, list, notes
  <2>1. ASSUME NEW t, OtherRates(t) PROVE EmptyInv'
    <3>1. Richer /\ UNCHANGED <<wire, begun, answers>>
      BY <1>0, <2>0, <2>1 DEF OtherRates, net, notes
    <3>2. QED BY <2>0, <3>1, EmptyStays
  <2>2. ASSUME NEW r, OtherMaterials(r) PROVE EmptyInv'
    <3>1. Richer /\ UNCHANGED <<wire, begun, answers>>
      BY <1>0, <2>0, <2>2 DEF OtherMaterials, net
    <3>2. QED BY <2>0, <3>1, EmptyStays
  <2>3. ASSUME NEW o, OtherSupply(o) PROVE EmptyInv'
    <3>1. UNCHANGED <<wire, begun, answers>>
      BY <2>3 DEF OtherSupply, net
    <3>2. CASE UNCHANGED supply /\ Withdraw(o)
      <4>1. Richer
        BY <2>0, <3>2 DEF Richer, Withdraw
      <4>2. QED BY <2>0, <3>1, <4>1, EmptyStays
    <3>3. CASE UNCHANGED <<withdrawn, thinned>> /\ supply' \in {[supply EXCEPT ![o] = r] : r \in Active}
      <4>1. \A q \in Offers : supply[q] # None => supply'[q] # None
        BY <3>3, NoneAssumption DEF Active, TypeInv, RowTypes
      <4>2. Richer
        BY <2>0, <3>3, <4>1 DEF Richer, Sought
      <4>3. QED BY <2>0, <3>1, <4>2, EmptyStays
    <3>4. QED BY <2>3, <3>2, <3>3 DEF OtherSupply
  <2>4. ASSUME NEW o, OtherReviews(o) PROVE EmptyInv'
    <3>1. Richer /\ UNCHANGED <<begun, answers>> /\ Outdated(o, wire, FALSE)
      BY <1>0, <2>0, <2>4 DEF OtherReviews, notes
    <3>2. QED BY <2>0, <3>1, OutdatedEmpty DEF EmptyInv
  <2>5. QED BY <1>24, <2>1, <2>2, <2>3, <2>4 DEF Other
<1>25. CASE Lose
  <2>0. Richer /\ UNCHANGED <<view, searched, shown, fetch, begun>>
    BY <1>0, <1>25 DEF Lose, server, list, tab
  <2>1. ASSUME NEW c \in wire, wire' \in {wire \ {c}, (wire \ {c}) \cup {[c EXCEPT !.gone = TRUE]}},
               answers' = answers \cup {[call |-> c, ok |-> FALSE, done |-> FALSE]}
        PROVE  EmptyInv'
    <3>1. [c EXCEPT !.gone = TRUE].kind = c.kind
      BY DEF TypeInv, Shapes, IsMessage, Record
    <3>2. page \in {Review, Supply} => (\A x \in wire' : x.kind # "status") /\ \A a \in answers' : a.call.kind # "status"
      <4>1. ASSUME page \in {Review, Supply}, NEW a \in answers' PROVE a.call.kind # "status"
        <5>1. a \in answers \/ a = [call |-> c, ok |-> FALSE, done |-> FALSE]
          BY <2>1
        <5>2. QED BY <4>1, <5>1 DEF EmptyInv
      <4>2. QED BY <2>1, <3>1, <4>1 DEF EmptyInv
    <3>3. QED BY <2>0, <3>2, EmptyCarry DEF EmptyInv
  <2>2. ASSUME NEW a \in answers, answers' = (answers \ {a}) \cup {[a EXCEPT !.ok = FALSE]}, UNCHANGED wire
        PROVE  EmptyInv'
    <3>1. [a EXCEPT !.ok = FALSE].call = a.call
      BY AnswerFields DEF TypeInv, Shapes
    <3>2. page \in {Review, Supply} => \A x \in answers' : x.call.kind # "status"
      BY <2>2, <3>1 DEF EmptyInv
    <3>3. QED BY <2>0, <2>2, <3>2, EmptyCarry DEF EmptyInv
  <2>3. QED BY <1>25, <2>1, <2>2 DEF Lose
<1>26. ASSUME NEW a \in answers, Succeeded(a) \/ Refused(a) PROVE EmptyInv'
  <2>1. [a EXCEPT !.done = TRUE].call = a.call
    BY AnswerFields DEF TypeInv, Shapes
  <2>2. Richer /\ UNCHANGED <<view, searched, wire, begun>> /\ fetch' \in {fetch, Asked} /\ answers' = (answers \ {a}) \cup {[a EXCEPT !.done = TRUE]}
    BY <1>0, <1>26 DEF Succeeded, Refused, Again, Over, server, tab, notes
  <2>3. page \in {Review, Supply} => \A x \in answers' : x.call.kind # "status"
    BY <2>1, <2>2 DEF EmptyInv
  <2>4. page \in {Review, Supply} => shown' = shown
    BY <1>26 DEF Succeeded, Refused, PutBack, EmptyInv
  <2>5. QED BY <2>2, <2>3, <2>4, EmptyCarry DEF EmptyInv
<1>27. ASSUME NEW a \in answers, Finish(a) PROVE EmptyInv'
  <2>1. Richer /\ UNCHANGED <<view, searched, shown, fetch, begun>> /\ answers' \subseteq answers
    BY <1>0, <1>27 DEF Finish, server, list
  <2>2. [a.call EXCEPT !.kind = "refresh", !.nth = calls].kind # "status"
    BY DEF TypeInv, Shapes, IsAnswer, IsMessage, Record
  <2>3. page \in {Review, Supply} => \A c \in wire' : c.kind # "status"
    BY <1>27, <2>2 DEF Finish, Call, EmptyInv
  <2>4. QED BY <2>1, <2>3, EmptyCarry DEF EmptyInv
<1>28. QED
  BY <1>1, <1>2, <1>3, <1>5, <1>6, <1>7, <1>7a, <1>7b, <1>8, <1>9, <1>11, <1>12, <1>14, <1>15, <1>16, <1>17, <1>18, <1>19, <1>20,
     <1>21, <1>22, <1>23, <1>24, <1>25, <1>26, <1>27 DEF Next

LEMMA InitEmpty == Init => EmptyInv
<1>1. SUFFICES ASSUME Init PROVE EmptyInv
  OBVIOUS
<1>2. First.nth = 1 /\ First.search = First.term
  BY DEF First, View
<1>3. Cardinality(Sought) \in Nat
  BY OffersCount DEF Sought
<1>4. 1 <= AtLeastOne(Cardinality(Sought))
  BY <1>3 DEF AtLeastOne
<1>5. /\ view = First /\ shown = None /\ fetch = Asked /\ withdrawn = {} /\ ~searched
      /\ wire = {} /\ begun = {} /\ answers = {}
  BY <1>1 DEF Init
<1>6. QED BY <1>2, <1>4, <1>5 DEF EmptyInv

LEMMA EmptyKept == TypeInv /\ TypeInv' /\ EmptyInv /\ [Next]_vars => EmptyInv'
<1>1. ASSUME TypeInv, TypeInv', EmptyInv, UNCHANGED vars PROVE EmptyInv'
  <2>1. Richer /\ UNCHANGED <<view, searched, shown, fetch, wire, begun, answers>>
    BY <1>1 DEF vars, server, net, list, tab, notes, Richer, Sought
  <2>2. QED BY <1>1, <2>1, EmptyStays
<1>2. QED BY <1>1, StepEmpty

\* A page of reviews or of supplier offers that is shown empty means that no offer
\* matches its filter, except among the supplier offers after one was withdrawn, or
\* after the page was turned while the offers of another search were still shown: a
\* page of reviews beyond the last is asked again, what is typed in the search goes
\* back to the first page at once, and otherwise no page of supplier offers is asked
\* for that was not there.
THEOREM EmptyMeansNone == Spec => []NoEmptyPage
<1>1. Init => TypeInv /\ EmptyInv
  BY InitTypes, InitEmpty
<1>2. TypeInv /\ EmptyInv /\ [Next]_vars => (TypeInv /\ EmptyInv)'
  BY StepTyped, EmptyKept
<1>3. TypeInv /\ EmptyInv => NoEmptyPage
  BY DEF TypeInv, ListTypes, IsList, EmptyInv, Explained, NoEmptyPage
<1>4. QED BY <1>1, <1>2, <1>3, PTL DEF Spec

-----------------------------------------------------------------------------
(* Reviews *)

\* A call is awaited, and a dialog is open, only on the page that shows them.
HereInv ==
  /\ dialog # None => here
  /\ \A c \in wire : c.live => here
  /\ \A b \in begun : b.call.live => here
  /\ \A a \in answers : a.call.live => here

LEMMA GoneHere ==
  ASSUME TypeInv, HereInv, ~here, UNCHANGED <<dialog, begun>>, NEW c \in wire, wire' \subseteq wire,
         NEW ok, answers' = answers \cup Answer(c, ok)
  PROVE  HereInv'
<1>1. ~c.live
  BY DEF HereInv, TypeInv, CallTypes, Typed
<1>2. \A a \in Answer(c, ok) : ~a.call.live
  BY <1>1 DEF Answer
<1>3. QED BY <1>2 DEF HereInv

LEMMA StepHere ==
  ASSUME TypeInv, TypeInv', HereInv, Next
  PROVE  HereInv'
<1>1. CASE here'
  BY <1>1 DEF HereInv
<1>2. CASE Leave
  <2>1. \A c : IsMessage(c) => ~[c EXCEPT !.live = FALSE].live
    BY LiveFields
  <2>2. ASSUME NEW c \in wire' PROVE ~c.live
    <3>1. PICK x \in wire : c = [x EXCEPT !.live = FALSE]
      BY <1>2 DEF Leave, Deserted
    <3>2. IsMessage(x)
      BY DEF TypeInv, Shapes
    <3>3. QED BY <2>1, <3>1, <3>2
  <2>3. ASSUME NEW b \in begun' PROVE ~b.call.live
    <3>1. PICK x \in begun : b = [x EXCEPT !.call.live = FALSE]
      BY <1>2 DEF Leave
    <3>2. IsBegun(x) /\ IsMessage(x.call)
      BY DEF TypeInv, Shapes, IsBegun
    <3>3. b.call = [x.call EXCEPT !.live = FALSE]
      BY <3>1, <3>2, BegunFields
    <3>4. QED BY <2>1, <3>2, <3>3
  <2>4. ASSUME NEW a \in answers' PROVE ~a.call.live
    <3>1. PICK x \in answers : a = [x EXCEPT !.call.live = FALSE]
      BY <1>2 DEF Leave
    <3>2. IsAnswer(x) /\ IsMessage(x.call)
      BY DEF TypeInv, Shapes, IsAnswer
    <3>3. QED BY <2>1, <3>1, <3>2, AnswerFields
  <2>5. dialog' = None
    BY <1>2 DEF Leave
  <2>6. QED BY <2>2, <2>3, <2>4, <2>5 DEF HereInv
<1>3. ASSUME ~here', ~Leave PROVE HereInv'
  <2>0. ~here /\ dialog = None
    <3>1. here' = here
      BY <1>3 DEF Next, Reading, Arrive, ReadFails, Retry, Return, Turn, Search, Debounce, Open, Type, Close, Submit,
         DeleteRate, Select, DeleteOffer, Patch, ChangeStatus, SaveRate, Begin, Associate, SaveReview, DeleteReview,
         CreateTask, Commit, Other, Lose, Succeeded, Refused, Finish, tab
    <3>2. QED BY <1>3, <3>1 DEF HereInv
  <2>1. CASE Reading \/ Arrive \/ ReadFails \/ Other
    <3>1. UNCHANGED <<begun, answers>> /\ dialog' = None
      BY <2>0, <2>1 DEF Reading, Arrive, ReadFails, Other, OtherRates, OtherMaterials, OtherSupply, OtherReviews, Outdated,
         server, net, tab
    <3>2. UNCHANGED wire \/ \E o \in Offers : OtherReviews(o)
      BY <2>1 DEF Reading, Arrive, ReadFails, Other, OtherRates, OtherMaterials, OtherSupply, net
    <3>3. ASSUME NEW o, OtherReviews(o), NEW c \in wire' PROVE ~c.live
      <4>1. Outdated(o, wire, FALSE)
        BY <3>3 DEF OtherReviews
      <4>2. PICK x \in wire : c = x \/ c = [x EXCEPT !.stale = TRUE]
        BY <4>1 DEF Outdated
      <4>3. IsMessage(x) /\ ~x.live
        BY <2>0 DEF HereInv, TypeInv, Shapes
      <4>4. QED BY <4>2, <4>3, StaleFields
    <3>4. QED BY <2>0, <3>1, <3>2, <3>3 DEF HereInv
  <2>2. ASSUME NEW c \in wire, SaveRate(c) \/ Associate(c) \/ CreateTask(c) PROVE HereInv'
    <3>1. UNCHANGED <<dialog, begun>> /\ \E ok : Served(c, ok)
      BY <2>2 DEF SaveRate, Associate, CreateTask, server, tab
    <3>2. QED BY <2>0, <3>1, GoneHere DEF Served
  <2>3. ASSUME NEW c \in wire, SaveReview(c) \/ DeleteReview(c) PROVE HereInv'
    <3>1. dialog' = None /\ begun' = begun /\ answers' = answers \cup Answer(c, reviews[c.item] # None)
      BY <2>0, <2>3 DEF SaveReview, DeleteReview, Outdated
    <3>2. PICK known : Outdated(c.item, wire \ {c}, known)
      BY <2>3 DEF SaveReview, DeleteReview
    <3>3. ASSUME NEW d \in wire' PROVE ~d.live
      <4>1. PICK x \in wire : d = x \/ d = [x EXCEPT !.stale = TRUE]
        BY <3>2 DEF Outdated
      <4>2. IsMessage(x) /\ ~x.live
        BY <2>0 DEF HereInv, TypeInv, Shapes
      <4>3. QED BY <4>1, <4>2, StaleFields
    <3>4. \A a \in Answer(c, reviews[c.item] # None) : ~a.call.live
      BY <2>0 DEF Answer, HereInv
    <3>5. QED BY <2>0, <3>1, <3>3, <3>4 DEF HereInv
  <2>4. ASSUME NEW c \in wire, Begin(c) PROVE HereInv'
    <3>1. PICK r, row : begun' = begun \cup {[call |-> c, item |-> r, row |-> row]}
      BY <2>4 DEF Begin
    <3>2. wire' = wire \ {c} /\ UNCHANGED <<answers, dialog>>
      BY <2>4 DEF Begin, tab
    <3>3. \A b \in begun' : ~b.call.live
      BY <2>0, <3>1 DEF HereInv
    <3>4. QED BY <2>0, <3>2, <3>3 DEF HereInv
  <2>5. ASSUME NEW b \in begun, Commit(b) PROVE HereInv'
    <3>1. begun' = begun \ {b} /\ answers' = answers \cup Answer(b.call, TRUE) /\ UNCHANGED <<wire, dialog>>
      BY <2>5 DEF Commit, tab
    <3>2. \A a \in Answer(b.call, TRUE) : ~a.call.live
      BY <2>0 DEF Answer, HereInv
    <3>3. QED BY <2>0, <3>1, <3>2 DEF HereInv
  <2>6. CASE Lose
    <3>1. UNCHANGED <<begun, dialog>>
      BY <2>6 DEF Lose, server, tab
    <3>2. ASSUME NEW c \in wire, wire' \in {wire \ {c}, (wire \ {c}) \cup {[c EXCEPT !.gone = TRUE]}},
                 answers' = answers \cup {[call |-> c, ok |-> FALSE, done |-> FALSE]}
          PROVE  HereInv'
      <4>1. [c EXCEPT !.gone = TRUE].live = c.live /\ ~c.live
        BY <2>0 DEF HereInv, TypeInv, Shapes, IsMessage, Record
      <4>2. ASSUME NEW a \in answers' PROVE ~a.call.live
        <5>1. a \in answers \/ a = [call |-> c, ok |-> FALSE, done |-> FALSE]
          BY <3>2
        <5>2. QED BY <2>0, <4>1, <5>1 DEF HereInv
      <4>3. QED BY <2>0, <3>1, <3>2, <4>1, <4>2 DEF HereInv
    <3>3. ASSUME NEW a \in answers, answers' = (answers \ {a}) \cup {[a EXCEPT !.ok = FALSE]}, UNCHANGED wire PROVE HereInv'
      <4>1. [a EXCEPT !.ok = FALSE].call = a.call
        BY AnswerFields DEF TypeInv, Shapes
      <4>2. QED BY <2>0, <3>1, <3>3, <4>1 DEF HereInv
    <3>4. QED BY <2>6, <3>2, <3>3 DEF Lose
  <2>7. ASSUME NEW a \in answers, Succeeded(a) \/ Refused(a) PROVE HereInv'
    <3>1. [a EXCEPT !.done = TRUE].call = a.call
      BY AnswerFields DEF TypeInv, Shapes
    <3>2. UNCHANGED <<wire, begun, dialog>> /\ answers' = (answers \ {a}) \cup {[a EXCEPT !.done = TRUE]}
      BY <2>7 DEF Succeeded, Refused, Over, server, tab
    <3>3. QED BY <2>0, <3>1, <3>2 DEF HereInv
  <2>8. ASSUME NEW a \in answers, Finish(a) PROVE HereInv'
    <3>1. UNCHANGED begun /\ dialog' = None /\ answers' \subseteq answers
            /\ (wire' = wire \/ wire' = wire \cup {[a.call EXCEPT !.kind = "refresh", !.nth = calls]})
      BY <2>0, <2>8 DEF Finish, Call, server
    <3>2. [a.call EXCEPT !.kind = "refresh", !.nth = calls].live = a.call.live
      BY DEF TypeInv, Shapes, IsAnswer, IsMessage, Record
    <3>3. QED BY <2>0, <3>1, <3>2 DEF HereInv
  <2>9. QED
    BY <1>3, <2>0, <2>1, <2>2, <2>3, <2>4, <2>5, <2>6, <2>7, <2>8
    DEF Next, Retry, Return, Turn, Search, Debounce, Open, Close, Submit, DeleteRate, Select, Visible, DeleteOffer, Patch,
        ChangeStatus, StatusSwitch
<1>4. QED BY <1>1, <1>2, <1>3

\* One change of a review is awaited at a time, and none while a review is edited.
Reviewing(c) == c.kind \in {"edit", "patch", "delete"}
Sent == {c \in wire : Reviewing(c) /\ Awaited(c)}

AloneInv ==
  /\ \A c \in wire : Reviewing(c) => page = Review
  /\ dialog # None /\ dialog.kind = "edit" => page = Review /\ Sent = {}
  /\ AtMostOne(Sent)

LEMMA AloneCarry ==
  ASSUME AloneInv, page' = page, dialog' \in {dialog, None}, NEW m, ~Reviewing(m), wire' \subseteq wire \cup {m}
  PROVE  AloneInv'
<1>1. Sent' \subseteq Sent
  BY DEF Sent, Reviewing, Awaited
<1>2. QED BY <1>1 DEF AloneInv, AtMostOne, Reviewing

LEMMA AloneStays ==
  ASSUME AloneInv, page' = page, dialog' \in {dialog, None}, wire' \subseteq wire
  PROVE  AloneInv'
<1>1. Sent' \subseteq Sent
  BY DEF Sent, Reviewing, Awaited
<1>2. QED BY <1>1 DEF AloneInv, AtMostOne, Reviewing

LEMMA PlainAlone ==
  ASSUME AloneInv, UNCHANGED <<page, dialog>>, NEW kind, kind \notin {"edit", "patch", "delete"}, NEW i, NEW body,
         Plain(kind, i, body)
  PROVE  AloneInv'
<1> DEFINE m == Message(kind, i, [body |-> body, new |-> FALSE, opening |-> calls, was |-> body.status, stale |-> FALSE])
<1>1. ~Reviewing(m)
  BY NewMessage DEF Reviewing
<1>2. wire' = wire \cup {m}
  BY DEF Plain, Call
<1> HIDE DEF m
<1>3. QED BY <1>1, <1>2, AloneCarry

LEMMA ReviewingAlone ==
  ASSUME AloneInv, page = Review, page' = page, dialog' = None, Sent = {}, NEW m, wire' = wire \cup {m}
  PROVE  AloneInv'
<1>1. Sent' \subseteq {m}
  BY DEF Sent, Reviewing, Awaited
<1>2. QED BY <1>1 DEF AloneInv, AtMostOne, Reviewing

LEMMA OutdatedAlone ==
  ASSUME TypeInv, AloneInv, page' = page, NEW o, NEW known, NEW calling \in SUBSET wire, Outdated(o, calling, known)
  PROVE  AloneInv'
<1>1. ASSUME NEW c \in wire'
      PROVE  \E x \in calling : c = Aged(x, o, known) /\ c.kind = x.kind /\ c.live = x.live /\ c.gone = x.gone
  <2>1. PICK x \in calling : c = Aged(x, o, known)
    BY OutdatedWire
  <2>2. IsMessage(x)
    BY DEF TypeInv, Shapes
  <2>3. c.kind = x.kind /\ c.live = x.live /\ c.gone = x.gone
    BY <2>1, <2>2, StaleFields DEF Aged
  <2>4. QED BY <2>1, <2>3
<1>2. \A c \in Sent' : \E x \in Sent : c = Aged(x, o, known)
  BY <1>1 DEF Sent, Reviewing, Awaited
<1>3. AtMostOne(Sent') /\ (Sent = {} => Sent' = {})
  BY <1>2 DEF AtMostOne, AloneInv
<1>4. \A c \in wire' : Reviewing(c) => page = Review
  BY <1>1 DEF AloneInv, Reviewing
<1>5. dialog' # None /\ dialog'.kind = "edit" => dialog # None /\ dialog.kind = "edit"
  BY DialogFields DEF Outdated, TypeInv, Shapes
<1>6. QED BY <1>3, <1>4, <1>5 DEF AloneInv, Reviewing

LEMMA BusyWhileSent == ~Busy => Sent = {}
BY DEF Busy, Waiting, Sent, Reviewing, Awaited

LEMMA StepAlone ==
  ASSUME TypeInv, TypeInv', AloneInv, Next
  PROVE  AloneInv'
<1>1. CASE Reading \/ Arrive \/ ReadFails \/ Retry \/ Return \/ (\E v : Turn(v)) \/ (\E t : Search(t)) \/ Debounce
             \/ Close \/ (\E o : Select(o))
  <2>1. page' = page /\ dialog' \in {dialog, None} /\ wire' = wire
    BY <1>1 DEF Reading, Arrive, ReadFails, Retry, Return, Turn, Search, Debounce, Close, Select, server, net, tab
  <2>2. QED BY <2>1, AloneStays
<1>5. CASE Leave
  <2>1. page' = page /\ dialog' = None /\ wire' = Deserted(wire)
    BY <1>5 DEF Leave
  <2>2. ASSUME NEW c \in wire' PROVE ~c.live /\ (Reviewing(c) => page = Review)
    <3>1. PICK x \in wire : c = [x EXCEPT !.live = FALSE]
      BY <2>1 DEF Deserted
    <3>2. IsMessage(x)
      BY DEF TypeInv, Shapes
    <3>3. ~c.live /\ c.kind = x.kind
      BY <3>1, <3>2, LiveFields
    <3>4. QED BY <3>3 DEF AloneInv, Reviewing
  <2>3. QED BY <2>1, <2>2 DEF AloneInv, Sent, Awaited, AtMostOne, Reviewing
<1>8. ASSUME NEW kind \in Kinds, NEW i \in Items, Open(kind, i) PROVE AloneInv'
  <2>1. UNCHANGED <<page, wire>> /\ dialog'.kind = kind /\ Offered(kind, i)
    BY <1>8 DEF Open, server, net
  <2>2. kind = "edit" => page = Review
    BY PagesAssumption DEF Kinds, TypeInv, Shapes, Pages
  <2>3. kind = "edit" => ~Busy
    BY <2>1, <2>2, PagesAssumption DEF Offered, ReviewButtons
  <2>4. Sent' = Sent
    BY <2>1 DEF Sent, Reviewing, Awaited
  <2>5. QED BY <2>1, <2>2, <2>3, <2>4, BusyWhileSent DEF AloneInv, Reviewing
<1>9. ASSUME dialog # None, NEW body \in Change(dialog), Type(body) PROVE AloneInv'
  <2>1. UNCHANGED <<page, wire>> /\ dialog'.kind = dialog.kind
    BY <1>9, DialogFields DEF Type, server, net, TypeInv, Shapes
  <2>2. Sent' = Sent
    BY <2>1 DEF Sent, Reviewing, Awaited
  <2>3. QED BY <1>9, <2>1, <2>2 DEF AloneInv, Reviewing
<1>11. CASE Submit
  <2> DEFINE m == Message(dialog.kind, dialog.item, dialog)
  <2>1. /\ dialog # None /\ wire' = wire \cup {m} /\ page' = page /\ m.kind = dialog.kind
        /\ dialog' = IF dialog.kind \in {"rate", "edit"} THEN None ELSE dialog
    BY <1>11, NewMessage DEF Submit, Call
  <2> HIDE DEF m
  <2>2. CASE dialog.kind = "edit"
    <3>1. page = Review /\ Sent = {} /\ dialog' = None
      BY <2>1, <2>2 DEF AloneInv
    <3>2. QED BY <2>1, <3>1, ReviewingAlone
  <2>3. CASE dialog.kind # "edit"
    <3>1. ~Reviewing(m)
      BY <2>1, <2>3 DEF Reviewing, TypeInv, DialogTypes, Dialogs
    <3>2. QED BY <2>1, <3>1, AloneCarry
  <2>4. QED BY <2>2, <2>3
<1>12. ASSUME NEW t, DeleteRate(t) PROVE AloneInv'
  <2>1. UNCHANGED <<page, dialog>> /\ Plain("unrate", t, Blank)
    BY <1>12 DEF DeleteRate, tab
  <2>2. QED BY <2>1, PlainAlone
<1>14. ASSUME NEW o, DeleteOffer(o) PROVE AloneInv'
  <2>1. page = Review /\ UNCHANGED <<page, dialog>> /\ dialog = None /\ ~Busy /\ \E m : wire' = wire \cup {m}
    BY <1>14 DEF DeleteOffer, Plain, Call, tab
  <2>2. QED BY <2>1, BusyWhileSent, ReviewingAlone
<1>15. ASSUME NEW o, NEW s, Patch(o, s) PROVE AloneInv'
  <2>1. page = Review /\ UNCHANGED <<page, dialog>> /\ dialog = None /\ ~Busy /\ \E m : wire' = wire \cup {m}
    BY <1>15 DEF Patch, Plain, Call, tab
  <2>2. QED BY <2>1, BusyWhileSent, ReviewingAlone
<1>16. ASSUME NEW r, ChangeStatus(r) PROVE AloneInv'
  <2>1. PICK c : c.kind = "status" /\ wire' = wire \cup {c}
    BY <1>16, StatusCall
  <2>2. UNCHANGED <<page, dialog>> /\ ~Reviewing(c)
    BY <1>16, <2>1 DEF ChangeStatus, tab, Reviewing
  <2>3. QED BY <2>1, <2>2, AloneCarry
<1>17. ASSUME NEW c \in wire, SaveRate(c) \/ Begin(c) \/ Associate(c) \/ CreateTask(c) PROVE AloneInv'
  <2>1. UNCHANGED <<page, dialog>> /\ wire' \subseteq wire
    BY <1>17 DEF SaveRate, Begin, Associate, CreateTask, Served, tab
  <2>2. QED BY <2>1, AloneStays
<1>20. ASSUME NEW c \in wire, SaveReview(c) \/ DeleteReview(c) PROVE AloneInv'
  <2>1. page' = page
    BY <1>20 DEF SaveReview, DeleteReview
  <2>2. PICK known : Outdated(c.item, wire \ {c}, known)
    BY <1>20 DEF SaveReview, DeleteReview
  <2>3. QED BY <2>1, <2>2, OutdatedAlone
<1>23. ASSUME NEW b \in begun, Commit(b) PROVE AloneInv'
  BY <1>23, AloneStays DEF Commit, tab
<1>24. CASE Other
  <2>1. page' = page
    BY <1>24 DEF Other
  <2>2. UNCHANGED <<dialog, wire>> \/ \E o \in Offers : Outdated(o, wire, FALSE)
    BY <1>24 DEF Other, OtherRates, OtherMaterials, OtherSupply, OtherReviews, net
  <2>3. QED BY <2>1, <2>2, AloneStays, OutdatedAlone
<1>25. CASE Lose
  <2>1. UNCHANGED <<page, dialog>>
    BY <1>25 DEF Lose, tab
  <2>2. ASSUME NEW c \in wire, wire' \in {wire \ {c}, (wire \ {c}) \cup {[c EXCEPT !.gone = TRUE]}} PROVE AloneInv'
    <3>1. LET d == [c EXCEPT !.gone = TRUE] IN d.kind = c.kind /\ d.gone = TRUE
      BY GoneFields DEF TypeInv, Shapes
    <3>2. Sent' \subseteq Sent
      BY <2>2, <3>1 DEF Sent, Reviewing, Awaited
    <3>3. \A x \in wire' : Reviewing(x) => page = Review
      BY <2>2, <3>1 DEF AloneInv, Reviewing
    <3>4. QED BY <2>1, <3>2, <3>3 DEF AloneInv, AtMostOne, Reviewing
  <2>3. QED BY <1>25, <2>1, <2>2, AloneStays DEF Lose
<1>26. ASSUME NEW a \in answers, Succeeded(a) \/ Refused(a) PROVE AloneInv'
  BY <1>26, AloneStays DEF Succeeded, Refused, server, tab
<1>27. ASSUME NEW a \in answers, Finish(a) PROVE AloneInv'
  <2>1. [a.call EXCEPT !.kind = "refresh", !.nth = calls].kind = "refresh"
    BY RefreshFields DEF TypeInv, Shapes, IsAnswer
  <2>2. page' = page /\ dialog' \in {dialog, None} /\ wire' \subseteq wire \cup {[a.call EXCEPT !.kind = "refresh", !.nth = calls]}
    BY <1>27 DEF Finish, Call
  <2>3. QED BY <2>1, <2>2, AloneCarry DEF Reviewing
<1>28. QED
  BY <1>1, <1>5, <1>8, <1>9, <1>11, <1>12, <1>14, <1>15, <1>16, <1>17, <1>20, <1>23, <1>24, <1>25, <1>26, <1>27 DEF Next

\* What this page changed last is known to it: the change is about to be told, the
\* list is about to be read again, or the list shows it; or its last reading failed.
Fresh(l, o) == o \in Offers \cap DOMAIN l.items => l.items[o] = reviews[o]
Revising(c) == c.kind \in {"edit", "patch"} /\ c.live
Told(o) == \E a \in answers : a.ok /\ ~a.done /\ Revising(a.call) /\ a.call.item = o
Due(o) == fetch # None /\ \E a \in answers : a.done /\ Revising(a.call) /\ a.call.item = o

KnownInv ==
  \A o \in ours :
    /\ page = Review /\ here
    /\ \/ Told(o)
       \/ /\ fetch \notin {None, Asked} => Fresh(fetch, o)
          /\ shown # None => Fresh(shown, o) \/ failed \/ Due(o)

LEMMA KnownCarry ==
  ASSUME KnownInv, UNCHANGED <<page, here, shown, fetch, failed>>, ours' \subseteq ours,
         \A o \in ours' : (o \in Offers => reviews'[o] = reviews[o]) /\ (Told(o) => Told(o)') /\ (Due(o) => Due(o)')
  PROVE  KnownInv'
BY DEF KnownInv, Fresh, Offers

\* More answers tell more.
LEMMA KnownStays ==
  ASSUME KnownInv, UNCHANGED <<page, here, shown, fetch, failed>>, ours' \subseteq ours,
         \A o \in ours' \cap Offers : reviews'[o] = reviews[o], answers \subseteq answers'
  PROVE  KnownInv'
<1>1. \A o : (Told(o) => Told(o)') /\ (Due(o) => Due(o)')
  BY DEF Told, Due, Revising
<1>2. QED BY <1>1, KnownCarry

LEMMA StepKnown ==
  ASSUME TypeInv, TypeInv', EmptyInv, HereInv, AloneInv, KnownInv, Next
  PROVE  KnownInv'
<1>0. page # Review => ours = {}
  BY DEF KnownInv
<1>1. CASE Reading
  <2>1. fetch = Asked /\ fetch' = Read /\ UNCHANGED <<page, here, shown, failed, ours, reviews, answers>>
    BY <1>1 DEF Reading, server, net, tab, notes
  <2>2. CASE page = Review
    <3>1. Read = ListOffers
      BY <2>2, PagesAssumption DEF Read
    <3>2. Nth(Matching, view.nth) \in SUBSET Offers /\ \A o \in Matching : reviews[o] \in ReviewRows
      BY DEF Nth, Matching, TypeInv, RowTypes
    <3>3. Cardinality(Matching) \in Nat
      BY OffersCount DEF Matching
    <3>4. [o \in Nth(Matching, view.nth) |-> reviews[o]] \in [Nth(Matching, view.nth) -> ReviewRows]
      BY <3>2 DEF Nth
    <3>5. ListOffers \in [items : [Nth(Matching, view.nth) -> ReviewRows], total : Nat]
      BY <3>3, <3>4 DEF ListOffers
    <3>6. Read # None
      BY <3>1, <3>2, <3>5, NoneAssumption
    <3>7. \A o : Fresh(ListOffers, o)
      BY DEF Fresh, ListOffers
    <3>8. \A o : (Told(o) => Told(o)') /\ (Due(o) => Due(o)')
      BY <2>1, <3>6 DEF Told, Due
    <3>9. QED BY <2>1, <3>1, <3>7, <3>8 DEF KnownInv, Fresh, Offers
  <2>3. QED BY <1>0, <2>1, <2>2 DEF KnownInv
<1>2. CASE Arrive
  <2>1. fetch \notin {None, Asked} /\ failed' = FALSE /\ UNCHANGED <<page, here, reviews, answers>>
    BY <1>2 DEF Arrive, server, net
  <2>2. CASE InRange(fetch)
    <3>1. shown' = fetch /\ fetch' = None /\ ours' = ours
      BY <1>2, <2>2 DEF Arrive
    <3>2. \A o : Told(o) => Told(o)'
      BY <2>1 DEF Told
    <3>3. QED BY <2>1, <3>1, <3>2 DEF KnownInv, Fresh, Offers
  <2>3. CASE ~InRange(fetch)
    BY <1>2, <2>3 DEF Arrive, KnownInv
  <2>4. QED BY <2>2, <2>3
<1>3. CASE ReadFails
  <2>1. fetch' = None /\ failed' = TRUE /\ UNCHANGED <<page, here, answers, ours>>
    BY <1>3 DEF ReadFails, server, net, tab, notes
  <2>2. \A o : Told(o) => Told(o)'
    BY <2>1 DEF Told
  <2>3. QED BY <2>1, <2>2 DEF KnownInv
<1>4. CASE Retry
  <2>1. fetch' = Asked /\ failed /\ UNCHANGED <<page, here, shown, failed, answers, ours>>
    BY <1>4 DEF Retry, server, net, tab, notes
  <2>2. \A o : Told(o) => Told(o)'
    BY <2>1 DEF Told
  <2>3. QED BY <2>1, <2>2 DEF KnownInv
<1>5. CASE Leave \/ \E v : Turn(v)
  BY <1>5 DEF Leave, Turn, KnownInv
<1>6. CASE Return \/ (\E t : Search(t)) \/ Debounce \/ \E r : ChangeStatus(r)
  <2>1. ours = {}
    BY <1>0, <1>6, PagesAssumption DEF Return, Search, Debounce, ChangeStatus, StatusSwitch, KnownInv
  <2>2. ours' = ours
    BY <1>6 DEF Return, Search, Debounce, ChangeStatus, notes
  <2>3. QED BY <2>1, <2>2 DEF KnownInv
<1>8. CASE (\E kind, i : Open(kind, i)) \/ (\E body : Type(body)) \/ Close \/ \E o : Select(o)
  BY <1>8, KnownStays DEF Open, Type, Close, Select, server, net, list, notes
<1>11. CASE Submit
  BY <1>11, KnownStays DEF Submit, server, list, notes
<1>12. CASE (\E t : DeleteRate(t)) \/ (\E o : DeleteOffer(o)) \/ \E o, t : Patch(o, t)
  BY <1>12, KnownStays DEF DeleteRate, DeleteOffer, Patch, server, list, tab, notes
<1>17. ASSUME NEW c \in wire, SaveRate(c) \/ Begin(c) \/ Associate(c) \/ CreateTask(c) PROVE KnownInv'
  <2>1. UNCHANGED <<page, here, shown, fetch, failed, ours, reviews>> /\ answers \subseteq answers'
    BY <1>17 DEF SaveRate, Begin, Associate, CreateTask, Served, server, list, tab, notes
  <2>2. QED BY <2>1, KnownStays
<1>20. ASSUME NEW c \in wire, SaveReview(c) PROVE KnownInv'
  <2>1. UNCHANGED <<page, here, shown, fetch, failed>> /\ answers' = answers \cup Answer(c, reviews[c.item] # None)
    BY <1>20 DEF SaveReview, list
  <2>2. \A o \in Offers : o # c.item => reviews'[o] = reviews[o]
    <3>1. reviews \in [Offers -> {None} \cup ReviewRows] /\ reviews' \in [Offers -> {None} \cup ReviewRows]
      BY DEF TypeInv, RowTypes
    <3>2. reviews' = reviews \/ \E row : reviews' = [reviews EXCEPT ![c.item] = row]
      BY <1>20 DEF SaveReview
    <3>3. QED BY <3>1, <3>2
  <2>3. \A o : (Told(o) => Told(o)') /\ (Due(o) => Due(o)')
    BY <2>1 DEF Told, Due, Revising
  <2>4. CASE Awaited(c) /\ reviews[c.item] # None
    <3>1. ours' = ours \cup {c.item} /\ Revising(c) /\ page = Review /\ here
      BY <1>20, <2>4 DEF SaveReview, Revising, Awaited, AloneInv, Reviewing, HereInv
    <3>2. [call |-> c, ok |-> TRUE, done |-> FALSE] \in answers'
      BY <2>1, <2>4 DEF Answer, Awaited
    <3>3. Told(c.item)'
      BY <3>1, <3>2 DEF Told, Revising
    <3>4. QED BY <2>1, <2>2, <2>3, <3>1, <3>3 DEF KnownInv, Fresh, Offers
  <2>5. CASE ~(Awaited(c) /\ reviews[c.item] # None)
    <3>1. ours' = ours \ {c.item}
      BY <1>20, <2>5 DEF SaveReview
    <3>2. QED BY <2>1, <2>2, <2>3, <3>1, KnownCarry
  <2>6. QED BY <2>4, <2>5
<1>21. ASSUME NEW c \in wire, DeleteReview(c) PROVE KnownInv'
  <2>1. /\ UNCHANGED <<page, here, shown, fetch, failed>> /\ answers' = answers \cup Answer(c, reviews[c.item] # None)
        /\ ours' = ours \ {c.item} /\ reviews' = [reviews EXCEPT ![c.item] = None]
    BY <1>21 DEF DeleteReview, list
  <2>2. \A o \in Offers : o # c.item => reviews'[o] = reviews[o]
    <3>1. reviews \in [Offers -> {None} \cup ReviewRows] /\ reviews' \in [Offers -> {None} \cup ReviewRows]
      BY DEF TypeInv, RowTypes
    <3>2. reviews' = reviews \/ \E row : reviews' = [reviews EXCEPT ![c.item] = row]
      BY <2>1
    <3>3. QED BY <3>1, <3>2
  <2>3. QED BY <2>1, <2>2, KnownStays
<1>23. ASSUME NEW b \in begun, Commit(b) PROVE KnownInv'
  BY <1>23, KnownStays DEF Commit, list, tab
<1>24. CASE Other
  <2>0. UNCHANGED <<page, here, shown, fetch, failed>>
    BY <1>24 DEF Other, list
  <2>1. ASSUME NEW o, OtherReviews(o) PROVE KnownInv'
    <3>1. answers' = answers /\ ours' = ours \ {o} /\ \E row : reviews' = [reviews EXCEPT ![o] = row]
      BY <2>1 DEF OtherReviews
    <3>2. \A q \in Offers : q # o => reviews'[q] = reviews[q]
      <4>1. reviews \in [Offers -> {None} \cup ReviewRows]
        BY DEF TypeInv, RowTypes
      <4>2. QED BY <3>1, <4>1
    <3>3. QED BY <2>0, <3>1, <3>2, KnownStays
  <2>2. CASE UNCHANGED <<answers, ours, reviews>>
    BY <2>0, <2>2, KnownStays
  <2>3. QED BY <1>24, <2>1, <2>2 DEF Other, OtherRates, OtherMaterials, OtherSupply, net, notes
<1>25. CASE Lose
  <2>0. UNCHANGED <<page, here, shown, fetch, failed, reviews>>
    BY <1>25 DEF Lose, server, list, tab
  <2>1. ASSUME NEW c, answers' = answers \cup {[call |-> c, ok |-> FALSE, done |-> FALSE]}, UNCHANGED ours PROVE KnownInv'
    BY <2>0, <2>1, KnownStays
  <2>2. ASSUME NEW a \in answers, a.ok, ~a.done, answers' = (answers \ {a}) \cup {[a EXCEPT !.ok = FALSE]},
               ours' = ours \ {a.call.item}
        PROVE  KnownInv'
    <3>1. \A o \in ours' : (Told(o) => Told(o)') /\ (Due(o) => Due(o)')
      BY <2>0, <2>2 DEF Told, Due, Revising
    <3>2. QED BY <2>0, <2>2, <3>1, KnownCarry
  <2>3. QED BY <1>25, <2>1, <2>2 DEF Lose
<1>26. ASSUME NEW a \in answers, Succeeded(a) PROVE KnownInv'
  <2> DEFINE x == [a EXCEPT !.done = TRUE]
  <2>1. x.call = a.call /\ x.done = TRUE
    BY AnswerFields DEF TypeInv, Shapes, IsAnswer, Record
  <2> HIDE DEF x
  <2>2. /\ a.ok /\ ~a.done /\ answers' = (answers \ {a}) \cup {x} /\ UNCHANGED <<page, here, shown, failed, ours, reviews>>
        /\ IF a.call.kind \in {"retrieve", "refresh"} THEN UNCHANGED fetch ELSE fetch' = IF here THEN Asked ELSE fetch
    BY <1>26 DEF x, Succeeded, Over, Again, server, tab, notes
  <2>3. ASSUME NEW o \in ours, Told(o) PROVE Told(o)' \/ (Due(o)' /\ fetch' = Asked)
    <3>1. PICK y \in answers : y.ok /\ ~y.done /\ Revising(y.call) /\ y.call.item = o
      BY <2>3 DEF Told
    <3>2. CASE y = a
      <4>1. fetch' = Asked /\ fetch' # None
        BY <2>2, <3>1, <3>2, NoneAssumption DEF Revising, KnownInv
      <4>2. Due(o)'
        BY <2>1, <2>2, <3>1, <3>2, <4>1 DEF Due, Revising
      <4>3. QED BY <4>1, <4>2
    <3>3. CASE y # a
      BY <2>2, <3>1, <3>3 DEF Told, Revising
    <3>4. QED BY <3>2, <3>3
  <2>4. \A o \in ours : Due(o) => Due(o)'
    BY <2>2, NoneAssumption DEF Due, Revising
  <2>5. ASSUME NEW o \in ours', ~Told(o)'
        PROVE  /\ fetch' \notin {None, Asked} => Fresh(fetch, o)'
               /\ shown' # None => Fresh(shown, o)' \/ failed' \/ Due(o)'
    <3>1. CASE Told(o)
      BY <2>2, <2>3, <2>5, <3>1
    <3>2. CASE ~Told(o)
      BY <2>2, <2>4, <3>2 DEF KnownInv, Fresh, Offers
    <3>3. QED BY <3>1, <3>2
  <2>6. QED BY <2>2, <2>5 DEF KnownInv
<1>27. ASSUME NEW a \in answers, Refused(a) PROVE KnownInv'
  <2> DEFINE x == [a EXCEPT !.done = TRUE]
  <2>1. ~a.ok /\ ~a.done /\ answers' = (answers \ {a}) \cup {x} /\ UNCHANGED <<page, here, failed, ours, reviews>>
    BY <1>27 DEF Refused, Over, server, tab, notes
  <2>2. page = Review => UNCHANGED <<shown, fetch>>
    BY <1>27 DEF Refused, PutBack, EmptyInv
  <2> HIDE DEF x
  <2>3. page = Review => \A o : (Told(o) => Told(o)') /\ (Due(o) => Due(o)')
    BY <2>1, <2>2 DEF Told, Due, Revising
  <2>4. CASE page = Review
    BY <2>1, <2>2, <2>3, <2>4, KnownCarry
  <2>5. QED BY <1>0, <2>1, <2>4 DEF KnownInv
<1>28. ASSUME NEW a \in answers, Finish(a) PROVE KnownInv'
  <2>1. /\ a.done /\ (fetch = None \/ ~here) /\ answers' = answers \ {a}
        /\ UNCHANGED <<page, here, shown, fetch, failed, ours, reviews>>
    BY <1>28 DEF Finish, server, list
  <2>2. \A o \in ours : ~Due(o) /\ (Told(o) => Told(o)')
    BY <2>1 DEF KnownInv, Told, Due, Revising
  <2>3. QED BY <2>1, <2>2, KnownCarry
<1>29. QED
  BY <1>1, <1>2, <1>3, <1>4, <1>5, <1>6, <1>8, <1>11, <1>12, <1>17, <1>20, <1>21, <1>23, <1>24, <1>25, <1>26, <1>27, <1>28
  DEF Next

\* The review a message or a dialog began with is the one the Executor keeps,
\* unless it was told to be out of date.
Right(c) ==
  c.kind = "edit" =>
    /\ c.item \in Offers
    /\ ~c.stale /\ reviews[c.item] # None => reviews[c.item].status = c.was

RightInv ==
  /\ \A c \in wire : Right(c)
  /\ dialog # None => Right(dialog)
  /\ ~undone

\* Nothing of the reviews changes.
Aside ==
  /\ wire' \subseteq wire \cup {c \in wire' : c.kind # "edit"}
  /\ dialog' \in {dialog, None}
  /\ UNCHANGED <<reviews, undone>>

LEMMA AsideKeeps ==
  ASSUME RightInv, Aside
  PROVE  RightInv'
BY DEF RightInv, Aside, Right, Offers

LEMMA PlainAside ==
  ASSUME RightInv, NEW kind, kind # "edit", NEW i, NEW body, Plain(kind, i, body), UNCHANGED <<dialog, reviews, undone>>
  PROVE  RightInv'
<1> DEFINE m == Message(kind, i, [body |-> body, new |-> FALSE, opening |-> calls, was |-> body.status, stale |-> FALSE])
<1>1. m.kind = kind
  BY NewMessage
<1>2. wire' = wire \cup {m}
  BY DEF Plain, Call
<1>3. QED BY <1>1, <1>2, AsideKeeps DEF Aside

\* A change of a review leaves the others right, and what is told to be out of date.
\* What is not told so is a call that is awaited beside the one that changes it, which
\* no two calls are, or a dialog that is open beside it.
LEMMA OutdatedRight ==
  ASSUME TypeInv, RightInv, NEW o, NEW known, NEW calling \in SUBSET wire, Outdated(o, calling, known),
         \A q \in Offers \ {o} : reviews'[q] = reviews[q], ~undone',
         known => (\A c \in calling : Awaited(c) => c.kind # "edit") /\ (dialog # None => dialog.kind # "edit")
  PROVE  RightInv'
<1>1. \A c \in wire' : Right(c)'
  <2>1. TAKE c \in wire'
  <2>2. PICK x \in calling : c = Aged(x, o, known)
    BY OutdatedWire
  <2>3. IsMessage(x) /\ Right(x)
    BY DEF TypeInv, Shapes, RightInv
  <2>4. CASE x.item = o /\ ~(known /\ Awaited(x))
    BY <2>2, <2>3, <2>4, StaleFields DEF Aged, Right, Offers
  <2>5. CASE x.item # o
    BY <2>2, <2>3, <2>5 DEF Aged, Right, Offers
  <2>6. CASE known /\ Awaited(x)
    <3>1. x.kind # "edit"
      BY <2>6
    <3>2. c.kind = x.kind
      BY <2>2, <2>3, StaleFields DEF Aged
    <3>3. QED BY <3>1, <3>2 DEF Right
  <2>7. QED BY <2>4, <2>5, <2>6
<1>2. dialog' # None => Right(dialog)'
  <2>1. CASE dialog # None /\ dialog.item = o /\ ~known
    BY <2>1, DialogFields DEF Outdated, RightInv, TypeInv, Shapes, Right, Offers
  <2>2. CASE dialog # None /\ dialog.item # o
    BY <2>2 DEF Outdated, RightInv, Right, Offers
  <2>3. CASE dialog # None /\ known
    BY <2>3 DEF Outdated, Right
  <2>4. CASE dialog = None
    BY <2>4 DEF Outdated
  <2>5. QED BY <2>1, <2>2, <2>3, <2>4
<1>3. QED BY <1>1, <1>2 DEF RightInv

LEMMA StepRight ==
  ASSUME TypeInv, TypeInv', AloneInv, KnownInv, RightInv, Next
  PROVE  RightInv'
<1>1. CASE Reading
  BY <1>1, AsideKeeps DEF Aside, Reading, server, net, tab, notes
<1>2. CASE Arrive
  BY <1>2, AsideKeeps DEF Aside, Arrive, server, net
<1>3. CASE ReadFails
  BY <1>3, AsideKeeps DEF Aside, ReadFails, server, net, tab, notes
<1>4. CASE Retry
  BY <1>4, AsideKeeps DEF Aside, Retry, server, net, tab, notes
<1>5. CASE Leave
  <2>1. \A c \in wire' : Right(c)
    <3>1. TAKE c \in wire'
    <3>2. PICK x \in wire : c = [x EXCEPT !.live = FALSE]
      BY <1>5 DEF Leave, Deserted
    <3>3. QED BY <3>2, LiveFields DEF RightInv, TypeInv, Shapes, Right
  <2>2. dialog' = None /\ UNCHANGED <<reviews, undone>>
    BY <1>5 DEF Leave
  <2>3. QED BY <2>1, <2>2 DEF RightInv, Right, Offers
<1>6. CASE Return
  BY <1>6, AsideKeeps DEF Aside, Return, server, net, notes
<1>7. CASE (\E v : Turn(v)) \/ (\E t : Search(t)) \/ Debounce
  BY <1>7, AsideKeeps DEF Aside, Turn, Search, Debounce, server, net, tab, notes
<1>8. ASSUME NEW kind \in Kinds, NEW i \in Items, Open(kind, i) PROVE RightInv'
  <2>1. UNCHANGED <<wire, reviews, undone>> /\ here
    BY <1>8 DEF Open, server, net, notes
  <2>2. dialog'.kind = kind /\ dialog'.item = i /\ dialog'.was = Fill(kind, i).status
          /\ dialog'.stale = (kind = "edit" /\ shown.items[i] # reviews[i] /\ (i \notin ours \/ failed))
    BY <1>8 DEF Open
  <2>3. ASSUME kind = "edit" PROVE Right(dialog')
    <3>1. page = Review /\ i \in Offers
      BY <2>3, PagesAssumption DEF Kinds, Items, TypeInv, Shapes, Pages
    <3>2. Row(i) /\ ~Busy
      BY <1>8, <2>3, <3>1, PagesAssumption DEF Open, Offered, ReviewButtons
    <3>3. Fill(kind, i).status = shown.items[i].status
      BY <2>3 DEF Fill, Form
    <3>4. \A a \in answers : ~Revising(a.call)
      BY <3>2, <2>1 DEF Busy, Waiting, Revising
    <3>5. ~Told(i) /\ ~Due(i)
      BY <3>4 DEF Told, Due
    <3>6. i \in ours /\ ~failed => shown.items[i] = reviews[i]
      BY <3>1, <3>2, <3>5 DEF KnownInv, Row, Fresh
    <3>7. QED BY <2>2, <2>3, <3>1, <3>3, <3>6 DEF Right
  <2>4. CASE kind # "edit"
    BY <2>1, <2>2, <2>4 DEF RightInv, Right, Offers
  <2>5. QED BY <2>1, <2>3, <2>4 DEF RightInv, Right, Offers
<1>9. ASSUME dialog # None, NEW body, Type(body) PROVE RightInv'
  <2>1. UNCHANGED <<wire, reviews, undone>> /\ Right(dialog')
    BY <1>9, DialogFields DEF Type, server, net, notes, RightInv, TypeInv, Shapes, Right
  <2>2. QED BY <2>1 DEF RightInv, Right, Offers
<1>10. CASE Close
  BY <1>10, AsideKeeps DEF Aside, Close, server, net, notes
<1>11. CASE Submit
  <2>1. UNCHANGED <<reviews, undone>> /\ dialog' \in {dialog, None}
          /\ wire' = wire \cup {Message(dialog.kind, dialog.item, dialog)} /\ dialog # None
    BY <1>11 DEF Submit, Call, server, notes
  <2>2. Right(Message(dialog.kind, dialog.item, dialog))
    BY <2>1, NewMessage DEF Right, RightInv
  <2>3. QED BY <2>1, <2>2 DEF RightInv, Right, Offers
<1>12. ASSUME NEW t, DeleteRate(t) PROVE RightInv'
  BY <1>12, PlainAside DEF DeleteRate, server, tab, notes
<1>13. ASSUME NEW o, Select(o) PROVE RightInv'
  BY <1>13, AsideKeeps DEF Aside, Select, server, net, notes
<1>14. ASSUME NEW o, DeleteOffer(o) PROVE RightInv'
  BY <1>14, PlainAside DEF DeleteOffer, server, tab, notes
<1>15. ASSUME NEW o, NEW s, Patch(o, s) PROVE RightInv'
  BY <1>15, PlainAside DEF Patch, server, tab, notes
<1>16. ASSUME NEW r, ChangeStatus(r) PROVE RightInv'
  BY <1>16, StatusCall, AsideKeeps DEF Aside, ChangeStatus, server, tab, notes
<1>17. ASSUME NEW c \in wire, SaveRate(c) PROVE RightInv'
  BY <1>17, AsideKeeps DEF Aside, SaveRate, Served, tab, notes
<1>18. ASSUME NEW c \in wire, Begin(c) PROVE RightInv'
  BY <1>18, AsideKeeps DEF Aside, Begin, tab, notes
<1>19. ASSUME NEW c \in wire, Associate(c) PROVE RightInv'
  BY <1>19, AsideKeeps DEF Aside, Associate, Served, tab, notes
<1>20. ASSUME NEW c \in wire, SaveReview(c) PROVE RightInv'
  <2>1. \A q \in Offers \ {c.item} : reviews'[q] = reviews[q]
    BY <1>20 DEF SaveReview, TypeInv, RowTypes
  <2>2. ~undone'
    BY <1>20 DEF SaveReview, RightInv, Right
  <2>3. Outdated(c.item, wire \ {c}, Awaited(c)) /\ Reviewing(c)
    BY <1>20 DEF SaveReview, Reviewing
  <2>4. CASE Awaited(c)
    <3>1. c \in Sent
      BY <2>3, <2>4 DEF Sent
    <3>2. \A x \in wire \ {c} : Awaited(x) => x.kind # "edit"
      BY <3>1 DEF AloneInv, AtMostOne, Sent, Reviewing
    <3>3. dialog # None => dialog.kind # "edit"
      BY <3>1 DEF AloneInv
    <3>4. Outdated(c.item, wire \ {c}, TRUE)
      BY <2>3, <2>4 DEF Outdated
    <3>5. QED BY <2>1, <2>2, <3>2, <3>3, <3>4, OutdatedRight
  <2>5. CASE ~Awaited(c)
    <3>1. Outdated(c.item, wire \ {c}, FALSE)
      BY <2>3, <2>5 DEF Outdated
    <3>2. QED BY <2>1, <2>2, <3>1, OutdatedRight
  <2>6. QED BY <2>4, <2>5
<1>21. ASSUME NEW c \in wire, DeleteReview(c) PROVE RightInv'
  <2>1. /\ \A q \in Offers \ {c.item} : reviews'[q] = reviews[q]
        /\ Outdated(c.item, wire \ {c}, FALSE) /\ ~undone'
    BY <1>21 DEF DeleteReview, TypeInv, RowTypes, RightInv
  <2>2. QED BY <2>1, OutdatedRight
<1>22. ASSUME NEW c \in wire, CreateTask(c) PROVE RightInv'
  BY <1>22, AsideKeeps DEF Aside, CreateTask, Served, server, tab, notes
<1>23. ASSUME NEW b \in begun, Commit(b) PROVE RightInv'
  BY <1>23, AsideKeeps DEF Aside, Commit, tab
<1>24. CASE Other
  <2>1. ASSUME NEW t, OtherRates(t) PROVE RightInv'
    BY <2>1, AsideKeeps DEF Aside, OtherRates, net, notes
  <2>2. ASSUME NEW r, OtherMaterials(r) PROVE RightInv'
    BY <2>2, AsideKeeps DEF Aside, OtherMaterials, net
  <2>3. ASSUME NEW o, OtherSupply(o) PROVE RightInv'
    BY <2>3, AsideKeeps DEF Aside, OtherSupply, net
  <2>4. ASSUME NEW o, OtherReviews(o) PROVE RightInv'
    <3>1. /\ \A q \in Offers \ {o} : reviews'[q] = reviews[q]
          /\ Outdated(o, wire, FALSE) /\ ~undone'
      BY <2>4 DEF OtherReviews, TypeInv, RowTypes, RightInv
    <3>2. QED BY <3>1, OutdatedRight
  <2>5. QED BY <1>24, <2>1, <2>2, <2>3, <2>4 DEF Other
<1>25. CASE Lose
  <2>1. UNCHANGED <<reviews, undone, dialog>>
    BY <1>25 DEF Lose, server, tab
  <2>2. \A c \in wire' : Right(c)
    <3>1. TAKE c \in wire'
    <3>2. c \in wire \/ \E x \in wire : c = [x EXCEPT !.gone = TRUE]
      BY <1>25 DEF Lose
    <3>3. ASSUME NEW x \in wire, c = [x EXCEPT !.gone = TRUE] PROVE Right(c)
      BY <3>3, GoneFields DEF RightInv, TypeInv, Shapes, Right
    <3>4. QED BY <3>2, <3>3 DEF RightInv
  <2>3. QED BY <2>1, <2>2 DEF RightInv, Right, Offers
<1>26. ASSUME NEW a \in answers, Succeeded(a) \/ Refused(a) PROVE RightInv'
  BY <1>26, AsideKeeps DEF Aside, Succeeded, Refused, server, tab, notes
<1>27. ASSUME NEW a \in answers, Finish(a) PROVE RightInv'
  <2>1. [a.call EXCEPT !.kind = "refresh", !.nth = calls].kind # "edit"
    BY RefreshFields DEF TypeInv, Shapes, IsAnswer
  <2>2. QED BY <1>27, <2>1, AsideKeeps DEF Aside, Finish, Call, server
<1>28. QED
  BY <1>1, <1>2, <1>3, <1>4, <1>5, <1>6, <1>7, <1>8, <1>9, <1>10, <1>11, <1>12, <1>13, <1>14, <1>15, <1>16, <1>17,
     <1>18, <1>19, <1>20, <1>21, <1>22, <1>23, <1>24, <1>25, <1>26, <1>27 DEF Next

ReviewInv == HereInv /\ AloneInv /\ KnownInv /\ RightInv

LEMMA StutterReview ==
  ASSUME ReviewInv, UNCHANGED vars
  PROVE  ReviewInv'
<1>1. UNCHANGED <<page, here, dialog, wire, begun, answers, fetch, shown, failed, reviews, ours, undone>>
  BY DEF vars, server, net, list, tab, notes
<1>2. HereInv'
  BY <1>1 DEF ReviewInv, HereInv
<1>3. AloneInv'
  BY <1>1, AloneStays DEF ReviewInv
<1>4. KnownInv'
  BY <1>1, KnownStays DEF ReviewInv
<1>5. RightInv'
  BY <1>1, AsideKeeps DEF ReviewInv, Aside
<1>6. QED BY <1>2, <1>3, <1>4, <1>5 DEF ReviewInv

\* Saving the frequency of an offer leaves its review alone, unless others changed the
\* review, or a call of the page was lost or left, since the list behind the dialog was
\* read, or the last reading of that list failed.  In particular an edit never undoes a
\* review that this page gave before: the buttons wait until the list is read again
\* that shows it.
THEOREM FrequencyKeepsReview == Spec => []ReviewKept
<1>1. Init => TypeInv /\ EmptyInv /\ ReviewInv
  BY InitTypes, InitEmpty DEF Init, ReviewInv, HereInv, AloneInv, Sent, AtMostOne, KnownInv, RightInv
<1>2. TypeInv /\ EmptyInv /\ ReviewInv /\ [Next]_vars => (TypeInv /\ EmptyInv /\ ReviewInv)'
  BY StepTyped, EmptyKept, StepHere, StepAlone, StepKnown, StepRight, StutterReview DEF ReviewInv
<1>3. ReviewInv => ReviewKept
  BY DEF ReviewInv, RightInv, ReviewKept
<1>4. QED BY <1>1, <1>2, <1>3, PTL DEF Spec

-----------------------------------------------------------------------------
(* What a list of resources settles to *)

Changing(c) == c.kind \in {"resource", "status"}

\* An answer that will have the list read again
Stirring(a) == ~a.done /\ (a.call.kind = "status" \/ (a.call.kind = "resource" /\ a.ok))
Awaiting ==
  \/ \E c \in wire : c.kind = "status" /\ ~c.gone
  \/ \E b \in begun : b.call.kind = "status" /\ ~b.call.gone
  \/ \E a \in answers : Stirring(a)

\* The list shows of each resource the status that was confirmed last.
Agreed(l) ==
  \A r \in Materials \ unsettled :
    chosen[r] # None =>
      IF view.status = "ACTIVE" /\ ~chosen[r] THEN r \notin DOMAIN l.items
      ELSE r \in DOMAIN l.items /\ l.items[r].active = chosen[r]

\* savis-api keeps the status that was confirmed last, also through the writes that
\* have read their row.
Kept(r) ==
  /\ chosen[r] # None => materials[r] # None /\ materials[r].active = chosen[r]
  /\ \A b \in begun :
       b.item = r /\ b.call.kind # "status" /\ ~b.call.new => b.row.active = materials[r].active

SettledInv ==
  /\ view.status \in {"ALL", "ACTIVE"}
  /\ \A r \in Materials \ unsettled : Kept(r)
  /\ \A b \in begun : Changing(b.call)
  /\ \A c \in wire : c.gone /\ Changing(c) => Target(c) \subseteq unsettled
  /\ \A b \in begun : b.call.gone => b.item \in unsettled
  /\ fetch \notin {None, Asked} /\ here /\ ~Awaiting => Agreed(fetch)
  /\ fetch = None /\ ~failed /\ here /\ ~Awaiting /\ shown # None => Agreed(shown)

LEMMA ReadAgrees ==
  ASSUME TypeInv, SettledInv, page = Resources
  PROVE  Agreed(Read)
<1>1. Read = ListResources
  BY PagesAssumption DEF Read
<1>2. ListResources.items =
        [r \in {q \in Materials : materials[q] # None /\ (view.status = "ALL" \/ materials[q].active)} |-> materials[r]]
  BY DEF ListResources, Whole
<1>3. \A r \in Materials : chosen[r] # None => chosen[r] \in BOOLEAN
  BY DEF TypeInv, NoteTypes
<1>4. QED BY <1>1, <1>2, <1>3 DEF Agreed, SettledInv, Kept

LEMMA SettledCarry ==
  ASSUME SettledInv, UNCHANGED <<materials, chosen, begun>>, unsettled \subseteq unsettled', view'.status \in {"ALL", "ACTIVE"},
         \A c \in wire' : c.gone /\ Changing(c) => Target(c) \subseteq unsettled',
         fetch' \notin {None, Asked} /\ here' /\ ~Awaiting' => view' = view /\ Agreed(fetch'),
         fetch' = None /\ ~failed' /\ here' /\ ~Awaiting' /\ shown' # None => view' = view /\ Agreed(shown')
  PROVE  SettledInv'
BY DEF SettledInv, Kept, Changing, Target, Agreed

\* The list, what is read of it and who waits for it stay.
LEMMA SettledStays ==
  ASSUME SettledInv, UNCHANGED <<materials, chosen, begun, view, fetch, failed, here, shown>>, unsettled \subseteq unsettled',
         \A c \in wire' : c.gone /\ Changing(c) => Target(c) \subseteq unsettled',
         Awaiting => Awaiting'
  PROVE  SettledInv'
BY SettledCarry DEF SettledInv

LEMMA PlainSettled ==
  ASSUME SettledInv, UNCHANGED <<materials, chosen, begun, view, fetch, failed, here, shown, unsettled, answers>>,
         NEW c, ~c.gone, wire' = wire \cup {c}
  PROVE  SettledInv'
<1>1. Awaiting => Awaiting'
  BY DEF Awaiting
<1>2. QED BY <1>1, SettledStays DEF SettledInv

LEMMA ButtonSettled ==
  ASSUME SettledInv, UNCHANGED <<materials, chosen, begun, view, fetch, failed, here, shown, unsettled, answers>>,
         NEW kind, NEW i, NEW body, Plain(kind, i, body)
  PROVE  SettledInv'
<1> DEFINE m == Message(kind, i, [body |-> body, new |-> FALSE, opening |-> calls, was |-> body.status, stale |-> FALSE])
<1>1. ~m.gone
  BY NewMessage
<1>2. wire' = wire \cup {m}
  BY DEF Plain, Call
<1> HIDE DEF m
<1>3. QED BY <1>1, <1>2, PlainSettled

LEMMA ServedSettled ==
  ASSUME SettledInv, UNCHANGED <<materials, chosen, begun, view, fetch, failed, here, shown, unsettled>>,
         NEW c \in wire, ~Changing(c), wire' = wire \ {c}, answers \subseteq answers'
  PROVE  SettledInv'
<1>1. Awaiting => Awaiting'
  BY DEF Awaiting, Changing
<1>2. QED BY <1>1, SettledStays DEF SettledInv

LEMMA OutdatedSettled ==
  ASSUME TypeInv, SettledInv, UNCHANGED <<materials, chosen, begun, view, fetch, failed, here, shown, unsettled>>,
         NEW o, NEW known, NEW gone \in SUBSET wire, \A c \in gone : ~Changing(c), Outdated(o, wire \ gone, known), answers \subseteq answers'
  PROVE  SettledInv'
<1>1. \A x \in wire : IsMessage(x)
  BY DEF TypeInv, Shapes
<1>2. ASSUME NEW x, IsMessage(x)
      PROVE  LET d == [x EXCEPT !.stale = TRUE] IN d.kind = x.kind /\ d.gone = x.gone /\ d.new = x.new /\ d.item = x.item
  BY <1>2 DEF IsMessage, Record
<1>3. ASSUME NEW c \in wire', c.gone, Changing(c) PROVE Target(c) \subseteq unsettled'
  <2>1. PICK x \in wire : c = x \/ c = [x EXCEPT !.stale = TRUE]
    BY DEF Outdated
  <2>2. c.kind = x.kind /\ c.gone = x.gone /\ c.new = x.new /\ c.item = x.item
    BY <1>1, <1>2, <2>1
  <2>3. QED BY <1>3, <2>2 DEF SettledInv, Changing, Target
<1>4. ASSUME NEW x \in wire, x.kind = "status", ~x.gone PROVE \E c \in wire' : c.kind = "status" /\ ~c.gone
  <2>1. x \in wire \ gone
    BY <1>4 DEF Changing
  <2> DEFINE c == IF x.item = o /\ ~(known /\ Awaited(x)) THEN [x EXCEPT !.stale = TRUE] ELSE x
  <2>2. c \in wire'
    BY <2>1 DEF Outdated
  <2>3. c.kind = x.kind /\ c.gone = x.gone
    BY <1>1, <1>2
  <2>4. QED BY <1>4, <2>2, <2>3
<1>5. Awaiting => Awaiting'
  BY <1>4 DEF Awaiting
<1>6. QED BY <1>3, <1>5, SettledStays

LEMMA LeaveSettled ==
  ASSUME TypeInv, SettledInv, Leave
  PROVE  SettledInv'
<1>1. ASSUME NEW x, IsMessage(x)
      PROVE  LET d == [x EXCEPT !.live = FALSE] IN d.kind = x.kind /\ d.gone = x.gone /\ d.new = x.new /\ d.item = x.item
  BY <1>1 DEF IsMessage, Record
<1>2. ASSUME NEW x \in begun
      PROVE  LET b == [x EXCEPT !.call.live = FALSE] IN
             /\ b.item = x.item /\ b.row = x.row
             /\ b.call.kind = x.call.kind /\ b.call.gone = x.call.gone /\ b.call.new = x.call.new
  <2>1. IsBegun(x) /\ IsMessage(x.call)
    BY DEF TypeInv, Shapes, IsBegun
  <2>2. LET b == [x EXCEPT !.call.live = FALSE] IN b.item = x.item /\ b.row = x.row /\ b.call = [x.call EXCEPT !.live = FALSE]
    BY <2>1 DEF IsBegun, Record
  <2>3. QED BY <1>1, <2>1, <2>2
<1>3. /\ UNCHANGED <<materials, chosen, unsettled, view>> /\ here' = FALSE
      /\ begun' = {[b EXCEPT !.call.live = FALSE] : b \in begun} /\ wire' = Deserted(wire)
  BY DEF Leave, list, notes
<1>4. ASSUME NEW b \in begun'
      PROVE  \E x \in begun : /\ b.item = x.item /\ b.row = x.row
                              /\ b.call.kind = x.call.kind /\ b.call.gone = x.call.gone /\ b.call.new = x.call.new
  BY <1>2, <1>3
<1>5. \A r \in Materials \ unsettled' : Kept(r)'
  BY <1>3, <1>4 DEF SettledInv, Kept
<1>6. (\A b \in begun' : Changing(b.call)) /\ \A b \in begun' : b.call.gone => b.item \in unsettled'
  BY <1>3, <1>4 DEF SettledInv, Changing
<1>7. ASSUME NEW c \in wire', c.gone, Changing(c) PROVE Target(c)' \subseteq unsettled'
  <2>1. PICK x \in wire : c = [x EXCEPT !.live = FALSE]
    BY <1>3 DEF Deserted
  <2>2. c.kind = x.kind /\ c.gone = x.gone /\ c.new = x.new /\ c.item = x.item
    BY <1>1, <2>1 DEF TypeInv, Shapes
  <2>3. Target(x) \subseteq unsettled
    BY <1>7, <2>2 DEF SettledInv, Changing
  <2>4. \A y \in begun : \E b \in begun' : b.item = y.item
    BY <1>2, <1>3
  <2>5. Target(c)' \subseteq Target(x)
    <3>1. CASE c.new
      BY <1>3, <2>2, <2>4, <3>1 DEF Target
    <3>2. CASE ~c.new
      BY <2>2, <3>2 DEF Target
    <3>3. QED BY <3>1, <3>2
  <2>6. QED BY <1>3, <2>3, <2>5
<1>8. QED BY <1>3, <1>5, <1>6, <1>7 DEF SettledInv, Changing

LEMMA BeginSettled ==
  ASSUME TypeInv, SettledInv, NEW c \in wire, Begin(c)
  PROVE  SettledInv'
<1> DEFINE row(r) == IF c.new THEN [text |-> c.body.text, active |-> TRUE] ELSE Revised(materials[r], c)
<1>1. PICK r \in Target(c) : begun' = begun \cup {[call |-> c, item |-> r, row |-> row(r)]}
  BY DEF Begin
<1>2. /\ Changing(c) /\ wire' = wire \ {c}
      /\ UNCHANGED <<materials, chosen, unsettled, view, fetch, failed, here, shown, answers>>
  BY DEF Begin, Changing, list, tab, notes
<1>3. c.kind # "status" /\ ~c.new => row(r).active = materials[r].active
  <2>1. SUFFICES ASSUME c.kind # "status", ~c.new PROVE Revised(materials[r], c).active = materials[r].active
    OBVIOUS
  <2>2. materials[r] \in MaterialRows
    BY <1>1, <1>2, <2>1 DEF Target, Changing, TypeInv, CallTypes, Typed, Aimed, Existing, RowTypes
  <2>3. QED BY <2>1, <2>2 DEF Revised, MaterialRows
<1> DEFINE b == [call |-> c, item |-> r, row |-> row(r)]
<1>4. b.call = c /\ b.item = r /\ b.row = row(r) /\ begun' = begun \cup {b}
  BY <1>1
<1> HIDE DEF row, b
<1>5. \A q \in Materials \ unsettled' : Kept(q)'
  BY <1>2, <1>3, <1>4 DEF SettledInv, Kept
<1>6. c.gone => r \in unsettled
  BY <1>1, <1>2 DEF SettledInv
<1>7. (\A x \in begun' : Changing(x.call)) /\ \A x \in begun' : x.call.gone => x.item \in unsettled'
  BY <1>2, <1>4, <1>6 DEF SettledInv, Changing
<1>8. \A d \in wire' : Target(d)' \subseteq Target(d)
  BY <1>2, <1>4 DEF Target
<1>9. \A d \in wire' : d.gone /\ Changing(d) => Target(d)' \subseteq unsettled'
  BY <1>2, <1>8 DEF SettledInv
<1>10. Awaiting => Awaiting'
  BY <1>2, <1>4 DEF Awaiting
<1>11. QED BY <1>2, <1>5, <1>7, <1>9, <1>10 DEF SettledInv, Changing, Agreed

LEMMA CommitSettled ==
  ASSUME TypeInv, SettledInv, NEW b \in begun, Commit(b)
  PROVE  SettledInv'
<1>1. /\ begun' = begun \ {b} /\ materials' = [materials EXCEPT ![b.item] = b.row]
      /\ chosen' = IF b.call.kind = "status" \/ b.call.new THEN [chosen EXCEPT ![b.item] = b.row.active] ELSE chosen
      /\ unsettled' = unsettled \cup {x.item : x \in {y \in begun' : y.item = b.item}}
      /\ answers' = answers \cup Answer(b.call, TRUE)
      /\ UNCHANGED <<wire, view, fetch, failed, here, shown>>
  BY DEF Commit, list, tab
<1>2. b.item \in Materials /\ b.row \in MaterialRows /\ b.row # None /\ Changing(b.call)
  BY NoneAssumption DEF TypeInv, CallTypes, SettledInv
<1>3. materials \in [Materials -> {None} \cup MaterialRows] /\ chosen \in [Materials -> {None} \cup BOOLEAN]
  BY DEF TypeInv, RowTypes, NoteTypes
<1>4. ASSUME NEW r \in Materials \ unsettled' PROVE Kept(r)'
  <2>1. Kept(r)
    BY <1>1 DEF SettledInv
  <2>2. CASE r # b.item
    BY <1>1, <1>3, <2>1, <2>2 DEF Kept
  <2>3. CASE r = b.item
    <3>1. \A x \in begun' : x.item # r
      BY <1>1, <2>3
    <3>2. materials'[r] = b.row
      BY <1>1, <1>2, <1>3, <2>3
    <3>3. CASE b.call.kind = "status" \/ b.call.new
      <4>1. chosen'[r] = b.row.active
        BY <1>1, <1>2, <1>3, <2>3, <3>3
      <4>2. QED BY <1>2, <3>1, <3>2, <4>1 DEF Kept
    <3>4. CASE b.call.kind # "status" /\ ~b.call.new
      <4>1. b.row.active = materials[r].active /\ chosen' = chosen
        BY <1>1, <2>1, <2>3, <3>4 DEF Kept
      <4>2. QED BY <1>2, <2>1, <3>1, <3>2, <4>1 DEF Kept
    <3>5. QED BY <3>3, <3>4
  <2>4. QED BY <2>2, <2>3
<1>5. \A d \in wire : Target(d)' \subseteq Target(d)
  <2>1. \A r \in Materials : materials'[r] = None => materials[r] = None /\ r # b.item
    BY <1>1, <1>2, <1>3
  <2>2. QED BY <1>1, <2>1 DEF Target
<1>6. \A d \in wire' : d.gone /\ Changing(d) => Target(d)' \subseteq unsettled'
  BY <1>1, <1>5 DEF SettledInv
<1>7. (\A x \in begun' : Changing(x.call)) /\ \A x \in begun' : x.call.gone => x.item \in unsettled'
  BY <1>1 DEF SettledInv
<1>8. CASE ~b.call.gone
  <2>1. Awaiting'
    <3>1. [call |-> b.call, ok |-> TRUE, done |-> FALSE] \in answers'
      BY <1>1, <1>8 DEF Answer
    <3>2. QED BY <1>2, <3>1 DEF Awaiting, Stirring, Changing
  <2>2. QED BY <1>1, <1>4, <1>6, <1>7, <2>1 DEF SettledInv, Changing
<1>9. CASE b.call.gone
  <2>1. b.item \in unsettled
    BY <1>9 DEF SettledInv
  <2>2. \A r \in Materials \ unsettled' : chosen'[r] = chosen[r] /\ r \in Materials \ unsettled
    BY <1>1, <1>3, <2>1
  <2>3. Awaiting => Awaiting'
    BY <1>1, <1>9 DEF Awaiting
  <2>4. \A l : Agreed(l) => Agreed(l)'
    BY <1>1, <2>2 DEF Agreed
  <2>5. QED BY <1>1, <1>4, <1>6, <1>7, <2>3, <2>4 DEF SettledInv, Changing
<1>10. QED BY <1>8, <1>9

\* No step turns to another page of the application but to leave this one.
LEMMA StepGrows ==
  ASSUME TypeInv, [Next]_vars
  PROVE  page' = page
BY DEF Next, Reading, Arrive, ReadFails, Retry, Leave, Return, Turn, Search, Debounce, Open, Type, Close, Submit, DeleteRate, Select,
       DeleteOffer, Patch, ChangeStatus, SaveRate, Begin, Associate, SaveReview, DeleteReview, CreateTask, Commit,
       Other, Lose, Succeeded, Refused, Finish, vars, tab

LEMMA StatusCallStays ==
  ASSUME NEW r, ChangeStatus(r)
  PROVE  \E c : c.kind = "status" /\ ~c.gone /\ wire' = wire \cup {c}
<1> DEFINE d == [body |-> [Blank EXCEPT !.status = Opposite(shown.items[r].active)],
                 new |-> FALSE, opening |-> calls, was |-> "NEW", stale |-> FALSE]
           n == Message("status", r, d)
           m == [n EXCEPT !.before = [view |-> view, list |-> shown]]
<1>1. wire' = wire \cup {m}
  BY DEF ChangeStatus, Call
<1>2. IsMessage(n) /\ n.kind = "status" /\ ~n.gone
  BY NewMessage
<1> HIDE DEF n
<1>3. m.kind = "status" /\ ~m.gone
  BY <1>2, BeforeFields
<1>4. QED BY <1>1, <1>3

LEMMA AnsweredSettled ==
  ASSUME TypeInv, SettledInv, NEW a \in answers, Succeeded(a) \/ Refused(a)
  PROVE  SettledInv'
<1>1. /\ UNCHANGED <<materials, chosen, begun, unsettled, view, failed, here, wire>>
      /\ answers' = (answers \ {a}) \cup {[a EXCEPT !.done = TRUE]}
  BY DEF Succeeded, Refused, Over, server, tab, notes
<1>2. CASE Again
  BY <1>1, <1>2, NoneAssumption, SettledCarry DEF Again, SettledInv
<1>3. CASE ~Again
  <2>1. fetch' = fetch /\ shown' = shown /\ ~Stirring(a)
    BY <1>3 DEF Succeeded, Refused, PutBack, Stirring
  <2>2. Awaiting => Awaiting'
    BY <1>1, <2>1 DEF Awaiting
  <2>3. QED BY <1>1, <2>1, <2>2, SettledStays DEF SettledInv
<1>4. QED BY <1>2, <1>3

LEMMA FinishSettled ==
  ASSUME TypeInv, SettledInv, NEW a \in answers, Finish(a)
  PROVE  SettledInv'
<1> DEFINE m == [a.call EXCEPT !.kind = "refresh", !.nth = calls]
<1>1. UNCHANGED <<materials, chosen, begun, unsettled, view, fetch, failed, here, shown>> /\ answers' = answers \ {a} /\ a.done
  BY DEF Finish, server, list
<1>2. wire' \subseteq wire \cup {m} /\ wire \subseteq wire'
  BY DEF Finish, Call
<1>3. m.kind = "refresh"
  BY RefreshFields DEF TypeInv, Shapes, IsAnswer
<1> HIDE DEF m
<1>4. \A c \in wire' : c.gone /\ Changing(c) => Target(c) \subseteq unsettled'
  BY <1>1, <1>2, <1>3 DEF SettledInv, Changing
<1>5. Awaiting => Awaiting'
  BY <1>1, <1>2 DEF Awaiting, Stirring
<1>6. QED BY <1>1, <1>4, <1>5, SettledStays

LEMMA LoseSettled ==
  ASSUME TypeInv, SettledInv, Lose
  PROVE  SettledInv'
<1>0. UNCHANGED <<materials, chosen, begun, view, fetch, failed, here, shown>>
  BY DEF Lose, server, list, tab
<1>1. ASSUME NEW c \in wire, ~c.gone, wire' \in {wire \ {c}, (wire \ {c}) \cup {[c EXCEPT !.gone = TRUE]}},
             answers' = answers \cup {[call |-> c, ok |-> FALSE, done |-> FALSE]},
             unsettled' = unsettled \cup (IF c.kind \in {"status", "resource"} THEN Target(c) ELSE {})
      PROVE  SettledInv'
  <2> DEFINE d == [c EXCEPT !.gone = TRUE]
             l == [call |-> c, ok |-> FALSE, done |-> FALSE]
  <2>1. d.kind = c.kind /\ d.new = c.new /\ d.item = c.item
    BY DEF TypeInv, Shapes, IsMessage, Record
  <2>2. wire' \subseteq wire \cup {d} /\ wire \ {c} \subseteq wire'
    BY <1>1
  <2>3. l \in answers' /\ answers \subseteq answers' /\ (c.kind = "status" => Stirring(l))
    BY <1>1 DEF Stirring
  <2> HIDE DEF d, l
  <2>4. Changing(c) => Target(c) \subseteq unsettled' /\ Target(d) = Target(c)
    BY <1>1, <2>1 DEF Changing, Target
  <2>5. \A x \in wire' : x.gone /\ Changing(x) => Target(x) \subseteq unsettled'
    <3>1. TAKE x \in wire'
    <3>2. CASE x = d
      BY <2>1, <2>4, <3>2 DEF Changing
    <3>3. CASE x \in wire
      BY <1>1, <3>3 DEF SettledInv
    <3>4. QED BY <2>2, <3>2, <3>3
  <2>6. Awaiting => Awaiting'
    BY <1>0, <2>2, <2>3 DEF Awaiting
  <2>7. unsettled \subseteq unsettled'
    BY <1>1
  <2>8. QED BY <1>0, <2>5, <2>6, <2>7, SettledStays
<1>2. ASSUME NEW a \in answers, a.ok, ~a.done, answers' = (answers \ {a}) \cup {[a EXCEPT !.ok = FALSE]}, UNCHANGED wire,
             unsettled' = unsettled \cup (IF a.call.kind \in {"status", "resource"} THEN Materials ELSE {})
      PROVE  SettledInv'
  <2>1. CASE a.call.kind \in {"status", "resource"}
    <3>1. Materials \subseteq unsettled' /\ unsettled \subseteq unsettled'
      BY <1>2, <2>1
    <3>2. (\A l : Agreed(l)') /\ \A r \in Materials \ unsettled' : FALSE
      BY <3>1 DEF Agreed
    <3>3. \A x \in wire' : x.gone /\ Changing(x) => Target(x) \subseteq unsettled'
      BY <1>2, <3>1 DEF SettledInv
    <3>4. \A x \in wire : Target(x)' = Target(x)
      BY <1>0 DEF Target
    <3>5. QED BY <1>0, <1>2, <3>1, <3>2, <3>3, <3>4 DEF SettledInv, Changing
  <2>2. CASE a.call.kind \notin {"status", "resource"}
    <3>1. Awaiting => Awaiting'
      BY <1>0, <1>2, <2>2 DEF Awaiting, Stirring
    <3>2. QED BY <1>0, <1>2, <2>2, <3>1, SettledStays DEF SettledInv
  <2>3. QED BY <2>1, <2>2
<1>3. QED BY <1>1, <1>2 DEF Lose

LEMMA StepSettled ==
  ASSUME TypeInv, SettledInv, page = Resources, Next
  PROVE  SettledInv'
<1>1. CASE Reading
  <2>1. fetch' = Read /\ UNCHANGED <<materials, chosen, begun, unsettled, view, failed, here, shown, wire>>
    BY <1>1 DEF Reading, server, net, tab, notes
  <2>2. Read # None
    <3>1. Read = ListResources
      BY PagesAssumption DEF Read
    <3>2. ListResources \in [items : [DOMAIN ListResources.items -> MaterialRows], total : Nat]
            /\ DOMAIN ListResources.items \in SUBSET Materials
      BY DEF ListResources, Whole, TypeInv, RowTypes
    <3>3. QED BY <3>1, <3>2, NoneAssumption
  <2>3. QED BY <2>1, <2>2, ReadAgrees, SettledCarry DEF SettledInv
<1>2. CASE Arrive
  <2>1. InRange(fetch)
    BY PagesAssumption DEF InRange
  <2>2. shown' = fetch /\ fetch' = None /\ failed' = FALSE /\ fetch \notin {None, Asked}
          /\ UNCHANGED <<materials, chosen, begun, unsettled, view, here, wire, answers>>
    BY <1>2, <2>1 DEF Arrive, server, net, notes
  <2>3. Awaiting' = Awaiting
    BY <2>2 DEF Awaiting
  <2>4. QED BY <2>2, <2>3, SettledCarry DEF SettledInv
<1>3. CASE ReadFails
  <2>1. fetch' = None /\ failed' = TRUE /\ UNCHANGED <<materials, chosen, begun, unsettled, view, here, wire>>
    BY <1>3 DEF ReadFails, server, net, tab, notes
  <2>2. QED BY <2>1, SettledCarry DEF SettledInv
<1>4. CASE Retry \/ Return \/ Debounce
             \/ \E s \in StatusFilters : \E t \in TermFilters(s), n \in Offers : Turn([view EXCEPT !.status = s, !.term = t, !.nth = n])
  <2>1. fetch' = Asked /\ UNCHANGED <<materials, chosen, begun, unsettled, wire>>
    BY <1>4 DEF Retry, Return, Debounce, Turn, server, net, notes
  <2>2. view'.status \in {"ALL", "ACTIVE"}
    <3>1. StatusFilters = {"ALL", "ACTIVE"} /\ First.status = "ALL"
      BY PagesAssumption DEF StatusFilters, ResourceFilters, First, View
    <3>2. view \in Views
      BY DEF TypeInv, ListTypes
    <3>3. CASE Retry \/ Debounce
      BY <3>2, <3>3 DEF Retry, Debounce, SettledInv, Views
    <3>4. CASE Return
      BY <3>1, <3>4 DEF Return
    <3>5. ASSUME NEW s \in StatusFilters, NEW t, NEW n, Turn([view EXCEPT !.status = s, !.term = t, !.nth = n])
          PROVE  view'.status \in {"ALL", "ACTIVE"}
      BY <3>1, <3>2, <3>5 DEF Turn, Views
    <3>6. QED BY <1>4, <3>3, <3>4, <3>5
  <2>3. QED BY <2>1, <2>2, NoneAssumption, SettledCarry DEF SettledInv
<1>5. CASE Leave
  BY <1>5, LeaveSettled
<1>6. ASSUME (\E kind, i : Open(kind, i)) \/ (\E body : Type(body)) \/ Close \/ \E o : Select(o)
      PROVE  SettledInv'
  <2>1. UNCHANGED <<materials, chosen, begun, unsettled, view, fetch, failed, here, shown, wire, answers>>
    BY <1>6 DEF Open, Type, Close, Select, server, net, list, notes
  <2>2. Awaiting' = Awaiting
    BY <2>1 DEF Awaiting
  <2>3. QED BY <2>1, <2>2, SettledStays DEF SettledInv
<1>7. CASE Submit
  <2>1. /\ UNCHANGED <<materials, chosen, begun, unsettled, view, fetch, failed, here, shown, answers>>
        /\ wire' = wire \cup {Message(dialog.kind, dialog.item, dialog)}
    BY <1>7 DEF Submit, Call, server, list, notes
  <2>2. ~Message(dialog.kind, dialog.item, dialog).gone
    BY NewMessage
  <2>3. QED BY <2>1, <2>2, PlainSettled
<1>8. ASSUME NEW t, DeleteRate(t) PROVE SettledInv'
  BY <1>8, ButtonSettled DEF DeleteRate, server, list, tab, notes
<1>9. ASSUME NEW o, DeleteOffer(o) PROVE SettledInv'
  BY <1>9, ButtonSettled DEF DeleteOffer, server, list, tab, notes
<1>10. ASSUME NEW o, NEW s, Patch(o, s) PROVE SettledInv'
  BY <1>10, ButtonSettled DEF Patch, server, list, tab, notes
<1>11. ASSUME NEW r, ChangeStatus(r) PROVE SettledInv'
  <2>1. UNCHANGED <<materials, chosen, begun, unsettled, view>>
    BY <1>11 DEF ChangeStatus, server, tab, notes
  <2>2. PICK c : c.kind = "status" /\ ~c.gone /\ wire' = wire \cup {c}
    BY <1>11, StatusCallStays
  <2>3. Awaiting'
    BY <2>2 DEF Awaiting
  <2>4. \A x \in wire' : x.gone /\ Changing(x) => Target(x) \subseteq unsettled'
    BY <2>1, <2>2 DEF SettledInv
  <2>5. QED BY <2>1, <2>3, <2>4, SettledCarry DEF SettledInv
<1>12. ASSUME NEW c \in wire, SaveRate(c) \/ Associate(c) \/ CreateTask(c) PROVE SettledInv'
  <2>1. UNCHANGED <<materials, chosen, begun, view, fetch, failed, here, shown, unsettled>> /\ ~Changing(c)
          /\ wire' = wire \ {c} /\ answers \subseteq answers'
    BY <1>12 DEF SaveRate, Associate, CreateTask, Served, Changing, server, list, tab, notes
  <2>2. QED BY <2>1, ServedSettled
<1>13. ASSUME NEW c \in wire, SaveReview(c) \/ DeleteReview(c) PROVE SettledInv'
  <2>1. UNCHANGED <<materials, chosen, begun, view, fetch, failed, here, shown, unsettled>> /\ ~Changing(c)
          /\ answers \subseteq answers'
    BY <1>13 DEF SaveReview, DeleteReview, Changing, list, notes
  <2>2. PICK known : Outdated(c.item, wire \ {c}, known)
    BY <1>13 DEF SaveReview, DeleteReview
  <2>3. QED BY <2>1, <2>2, OutdatedSettled
<1>14. ASSUME NEW c \in wire, Begin(c) PROVE SettledInv'
  BY <1>14, BeginSettled
<1>15. ASSUME NEW b \in begun, Commit(b) PROVE SettledInv'
  BY <1>15, CommitSettled
<1>16. CASE Other
  <2>1. PICK r \in Materials : OtherMaterials(r)
    BY <1>16, PagesAssumption DEF Other, OtherRates, OtherSupply, OtherReviews
  <2>2. /\ materials' = [materials EXCEPT ![r].active = ~@] /\ materials[r] # None /\ unsettled' = unsettled \cup {r}
        /\ UNCHANGED <<chosen, begun, view, fetch, failed, here, shown, wire, answers>>
    BY <1>16, <2>1 DEF Other, OtherMaterials, net, list
  <2>3. /\ \A q \in Materials \ {r} : materials'[q] = materials[q]
        /\ materials'[r] # None
    <3>1. materials[r] \in MaterialRows /\ materials \in [Materials -> {None} \cup MaterialRows]
      BY <2>2 DEF TypeInv, RowTypes
    <3>2. materials'[r] = [materials[r] EXCEPT !.active = ~@]
      BY <2>2, <3>1
    <3>3. materials'[r] \in MaterialRows
      BY <3>1, <3>2 DEF MaterialRows
    <3>4. QED BY <2>2, <3>1, <3>3, NoneAssumption
  <2>4. \A q \in Materials \ unsettled' : Kept(q)'
    BY <2>2, <2>3 DEF SettledInv, Kept
  <2>5. \A x \in wire : Target(x)' \subseteq Target(x)
    BY <2>2, <2>3 DEF Target
  <2>6. \A x \in wire' : x.gone /\ Changing(x) => Target(x)' \subseteq unsettled'
    BY <2>2, <2>5 DEF SettledInv
  <2>7. Awaiting' = Awaiting /\ \A l : Agreed(l) => Agreed(l)'
    BY <2>2 DEF Awaiting, Agreed
  <2>8. QED BY <2>2, <2>4, <2>6, <2>7 DEF SettledInv, Changing
<1>17. CASE Lose
  BY <1>17, LoseSettled
<1>18. ASSUME NEW a \in answers, Succeeded(a) \/ Refused(a) PROVE SettledInv'
  BY <1>18, AnsweredSettled
<1>19. ASSUME NEW a \in answers, Finish(a) PROVE SettledInv'
  BY <1>19, FinishSettled
<1>20. ASSUME NEW t, Search(t) PROVE SettledInv'
  BY <1>20, PagesAssumption DEF Search
<1>21. QED
  BY <1>1, <1>2, <1>3, <1>4, <1>5, <1>6, <1>7, <1>8, <1>9, <1>10, <1>11, <1>12, <1>13, <1>14, <1>15, <1>16, <1>17,
     <1>18, <1>19, <1>20 DEF Next

\* Once every change is answered and the list was read again, it shows of each
\* resource the status that was confirmed last, whatever was shown before the answers,
\* put back or edited meanwhile, unless others wrote it, two writes of the resource
\* overlapped, or an answer was lost: whatever may still change it has the list read
\* again, and every reading agrees with what was confirmed.
THEOREM StatusesSettle == Spec => []StatusSettled
<1> DEFINE I == TypeInv /\ (page = Resources => SettledInv)
<1>1. Init => I
  <2>1. SUFFICES ASSUME Init, page = Resources PROVE SettledInv
    BY InitTypes
  <2>2. /\ wire = {} /\ begun = {} /\ fetch = Asked /\ view = First
        /\ materials \in [Materials -> {None, [text |-> 0, active |-> TRUE]}]
        /\ chosen = [r \in Materials |-> IF materials[r] = None THEN None ELSE TRUE]
    BY <2>1 DEF Init
  <2>3. First.status = "ALL"
    BY <2>1, PagesAssumption DEF First, View
  <2>4. \A r \in Materials : Kept(r)
    <3>1. TAKE r \in Materials
    <3>2. materials[r] = None \/ materials[r] = [text |-> 0, active |-> TRUE]
      BY <2>2
    <3>3. chosen[r] = IF materials[r] = None THEN None ELSE TRUE
      BY <2>2
    <3>4. CASE materials[r] = None
      BY <2>2, <3>3, <3>4 DEF Kept
    <3>5. CASE materials[r] # None
      <4>1. chosen[r] = TRUE
        BY <3>3, <3>5, Zenon
      <4>2. materials[r].active = TRUE
        BY <3>2, <3>5
      <4>3. materials[r].active = chosen[r]
        BY <4>1, <4>2, Zenon
      <4>4. QED BY <2>2, <3>5, <4>3 DEF Kept
    <3>6. QED BY <3>4, <3>5
  <2>5. QED BY <2>2, <2>3, <2>4, NoneAssumption DEF SettledInv
<1>2. I /\ [Next]_vars => I'
  <2>1. ASSUME SettledInv, UNCHANGED vars PROVE SettledInv'
    <3>1. UNCHANGED <<materials, chosen, begun, unsettled, view, fetch, failed, here, shown, wire, answers>>
      BY <2>1 DEF vars, server, net, list, tab, notes
    <3>2. Awaiting' = Awaiting
      BY <3>1 DEF Awaiting
    <3>3. QED BY <2>1, <3>1, <3>2, SettledStays DEF SettledInv
  <2>2. ASSUME TypeInv, [Next]_vars PROVE page' = page
    BY <2>2, StepGrows
  <2>3. QED BY <2>1, <2>2, StepTyped, StepSettled
<1>3. I => StatusSettled
  <2>1. SUFFICES ASSUME TypeInv, SettledInv, page = Resources, Quiet PROVE StatusSettled
    BY DEF StatusSettled
  <2>2. ~Awaiting /\ Agreed(shown)
    BY <2>1 DEF Quiet, Awaiting, SettledInv
  <2>3. QED BY <2>1, <2>2 DEF Quiet, StatusSettled, Agreed, Row
<1>4. QED BY <1>1, <1>2, <1>3, PTL DEF Spec
=============================================================================
