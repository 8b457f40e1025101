-------------------------------- MODULE Sales --------------------------------
(***************************************************************************)
(* The sales documents of savis-api: a quotation is converted into an      *)
(* order, an order is billed by an invoice.  Every request is one database *)
(* transaction at READ COMMITTED that reads a row, decides, and writes the *)
(* row back.                                                               *)
(*                                                                         *)
(* Quotations and invoices are read with SELECT ... FOR UPDATE, and so is  *)
(* the order that is being billed.  The order requests themselves read     *)
(* without a lock, and their rows have no version: Hibernate writes every  *)
(* column of a changed row, but of its items only those that changed.      *)
(***************************************************************************)
EXTENDS Naturals, FiniteSets

CONSTANTS
  Clients,     \* concurrent requests
  Quotations, Orders, Invoices,  \* ids
  None,
  MaxLines,    \* bound: commercial contents entered so far
  MaxNumber    \* bound: invoice numbers taken from the sequence

ASSUME SalesAssumption ==
  /\ None \notin Quotations \cup Orders
  /\ MaxLines \in Nat \ {0} /\ MaxNumber \in Nat

VARIABLES
  quotations,  \* the rows of quotations, as far as they exist
  orders,      \* the rows of orders with their items
  invoices,    \* the rows of invoices
  tx,          \* tx[c]: the open transaction of c
  entered,     \* the last commercial content that was entered
  numbers,     \* the last value of invoice_number_sequence
  crossed      \* history: orders written by a transaction that had read an older row

vars == <<quotations, orders, invoices, tx, entered, numbers, crossed>>

\* A commercial content (items, discount and fee) is known by when it was entered.
Lines == 1..MaxLines

QuotationRow ==
  [status : {"DRAFT", "SENT", "ACCEPTED", "REJECTED"}, lines : Lines,
   order : Orders \cup {None}]

\* lines: the items; total: the content total_cents was computed from.
OrderRow ==
  [source : {"ADMIN", "SAVOURETPLUS_WEB", "QUOTATION"}, origin : Quotations \cup {None},
   status : {"NEW", "ACCEPTED", "IN_PREPARATION", "READY", "COMPLETED", "REJECTED", "CANCELLED"},
   lines : Lines, total : Lines]

\* number 0: none; edited: the draft was edited after its creation.
InvoiceRow ==
  [order : Orders, status : {"DRAFT", "ISSUED", "CANCELLED"}, paid : BOOLEAN,
   number : 0..MaxNumber, lines : Lines, edited : BOOLEAN]

\* An open transaction: the row it read and the row it will write.
Idle == [op |-> "none"]
Transactions ==
  {Idle}
    \cup [op : {"order"}, key : Orders, seen : OrderRow, row : OrderRow]
    \cup [op : {"bill"}, key : Orders, seen : OrderRow]
    \cup [op : {"quotation", "convert"}, key : Quotations, row : QuotationRow]
    \cup [op : {"invoice"}, key : Invoices, row : InvoiceRow]

Init ==
  /\ quotations = <<>> /\ orders = <<>> /\ invoices = <<>>
  /\ tx = [c \in Clients |-> Idle]
  /\ entered = 0 /\ numbers = 0 /\ crossed = {}

\* table with the row of one key written.
Put(table, key, row) == [k \in DOMAIN table \cup {key} |-> IF k = key THEN row ELSE table[k]]

\* Some transaction holds the lock of SELECT ... FOR UPDATE on the row.
Locked(ops, key) == \E c \in Clients : tx[c].op \in ops /\ tx[c].key = key

Begin(c, transaction) == tx[c] = Idle /\ tx' = [tx EXCEPT ![c] = transaction]
End(c) == tx' = [tx EXCEPT ![c] = Idle]

Enter == entered < MaxLines /\ entered' = entered + 1

\* An exception, a lost connection or a crash: nothing was written.
RollBack(c) ==
  /\ tx[c] # Idle /\ End(c)
  /\ UNCHANGED <<quotations, orders, invoices, entered, numbers, crossed>>
-----------------------------------------------------------------------------
(* Orders: OrderService and the domain record Order *)

\* An order entered by an administrator, or imported from the storefront.
CreateOrder(o, source) ==
  /\ o \notin DOMAIN orders /\ Enter
  /\ orders' = Put(orders, o,
       [source |-> source, origin |-> None, status |-> "NEW",
        lines |-> entered', total |-> entered'])
  /\ UNCHANGED <<quotations, invoices, tx, numbers, crossed>>

\* The constructor of Order refuses a total that is not the total of the items:
\* such a row cannot be read any more.
Readable(o) == orders[o].total = orders[o].lines

AllowedNextStatuses(status) ==
  CASE status = "NEW" -> {"ACCEPTED", "REJECTED", "CANCELLED"}
    [] status = "ACCEPTED" -> {"IN_PREPARATION", "CANCELLED"}
    [] status = "IN_PREPARATION" -> {"READY", "CANCELLED"}
    [] status = "READY" -> {"COMPLETED", "CANCELLED"}
    [] OTHER -> {}

\* A request on an order has read the row, without a lock.
ReadOrder(c, o, row) ==
  /\ o \in DOMAIN orders /\ Readable(o)
  /\ Begin(c, [op |-> "order", key |-> o, seen |-> orders[o], row |-> row])
  /\ UNCHANGED <<quotations, orders, invoices, numbers, crossed>>

\* updateStatus; the present status again writes nothing.
ChangeStatus(c, o) ==
  /\ \E next \in AllowedNextStatuses(orders[o].status) :
       ReadOrder(c, o, [orders[o] EXCEPT !.status = next])
  /\ UNCHANGED entered

\* Faulty: an order of the administration can be replaced until it is prepared.
ReplaceableUntilPrepared(row) == row.source = "ADMIN" /\ row.status \in {"NEW", "ACCEPTED"}

\* Faulty: so can an order that came from a quotation.
ReplaceableIfNotWeb(row) == row.source # "SAVOURETPLUS_WEB" /\ row.status \in {"NEW", "ACCEPTED"}

Replaceable(row) == row.source = "ADMIN" /\ row.status = "NEW"

\* New items and their total, from the current catalog.
Replaced(row, content) == [row EXCEPT !.lines = content, !.total = content]

\* update: the order is replaced.
Replace(c, o) ==
  /\ Replaceable(orders[o]) /\ Enter
  /\ ReadOrder(c, o, Replaced(orders[o], entered'))

\* updateWebCustomer: only columns that are not modelled change.
CorrectCustomer(c, o) ==
  /\ orders[o].source = "SAVOURETPLUS_WEB" /\ orders[o].status = "NEW"
  /\ ReadOrder(c, o, orders[o])
  /\ UNCHANGED entered

\* The flush: all columns of the row, and the items if they were replaced.
Written(row, current, seen) ==
  [row EXCEPT !.lines = IF row.lines = seen.lines THEN current.lines ELSE @]

\* The UPDATE waits for a lock on the row.  Items that were read but exist no
\* more cannot be deleted, and the transaction fails (RollBack).
WriteOrder(c) ==
  /\ tx[c].op = "order" /\ ~Locked({"bill"}, tx[c].key)
  /\ LET o == tx[c].key
     IN /\ tx[c].row.lines # tx[c].seen.lines => orders[o].lines = tx[c].seen.lines
        /\ orders' = Put(orders, o, Written(tx[c].row, orders[o], tx[c].seen))
        /\ crossed' = IF orders[o] = tx[c].seen THEN crossed ELSE crossed \cup {o}
  /\ End(c)
  /\ UNCHANGED <<quotations, invoices, entered, numbers>>
-----------------------------------------------------------------------------
(* Quotations: QuotationService and QuotationOrderService *)

CreateQuotation(q) ==
  /\ q \notin DOMAIN quotations /\ Enter
  /\ quotations' = Put(quotations, q, [status |-> "DRAFT", lines |-> entered', order |-> None])
  /\ UNCHANGED <<orders, invoices, tx, numbers, crossed>>

\* Faulty: the quotation is read without a lock.
QuotationFreeAlways(q) == TRUE

QuotationFree(q) == ~Locked({"quotation", "convert"}, q)

LockQuotation(c, q, op, row) ==
  /\ q \in DOMAIN quotations /\ QuotationFree(q)
  /\ Begin(c, [op |-> op, key |-> q, row |-> row])
  /\ UNCHANGED <<quotations, orders, invoices, numbers, crossed>>

\* update: a draft is built anew.
EditQuotation(c, q) ==
  /\ quotations[q].status = "DRAFT" /\ Enter
  /\ LockQuotation(c, q, "quotation", [quotations[q] EXCEPT !.lines = entered'])

\* changeStatus.
ChangeQuotationStatus(c, q) ==
  /\ \/ /\ quotations[q].status = "DRAFT"
        /\ LockQuotation(c, q, "quotation", [quotations[q] EXCEPT !.status = "SENT"])
     \/ /\ quotations[q].status = "SENT"
        /\ \E next \in {"ACCEPTED", "REJECTED"} :
             LockQuotation(c, q, "quotation", [quotations[q] EXCEPT !.status = next])
  /\ UNCHANGED entered

WriteQuotation(c) ==
  /\ tx[c].op = "quotation"
  /\ quotations' = Put(quotations, tx[c].key, tx[c].row)
  /\ End(c)
  /\ UNCHANGED <<orders, invoices, entered, numbers, crossed>>

\* convert, of an accepted quotation that has no order yet.
LockForConversion(c, q) ==
  /\ quotations[q].status = "ACCEPTED" /\ quotations[q].order = None
  /\ LockQuotation(c, q, "convert", quotations[q])
  /\ UNCHANGED entered

Converted(row, q, o) == [row EXCEPT !.order = o]

\* The order with the agreed terms, and its id in the quotation, in one commit.
\* (QuotationOrderService would return an order that exists already, the unique
\* constraint refuse a second.)
Convert(c, o) ==
  LET q == tx[c].key
  IN /\ tx[c].op = "convert" /\ o \notin DOMAIN orders
     /\ \A p \in DOMAIN orders : orders[p].origin # q
     /\ orders' = Put(orders, o,
          [source |-> "QUOTATION", origin |-> q, status |-> "ACCEPTED",
           lines |-> tx[c].row.lines, total |-> tx[c].row.lines])
     /\ quotations' = Put(quotations, q, Converted(tx[c].row, q, o))
     /\ End(c)
     /\ UNCHANGED <<invoices, entered, numbers, crossed>>
-----------------------------------------------------------------------------
(* Invoices: InvoiceService, OrderInvoicingService and the record Invoice *)

Invoiceable == {"ACCEPTED", "IN_PREPARATION", "READY", "COMPLETED"}

Billed(o) == \E i \in DOMAIN invoices : invoices[i].order = o

\* Faulty: snapshotForInvoice reads the order without a lock.
OrderFreeAlways(o) == TRUE

OrderFree(o) == ~Locked({"bill"}, o)

\* createFromOrder has locked the order and found no invoice of it.
LockForInvoice(c, o) ==
  /\ o \in DOMAIN orders /\ OrderFree(o) /\ Readable(o)
  /\ orders[o].status \in Invoiceable /\ ~Billed(o)
  /\ Begin(c, [op |-> "bill", key |-> o, seen |-> orders[o]])
  /\ UNCHANGED <<quotations, orders, invoices, entered, numbers, crossed>>

\* The draft; the unique constraint refuses a second invoice (RollBack).
CreateInvoice(c, i) ==
  /\ tx[c].op = "bill" /\ i \notin DOMAIN invoices /\ ~Billed(tx[c].key)
  /\ invoices' = Put(invoices, i,
       [order |-> tx[c].key, status |-> "DRAFT", paid |-> FALSE, number |-> 0,
        lines |-> tx[c].seen.lines, edited |-> FALSE])
  /\ End(c)
  /\ UNCHANGED <<quotations, orders, entered, numbers, crossed>>

\* Faulty: the invoice is read without a lock.
InvoiceFreeAlways(i) == TRUE

InvoiceFree(i) == ~Locked({"invoice"}, i)

LockInvoice(c, i, row) ==
  /\ i \in DOMAIN invoices /\ InvoiceFree(i)
  /\ Begin(c, [op |-> "invoice", key |-> i, row |-> row])
  /\ UNCHANGED <<quotations, orders, invoices, entered, crossed>>

\* update, of a draft.
EditInvoice(c, i) ==
  /\ invoices[i].status = "DRAFT"
  /\ LockInvoice(c, i, [invoices[i] EXCEPT !.edited = TRUE])
  /\ UNCHANGED numbers

\* issue, of a draft; the number is taken from the sequence at once, and stays
\* taken when the transaction rolls back.
Issue(c, i) ==
  /\ invoices[i].status = "DRAFT"
  /\ numbers < MaxNumber /\ numbers' = numbers + 1
  /\ LockInvoice(c, i, [invoices[i] EXCEPT !.status = "ISSUED", !.number = numbers'])

\* A cancelled invoice is refused after its number was taken.
IssueRefused(i) ==
  /\ i \in DOMAIN invoices /\ InvoiceFree(i) /\ invoices[i].status = "CANCELLED"
  /\ numbers < MaxNumber /\ numbers' = numbers + 1
  /\ UNCHANGED <<quotations, orders, invoices, tx, entered, crossed>>

MarkPaid(c, i) ==
  /\ invoices[i].status = "ISSUED" /\ ~invoices[i].paid
  /\ LockInvoice(c, i, [invoices[i] EXCEPT !.paid = TRUE])
  /\ UNCHANGED numbers

RevertPayment(c, i) ==
  /\ invoices[i].paid
  /\ LockInvoice(c, i, [invoices[i] EXCEPT !.paid = FALSE])
  /\ UNCHANGED numbers

\* cancel, of a draft or an issued invoice that is not paid.
Cancel(c, i) ==
  /\ invoices[i].status # "CANCELLED" /\ ~invoices[i].paid
  /\ LockInvoice(c, i, [invoices[i] EXCEPT !.status = "CANCELLED"])
  /\ UNCHANGED numbers

WriteInvoice(c) ==
  /\ tx[c].op = "invoice"
  /\ invoices' = Put(invoices, tx[c].key, tx[c].row)
  /\ End(c)
  /\ UNCHANGED <<quotations, orders, entered, numbers, crossed>>
-----------------------------------------------------------------------------
OrderNext(c) ==
  \/ \E o \in DOMAIN orders : ChangeStatus(c, o) \/ Replace(c, o) \/ CorrectCustomer(c, o)
  \/ WriteOrder(c)

QuotationNext(c) ==
  \/ \E q \in DOMAIN quotations :
       EditQuotation(c, q) \/ ChangeQuotationStatus(c, q) \/ LockForConversion(c, q)
  \/ WriteQuotation(c)
  \/ \E o \in Orders : Convert(c, o)

InvoiceNext(c) ==
  \/ \E o \in Orders : LockForInvoice(c, o)
  \/ \E i \in Invoices : CreateInvoice(c, i)
  \/ \E i \in DOMAIN invoices :
       EditInvoice(c, i) \/ Issue(c, i) \/ MarkPaid(c, i) \/ RevertPayment(c, i) \/ Cancel(c, i)
  \/ WriteInvoice(c)

Next ==
  \/ \E o \in Orders, source \in {"ADMIN", "SAVOURETPLUS_WEB"} : CreateOrder(o, source)
  \/ \E q \in Quotations : CreateQuotation(q)
  \/ \E i \in Invoices : IssueRefused(i)
  \/ \E c \in Clients : OrderNext(c) \/ QuotationNext(c) \/ InvoiceNext(c) \/ RollBack(c)

Spec == Init /\ [][Next]_vars
-----------------------------------------------------------------------------
(* What the sales modules promise *)

\* The tables and the open transactions keep their types.
TypeOK ==
  /\ DOMAIN quotations \subseteq Quotations
  /\ \A q \in DOMAIN quotations : quotations[q] \in QuotationRow
  /\ DOMAIN orders \subseteq Orders
  /\ \A o \in DOMAIN orders : orders[o] \in OrderRow
  /\ DOMAIN invoices \subseteq Invoices
  /\ \A i \in DOMAIN invoices : invoices[i] \in InvoiceRow
  /\ tx \in [Clients -> Transactions]
  /\ entered \in 0..MaxLines /\ numbers \in 0..MaxNumber /\ crossed \subseteq Orders

\* What was agreed in a quotation stays agreed: an order that was converted from
\* one has the terms of the accepted quotation and is the one order the quotation
\* knows, whatever requests cross (QuotationService.convert).
AgreedTermsKept ==
  \A o \in DOMAIN orders :
    LET q == orders[o].origin
    IN q # None =>
         /\ q \in DOMAIN quotations
         /\ quotations[q].status = "ACCEPTED" /\ quotations[q].order = o
         /\ orders[o].lines = quotations[q].lines /\ Readable(o)

\* No request for an invoice fails on the unique constraint: between the lookup of
\* createFromOrder and its insertion nobody else bills the order.
LookupStaysValid == \A c \in Clients : tx[c].op = "bill" => ~Billed(tx[c].key)

\* An issued invoice is frozen: it keeps its number and content, can only be paid,
\* unpaid or cancelled, and not cancelled while paid; a cancelled one never
\* changes (Invoice.issue: "freezes the invoice").
IssuedIsFrozen ==
  [][\A i \in DOMAIN invoices :
       /\ invoices[i].status = "ISSUED" =>
            /\ \E s \in {"ISSUED", "CANCELLED"}, b \in BOOLEAN :
                 invoices'[i] = [invoices[i] EXCEPT !.status = s, !.paid = b]
            /\ invoices[i].paid => invoices'[i].status = "ISSUED"
       /\ invoices[i].status = "CANCELLED" => invoices'[i] = invoices[i]]_vars

\* As long as no transaction wrote over an order that changed after it had read
\* it, the total is that of the items, and a billed order is one that was accepted
\* and has still the content of its invoice.
LawfulUnlessCrossed ==
  \A o \in DOMAIN orders \ crossed :
    /\ Readable(o)
    /\ \A i \in DOMAIN invoices : invoices[i].order = o =>
         orders[o].status \notin {"NEW", "REJECTED"} /\ orders[o].lines = invoices[i].lines
=============================================================================
